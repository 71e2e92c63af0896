--------------------------- MODULE Packing_proofs ---------------------------
(***************************************************************************)
(* Packing, for any disks, orders and packages: whatever is packed, and    *)
(* whichever of its steps fail, it writes and removes only below the       *)
(* places of its orders, so that the user's own files stay as they are; it *)
(* makes executables only where it means to; and what it leaves is clean.  *)
(***************************************************************************)
EXTENDS Packing, SequenceTheorems, WellFoundedInduction, TLAPS

IsDisk(d) == DOMAIN d \subseteq FilePath

\* The disk e is the disk d but for what is below dir.
OnlyBelow(dir, d, e) ==
    /\ \A p \in DOMAIN d : ~Below(dir, p) => p \in DOMAIN e /\ e[p] = d[p]
    /\ \A p \in DOMAIN e \ DOMAIN d : p \in FilePath /\ Below(dir, p)

\* Below dir, the disk e has nothing that d has not.
Fewer(d, e, dir) == \A p \in Under(e, dir) : p \in DOMAIN d /\ e[p] = d[p]

-----------------------------------------------------------------------------
(* Paths *)

\* A set of natural numbers has a least one.
LEMMA Least ==
    ASSUME NEW T, T \subseteq Nat, T # {}
    PROVE  \E x \in T : \A y \in T : x <= y
<1> DEFINE R == OpToRel(<, Nat)
<1>1. IsWellFoundedOn(R, Nat)
  BY NatLessThanWellFounded
<1>2. \A x, y \in Nat : x < y => <<x, y>> \in R
  BY DEF OpToRel
<1> HIDE DEF R
<1>3. PICK x \in T : \A y \in T : ~(<<y, x>> \in R)
  BY <1>1, WFMin, Zenon
<1>4. ASSUME NEW y \in T PROVE ~(y < x)
  BY <1>2, <1>3, Zenon
<1> QED BY <1>4

\* A set of numbers up to a bound has a largest one.
LEMMA Largest ==
    ASSUME NEW n \in Nat, NEW S \in SUBSET (1 .. n), S # {}
    PROVE  Max(S) \in S
<1> DEFINE T == {n - k : k \in S}
<1>1. T \subseteq Nat
  OBVIOUS
<1>2. T # {}
  OBVIOUS
<1>3. \A k \in S : n - k \in T
  OBVIOUS
<1> HIDE DEF T
<1>4. PICK x \in T : \A y \in T : x <= y
  BY <1>1, <1>2, Least
<1>5. PICK m \in S : x = n - m
  BY DEF T
<1>6. \A k \in S : m >= k
  BY <1>3, <1>4, <1>5
<1> QED BY <1>6 DEF Max

LEMMA BelowAppend ==
    ASSUME NEW dir \in Path, NEW name \in Names
    PROVE  /\ Append(dir, name) \in FilePath
           /\ Below(dir, Append(dir, name))
           /\ Front(Append(dir, name)) = dir
<1> DEFINE p == Append(dir, name)
<1>1. dir \in Seq(Names) /\ Len(dir) \in Nat /\ SubSeq(dir, 1, Len(dir)) = dir
  BY SubSeqFull, LenProperties DEF Path
<1>2. p \in Seq(Names) /\ p # <<>> /\ Len(p) = Len(dir) + 1
  BY <1>1, AppendProperties
<1>3. SubSeq(p, 1, Len(dir)) = dir
  BY <1>1
<1> HIDE DEF p
<1>4. p # dir /\ Len(dir) <= Len(p) /\ Len(p) - 1 = Len(dir)
  BY <1>1, <1>2
<1>5. Below(dir, p)
  BY <1>1, <1>3, <1>4 DEF Below, IsStrictPrefix, IsPrefix
<1>6. Front(p) = dir
  BY <1>3, <1>4 DEF Front
<1> QED BY <1>2, <1>5, <1>6 DEF p, Path, FilePath

LEMMA LastOfAppend ==
    ASSUME NEW dir \in Path, NEW name \in Names PROVE Last(Append(dir, name)) = name
<1>1. dir \in Seq(Names) /\ Len(dir) \in Nat
  BY LenProperties DEF Path
<1>2. Len(Append(dir, name)) = Len(dir) + 1 /\ Append(dir, name)[Len(dir) + 1] = name
  BY <1>1, AppendProperties
<1> QED BY <1>2 DEF Last

LEMMA BelowConcat ==
    ASSUME NEW dir \in Path, NEW r \in Path, r # <<>>
    PROVE  Below(dir, dir \o r) /\ dir \o r \in FilePath
<1> DEFINE p == dir \o r
<1>1. dir \in Seq(Names) /\ Len(dir) \in Nat /\ SubSeq(dir, 1, Len(dir)) = dir
  BY SubSeqFull, LenProperties DEF Path
<1>2. r \in Seq(Names) /\ Len(r) \in Nat /\ Len(r) >= 1
  BY EmptySeq DEF Path
<1>3. p \in Seq(Names) /\ Len(p) = Len(dir) + Len(r)
  BY <1>1, <1>2, ConcatProperties
<1>4. SubSeq(p, 1, Len(dir)) = dir
  BY <1>1, <1>2
<1> HIDE DEF p
<1>5. p # dir /\ p # <<>> /\ Len(dir) <= Len(p)
  BY <1>1, <1>2, <1>3
<1>6. Below(dir, p)
  BY <1>1, <1>4, <1>5 DEF Below, IsStrictPrefix, IsPrefix
<1> QED BY <1>3, <1>5, <1>6 DEF p, Path, FilePath

\* What is below a directory, put below another.
LEMMA Moved ==
    ASSUME NEW dir \in Path, NEW root \in Path, NEW q \in Path, Below(root, q)
    PROVE  /\ After(root, q) \in FilePath
           /\ dir \o After(root, q) \in FilePath
           /\ Below(dir, dir \o After(root, q))
<1>1. Len(root) <= Len(q) /\ Len(root) \in Nat /\ Len(q) \in Nat /\ Len(root) # Len(q)
  <2>1. Len(root) <= Len(q) /\ root # q /\ SubSeq(root, 1, Len(root)) = SubSeq(q, 1, Len(root))
    BY DEF Below, IsStrictPrefix, IsPrefix
  <2>2. SubSeq(root, 1, Len(root)) = root /\ SubSeq(q, 1, Len(q)) = q
    BY SubSeqFull DEF Path
  <2> QED BY <2>1, <2>2, LenProperties DEF Path
<1> DEFINE r == After(root, q)
<1>2. r \in Seq(Names) /\ Len(r) = Len(q) - Len(root)
  BY <1>1, LenProperties, SubSeqProperties DEF After, Path
<1>3. r # <<>> /\ Len(r) >= 1
  BY <1>1, <1>2
<1> HIDE DEF r
<1>4. Below(dir, dir \o r) /\ dir \o r \in FilePath
  BY <1>2, <1>3, BelowConcat DEF Path
<1> QED BY <1>2, <1>3, <1>4 DEF r, Path, FilePath

LEMMA BelowParts ==
    ASSUME NEW dir \in Path, NEW p \in Path, Below(dir, p)
    PROVE  /\ dir \in Seq(Names) /\ p \in Seq(Names)
           /\ Len(dir) \in Nat /\ Len(p) \in Nat /\ Len(dir) < Len(p) /\ Len(p) - Len(dir) \in Nat
           /\ dir = SubSeq(p, 1, Len(dir))
<1>1. /\ dir \in Seq(Names) /\ p \in Seq(Names) /\ Len(dir) \in Nat /\ Len(p) \in Nat
      /\ SubSeq(dir, 1, Len(dir)) = dir /\ SubSeq(p, 1, Len(p)) = p
  BY SubSeqFull, LenProperties DEF Path
<1>2. Len(dir) <= Len(p) /\ dir # p /\ dir = SubSeq(p, 1, Len(dir))
  BY <1>1 DEF Below, IsStrictPrefix, IsPrefix
<1>3. Len(dir) # Len(p)
  BY <1>1, <1>2
<1>4. \A a, b \in Nat : a <= b /\ a # b => a < b /\ b - a \in Nat
  OBVIOUS
<1> QED BY <1>1, <1>2, <1>3, <1>4, Zenon

LEMMA AfterAt ==
    ASSUME NEW dir \in Path, NEW p \in Path, Below(dir, p)
    PROVE  /\ After(dir, p) \in Seq(Names) /\ Len(After(dir, p)) = Len(p) - Len(dir)
           /\ \A i \in 1 .. Len(p) - Len(dir) : After(dir, p)[i] = p[Len(dir) + i]
<1> DEFINE r == After(dir, p)
           k == Len(dir)
           l == Len(p)
<1>1. p \in Seq(Names) /\ k \in Nat /\ l \in Nat /\ k < l
  BY BelowParts
<1>2. k + 1 \in Int /\ l \in Int /\ \A i \in k + 1 .. l : p[i] \in Names
  BY <1>1, ElementOfSeq
<1>3. r \in Seq(Names) /\ Len(r) = (IF k + 1 <= l THEN l - (k + 1) + 1 ELSE 0)
  BY <1>2, SubSeqProperties DEF After
<1>4. \A i \in 1 .. l - (k + 1) + 1 : r[i] = p[(k + 1) + i - 1]
  BY <1>2, SubSeqProperties DEF After
<1> HIDE DEF r, k, l
<1>5. Len(r) = l - k
  BY <1>1, <1>3
<1>6. ASSUME NEW i \in 1 .. l - k PROVE r[i] = p[k + i]
  <2>1. i \in 1 .. l - (k + 1) + 1 /\ (k + 1) + i - 1 = k + i
    BY <1>1
  <2> QED BY <1>4, <2>1
<1> QED BY <1>3, <1>5, <1>6 DEF r, k, l

LEMMA AfterConcat == ASSUME NEW dir \in Path, NEW r \in Path PROVE After(dir, dir \o r) = r
<1> DEFINE m == Len(dir)
           n == Len(r)
           t == dir \o r
           s == SubSeq(t, m + 1, m + n)
<1>1. dir \in Seq(Names) /\ r \in Seq(Names) /\ m \in Nat /\ n \in Nat
  BY LenProperties DEF Path
<1>2. t \in Seq(Names) /\ Len(t) = m + n
  BY <1>1, ConcatProperties
<1>3. ASSUME NEW i \in 1 .. n PROVE t[m + i] = r[i]
  <2>1. m + i \in 1 .. m + n /\ ~(m + i <= m) /\ (m + i) - m = i
    BY <1>1
  <2>2. t[m + i] = r[(m + i) - m]
    BY <1>1, <2>1, ConcatProperties
  <2> QED BY <2>1, <2>2
<1>4. m + 1 \in Int /\ m + n \in Int /\ \A i \in m + 1 .. m + n : t[i] \in Names
  BY <1>1, <1>2, ElementOfSeq
<1> HIDE DEF t, m, n
<1>5. s \in Seq(Names) /\ \A i \in 1 .. (m + n) - (m + 1) + 1 : s[i] = t[(m + 1) + i - 1]
  BY <1>4, SubSeqProperties
<1>6. Len(s) = IF m + 1 <= m + n THEN (m + n) - (m + 1) + 1 ELSE 0
  BY <1>4, SubSeqProperties
<1> HIDE DEF s
<1>7. Len(s) = n
  BY <1>1, <1>6
<1>8. ASSUME NEW i \in 1 .. n PROVE s[i] = r[i]
  <2>1. i \in 1 .. (m + n) - (m + 1) + 1 /\ (m + 1) + i - 1 = m + i
    BY <1>1
  <2> QED BY <1>3, <1>5, <2>1
<1>9. s = r
  BY <1>1, <1>5, <1>7, <1>8, SeqEqual DEF n
<1> QED BY <1>2, <1>9 DEF After, s, t, m, n

\* It keeps its name, and is found again.
LEMMA MovedBack ==
    ASSUME NEW dir \in Path, NEW root \in Path, NEW q \in Path, Below(root, q)
    PROVE  /\ Last(After(root, q)) = Last(q)
           /\ Last(dir \o After(root, q)) = Last(q)
           /\ root \o After(dir, dir \o After(root, q)) = q
<1> DEFINE r == After(root, q)
           k == Len(root)
           l == Len(q)
           m == Len(dir)
<1>1. /\ root \in Seq(Names) /\ q \in Seq(Names) /\ dir \in Seq(Names)
      /\ k \in Nat /\ l \in Nat /\ m \in Nat /\ k < l /\ l - k \in Nat
      /\ root = SubSeq(q, 1, k)
  BY BelowParts, LenProperties DEF Path
<1>2. r \in Seq(Names) /\ Len(r) = l - k /\ \A i \in 1 .. l - k : r[i] = q[k + i]
  BY AfterAt
<1>3. After(dir, dir \o r) = r
  BY <1>2, AfterConcat DEF Path
<1> HIDE DEF r, k, l, m
<1>4. l - k \in 1 .. l - k /\ k + (l - k) = l
  BY <1>1
<1>5. Last(r) = Last(q)
  BY <1>2, <1>4 DEF Last, l
<1>6. Last(dir \o r) = Last(r)
  <2>1. dir \o r \in Seq(Names) /\ Len(dir \o r) = m + (l - k)
    BY <1>1, <1>2, ConcatProperties DEF m
  <2>2. m + (l - k) \in 1 .. m + (l - k) /\ ~(m + (l - k) <= m) /\ (m + (l - k)) - m = l - k
    BY <1>1
  <2>3. (dir \o r)[m + (l - k)] = r[(m + (l - k)) - m]
    BY <1>1, <1>2, <2>2, ConcatProperties DEF m
  <2> QED BY <1>2, <2>1, <2>2, <2>3 DEF Last
<1>7. root \o r = q
  <2>1. root \o r \in Seq(Names) /\ Len(root \o r) = k + (l - k)
    BY <1>1, <1>2, ConcatProperties DEF k
  <2>2. ASSUME NEW i \in 1 .. l PROVE (root \o r)[i] = q[i]
    <3>1. CASE i <= k
      <4>1. i \in 1 .. k /\ i \in 1 .. k + (l - k)
        BY <1>1, <3>1
      <4>2. (root \o r)[i] = root[i]
        BY <1>1, <1>2, <3>1, <4>1, ConcatProperties DEF k
      <4>3. root[i] = q[i]
        <5>1. 1 \in Int /\ k \in Int /\ \A j \in 1 .. k : q[j] \in Names
          <6>1. \A j \in 1 .. l : q[j] \in Names
            BY <1>1, ElementOfSeq DEF l
          <6> QED BY <1>1, <6>1
        <5>2. i \in 1 .. k - 1 + 1 /\ 1 + i - 1 = i
          BY <1>1, <4>1
        <5>3. SubSeq(q, 1, k)[i] = q[1 + i - 1]
          BY <5>1, <5>2, SubSeqProperties
        <5> QED BY <1>1, <5>2, <5>3
      <4> QED BY <4>2, <4>3
    <3>2. CASE ~(i <= k)
      <4>1. i - k \in 1 .. l - k /\ i \in 1 .. k + (l - k) /\ k + (i - k) = i
        BY <1>1, <3>2
      <4>2. (root \o r)[i] = r[i - k]
        BY <1>1, <1>2, <3>2, <4>1, ConcatProperties DEF k
      <4> QED BY <1>2, <4>1, <4>2
    <3> QED BY <3>1, <3>2
  <2>3. Len(root \o r) = Len(q) /\ \A i \in 1 .. Len(root \o r) : (root \o r)[i] = q[i]
    BY <1>4, <2>1, <2>2 DEF l
  <2> QED BY <1>1, <2>1, <2>3, SeqEqual
<1> QED BY <1>3, <1>5, <1>6, <1>7 DEF r

\* Of two directories with the same file below them, one is in the other.
LEMMA Comparable ==
    ASSUME NEW a \in Path, NEW b \in Path, NEW p \in Path, Below(a, p), Below(b, p)
    PROVE  a = b \/ Below(a, b) \/ Below(b, a)
<1>1. \A x \in {a, b} : x \in Seq(Names) /\ Len(x) \in Nat /\ Len(x) < Len(p) /\ x = SubSeq(p, 1, Len(x))
  BY BelowParts
<1>2. p \in Seq(Names) /\ Len(p) \in Nat
  BY BelowParts
<1>3. ASSUME NEW x \in {a, b}, NEW y \in {a, b}, Len(x) <= Len(y) PROVE IsPrefix(x, y)
  <2>1. SubSeq(SubSeq(p, 1, Len(y)), 1, Len(x)) = SubSeq(p, 1, Len(x))
    BY <1>1, <1>2, <1>3
  <2>2. SubSeq(x, 1, Len(x)) = x
    BY <1>1, SubSeqFull
  <2>3. SubSeq(y, 1, Len(x)) = x
    BY <1>1, <2>1
  <2> QED BY <1>3, <2>2, <2>3 DEF IsPrefix
<1>4. Len(a) <= Len(b) \/ Len(b) <= Len(a)
  BY <1>1
<1> QED BY <1>3, <1>4 DEF Below, IsStrictPrefix

\* A file put into a directory is below that directory and those above alone.
LEMMA BelowInto ==
    ASSUME NEW dir \in Path, NEW dest \in Path, NEW name \in Names, Below(dir, Append(dest, name))
    PROVE  IsPrefix(dir, dest)
<1> DEFINE p == Append(dest, name)
<1>1. dest \in Seq(Names) /\ Len(dest) \in Nat /\ p \in Path /\ Len(p) = Len(dest) + 1
  BY BelowAppend, AppendProperties, LenProperties DEF Path, FilePath
<1>2. dir \in Seq(Names) /\ Len(dir) \in Nat /\ Len(dir) < Len(p) /\ dir = SubSeq(p, 1, Len(dir))
  BY <1>1, BelowParts
<1>3. Len(dir) <= Len(dest)
  BY <1>1, <1>2
<1>4. SubSeq(p, 1, Len(dir)) = SubSeq(dest, 1, Len(dir))
  BY <1>1, <1>2, <1>3
<1>5. SubSeq(dir, 1, Len(dir)) = dir
  BY <1>2, SubSeqFull
<1> QED BY <1>2, <1>3, <1>4, <1>5 DEF IsPrefix

LEMMA BelowInside ==
    ASSUME NEW dir \in Path, NEW name \in Names, NEW p \in Path, Below(Append(dir, name), p)
    PROVE  Below(dir, p)
<1> DEFINE in == Append(dir, name)
<1>1. dir \in Seq(Names) /\ p \in Seq(Names) /\ Len(dir) \in Nat /\ Len(p) \in Nat
  BY LenProperties DEF Path
<1>2. in \in Seq(Names) /\ Len(in) = Len(dir) + 1
  BY <1>1, AppendProperties
<1>3. SubSeq(in, 1, Len(dir)) = dir
  BY <1>1
<1>4. SubSeq(dir, 1, Len(dir)) = dir /\ SubSeq(in, 1, Len(in)) = in
  BY <1>1, <1>2, SubSeqFull
<1>5. Len(in) <= Len(p) /\ SubSeq(in, 1, Len(in)) = SubSeq(p, 1, Len(in))
  BY DEF Below, IsStrictPrefix, IsPrefix, in
<1> HIDE DEF in
<1>6. SubSeq(p, 1, Len(dir)) = dir
  BY <1>1, <1>2, <1>3, <1>4, <1>5
<1>7. dir # p
  BY <1>1, <1>2, <1>5
<1> QED BY <1>1, <1>2, <1>4, <1>5, <1>6, <1>7 DEF Below, IsStrictPrefix, IsPrefix

LEMMA FrontOf ==
    ASSUME NEW p \in FilePath
    PROVE  /\ Front(p) \in Path /\ Below(Front(p), p) /\ Last(p) \in Names
           /\ Len(p) \in Nat /\ Len(p) >= 1 /\ Front(p) = SubSeq(p, 1, Len(p) - 1)
<1>1. p \in Seq(Names) /\ Len(p) \in Nat /\ Len(p) >= 1
  BY EmptySeq, LenProperties DEF Path, FilePath
<1> DEFINE f == SubSeq(p, 1, Len(p) - 1)
<1>2. f \in Seq(Names) /\ Len(f) = Len(p) - 1
  <2>1. \A i \in 1 .. Len(p) - 1 : p[i] \in Names
    BY <1>1, ElementOfSeq
  <2>2. Len(p) - 1 \in Int /\ 1 \in Int
    BY <1>1
  <2>3. f \in Seq(Names)
    BY <2>1, <2>2, SubSeqProperties
  <2>4. Len(f) = IF 1 <= Len(p) - 1 THEN (Len(p) - 1) - 1 + 1 ELSE 0
    BY <2>1, <2>2, SubSeqProperties
  <2>5. \A k \in Nat : k >= 1 => (IF 1 <= k - 1 THEN (k - 1) - 1 + 1 ELSE 0) = k - 1
    OBVIOUS
  <2>6. Len(f) = Len(p) - 1
    BY <1>1, <2>4, <2>5, Zenon
  <2> QED BY <2>3, <2>6
<1>3. SubSeq(f, 1, Len(f)) = f
  BY <1>2, SubSeqFull
<1>4. Last(p) \in Names
  BY <1>1, ElementOfSeq DEF Last
<1>5. f = Front(p)
  BY DEF Front
<1>6. SubSeq(p, 1, Len(f)) = f /\ Len(f) <= Len(p) /\ f # p
  BY <1>1, <1>2
<1> HIDE DEF f
<1>7. Below(f, p)
  BY <1>3, <1>6 DEF Below, IsStrictPrefix, IsPrefix
<1> QED BY <1>1, <1>2, <1>4, <1>5, <1>7 DEF Path, f

LEMMA AppendFront == ASSUME NEW p \in FilePath PROVE p = Front(p) \o <<Last(p)>>
<1>1. /\ p \in Seq(Names) /\ Len(p) \in Nat /\ Len(p) >= 1 /\ Last(p) \in Names
      /\ Front(p) = SubSeq(p, 1, Len(p) - 1)
  BY FrontOf DEF Path, FilePath
<1> QED BY <1>1 DEF Last

\* The root of a project is a directory above the source.
LEMMA RootAbove ==
    ASSUME NEW d, NEW src \in FilePath
    PROVE  /\ \E n \in 0 .. Len(src) : RootOf(d, src) = SubSeq(src, 1, n) /\ (Len(src) >= 2 => n >= 1)
           /\ RootOf(d, src) \in Path
<1>1. src \in Seq(Names) /\ Len(src) \in Nat /\ Len(src) >= 1 /\ Front(src) = SubSeq(src, 1, Len(src) - 1)
  BY FrontOf DEF Path, FilePath
<1>2. SubSeq(src, 1, Len(src)) = src
  BY <1>1, SubSeqFull
<1> DEFINE Above(dir) == \E n \in 0 .. Len(src) : dir = SubSeq(src, 1, n) /\ (Len(src) >= 2 => n >= 1)
<1>3. Above(Front(src))
  <2>1. Len(src) - 1 \in 0 .. Len(src) /\ (Len(src) >= 2 => Len(src) - 1 >= 1)
    BY <1>1
  <2> QED BY <1>1, <2>1
<1> DEFINE dir  == Dirs(d, src)
           tops == {n \in 1 .. Len(dir) : IsFile(d, Append(SubSeq(dir, 1, n), Main))}
<1>4. ASSUME tops # {} PROVE Above(SubSeq(dir, 1, Max(tops)))
  <2>1. PICK k \in 0 .. Len(src) : dir = SubSeq(src, 1, k)
    BY <1>1, <1>2 DEF Dirs
  <2>2. Len(dir) = k
    BY <1>1, <2>1
  <2>3. tops \in SUBSET (1 .. k) /\ k \in Nat
    BY <1>1, <2>2
  <2> DEFINE m == Max(tops)
  <2>4. m \in 1 .. k
    <3> HIDE DEF tops
    <3> QED BY <1>4, <2>3, Largest
  <2> HIDE DEF m
  <2>5. SubSeq(SubSeq(src, 1, k), 1, m) = SubSeq(src, 1, m)
    BY <1>1, <2>3, <2>4
  <2>6. m \in 0 .. Len(src) /\ m >= 1
    BY <1>1, <2>1, <2>4
  <2> QED BY <2>1, <2>5, <2>6 DEF m
<1>5. FindProjectRoot(d, src) = <<>> \/ Above(FindProjectRoot(d, src))
  BY <1>4 DEF FindProjectRoot
<1> HIDE DEF Above
<1>6. Above(RootOf(d, src))
  BY <1>3, <1>5 DEF RootOf
<1>7. \A n \in 0 .. Len(src) : SubSeq(src, 1, n) \in Path
  BY <1>1, SubSeqProperties DEF Path
<1> QED BY <1>6, <1>7 DEF Above

LEMMA SiblingPath ==
    ASSUME NEW root \in Path PROVE Front(root) \in Path /\ SiblingDesign(root) \in Path
<1>1. Front(root) \in Path
  <2>1. CASE root = <<>>
    <3>1. Len(root) - 1 = -1
      BY <2>1, EmptySeq
    <3> QED BY <2>1, <3>1 DEF Front, Path
  <2> QED BY <2>1, FrontOf DEF FilePath
<1> QED BY <1>1, NamesAssumption, BelowAppend DEF SiblingDesign, FilePath

-----------------------------------------------------------------------------
(* Disks *)

LEMMA OnlyBelowTwice ==
    ASSUME NEW dir, NEW d, NEW e, NEW f, OnlyBelow(dir, d, e), OnlyBelow(dir, e, f)
    PROVE  OnlyBelow(dir, d, f)
  BY DEF OnlyBelow

LEMMA OnlyBelowNone == ASSUME NEW dir, NEW d PROVE OnlyBelow(dir, d, d)
  BY DEF OnlyBelow

LEMMA OnlyBelowDisk == ASSUME NEW dir, NEW d, NEW e, OnlyBelow(dir, d, e), IsDisk(d) PROVE IsDisk(e)
  BY DEF OnlyBelow, IsDisk

LEMMA OverBelow ==
    ASSUME NEW dir, NEW d, NEW files, \A p \in DOMAIN files : Below(dir, p) /\ p \in FilePath
    PROVE  OnlyBelow(dir, d, Over(files, d))
  BY DEF OnlyBelow, Over, Has

LEMMA PutBelow ==
    ASSUME NEW dir, NEW d, NEW p \in FilePath, NEW data, Below(dir, p)
    PROVE  OnlyBelow(dir, d, Put(d, p, data))
  BY DEF OnlyBelow, Put

LEMMA PutIn ==
    ASSUME NEW dir \in Path, NEW d, NEW name \in Names, NEW data
    PROVE  OnlyBelow(dir, d, Put(d, Append(dir, name), data))
  BY BelowAppend, PutBelow

LEMMA WithoutBelow ==
    ASSUME NEW dir, NEW d, NEW gone, gone \cap DOMAIN d \subseteq Under(d, dir)
    PROVE  OnlyBelow(dir, d, Without(d, gone))
  BY DEF OnlyBelow, Without, Under

-----------------------------------------------------------------------------
(* The steps of a packing write and remove below their directory *)

LEMMA IconBelow ==
    ASSUME NEW dir \in Path, NEW d, NEW src
    PROVE  OnlyBelow(dir, d, copyProjectIcon(d, src, dir))
<1> DEFINE from == resolvePackIcon(d, src).from[1]
           one  == copyFile(d, from, Append(dir, "app.ico"))
<1> HIDE DEF from, one
<1>1. ASSUME NEW e, NEW name \in Names PROVE OnlyBelow(dir, e, copyFile(e, from, Append(dir, name)))
  BY PutIn DEF copyFile
<1>2. OnlyBelow(dir, d, one) /\ OnlyBelow(dir, one, copyFile(one, from, Append(dir, "yod.ico")))
  BY <1>1, NamesAssumption DEF one
<1>3. OnlyBelow(dir, d, copyFile(one, from, Append(dir, "yod.ico")))
  BY <1>2, OnlyBelowTwice
<1> QED BY <1>3, OnlyBelowNone DEF copyProjectIcon, one, from

LEMMA DataBelow ==
    ASSUME NEW dir, NEW d PROVE OnlyBelow(dir, d, RemoveRuntimeData(d, dir))
  BY WithoutBelow DEF RemoveRuntimeData

LEMMA SourcesBelow ==
    ASSUME NEW dir, NEW d, NEW stuck PROVE OnlyBelow(dir, d, removePackagedSources(d, dir, stuck))
  BY WithoutBelow DEF removePackagedSources, InDirs, Loose

LEMMA BinaryBelow ==
    ASSUME NEW dir \in Path, NEW d, NEW src, NEW stuck
    PROVE  OnlyBelow(dir, d, PrepareBinaryDist(d, src, dir, stuck))
<1> DEFINE e    == removePackagedSources(RemoveRuntimeData(d, dir), dir, stuck)
           tidy == copyProjectIcon(e, src, dir)
<1>1. OnlyBelow(dir, d, e)
  BY DataBelow, SourcesBelow, OnlyBelowTwice
<1>2. OnlyBelow(dir, d, tidy)
  BY <1>1, IconBelow, OnlyBelowTwice
<1>3. \A root : OnlyBelow(dir, d, copyProjectIcon(tidy, root, dir))
  BY <1>2, IconBelow, OnlyBelowTwice
<1> QED BY <1>2, <1>3 DEF PrepareBinaryDist

LEMMA StartedBelow ==
    ASSUME NEW dir \in Path, NEW d, NEW src \in FilePath
    PROVE  OnlyBelow(dir, d, Started(d, src, dir))
<1>1. Last(src) \in Names
  BY FrontOf
<1> DEFINE prog == Append(dir, Last(src))
           d1 == Put(d, prog, Packed(prog, d[src]))
           d2 == Put(d1, Append(dir, "yod.exe"), Engine)
           d3 == Put(d2, Append(dir, "run.bat"), Starter(prog, <<>>))
           d4 == Put(d3, Append(dir, "manifest"), Asset("manifest"))
<1>2. Started(d, src, dir) = d4
  BY DEF Started
<1> HIDE DEF prog, d1, d2, d3, d4
<1>3. OnlyBelow(dir, d, d1) /\ OnlyBelow(dir, d1, d2) /\ OnlyBelow(dir, d2, d3) /\ OnlyBelow(dir, d3, d4)
  <2>1. ASSUME NEW e, NEW name \in Names, NEW data PROVE OnlyBelow(dir, e, Put(e, Append(dir, name), data))
    BY PutIn
  <2>2. OnlyBelow(dir, d, d1)
    BY <1>1, <2>1 DEF d1, prog
  <2>3. OnlyBelow(dir, d1, d2)
    BY <2>1, NamesAssumption DEF d2
  <2>4. OnlyBelow(dir, d2, d3)
    BY <2>1, NamesAssumption DEF d3
  <2>5. OnlyBelow(dir, d3, d4)
    BY <2>1, NamesAssumption DEF d4
  <2> QED BY <2>2, <2>3, <2>4, <2>5
<1>4. OnlyBelow(dir, d, d4)
  BY <1>3, OnlyBelowTwice
<1> QED BY <1>2, <1>4

\* The sources, the assets and the design directory go below the distribution.
LEMMA CleanBelow ==
    ASSUME NEW dir \in Path, NEW d, IsDisk(d), NEW src \in FilePath
    PROVE  OnlyBelow(dir, d, PrepareCleanProjectDist(d, src, dir))
<1> DEFINE root    == RootOf(d, src)
           sibling == SiblingDesign(root)
           inside  == Append(dir, Design)
           files   == [p \in {dir \o After(root, q) : q \in ProjectFiles(d, root)} |->
                         Packed(p, d[root \o After(dir, p)])]
           copied  == Over(files, RemoveRuntimeData(d, dir))
           bare    == Without(copied, Under(copied, inside))
           design  == [p \in {inside \o After(sibling, q) : q \in SharedFiles(d, root)} |->
                         d[sibling \o After(inside, p)]]
           renewed == IF IsFolder(d, sibling) THEN Over(design, bare) ELSE copied
<1>1. root \in Path /\ inside \in Path /\ Design \in Names
  <2>1. Design \in Names
    BY NamesAssumption
  <2>2. inside \in Path
    BY <2>1, BelowAppend DEF FilePath
  <2> QED BY <2>1, <2>2, RootAbove
<1>2. sibling \in Path
  BY <1>1, SiblingPath
<1>3. \A p \in DOMAIN files : Below(dir, p) /\ p \in FilePath
  <2>1. ASSUME NEW q \in ProjectFiles(d, root) PROVE q \in Path /\ Below(root, q)
    BY DEF ProjectFiles, Walked, IsDisk, FilePath
  <2> QED BY <1>1, <2>1, Moved
<1>4. OnlyBelow(dir, d, copied)
  <2> HIDE DEF files
  <2> QED BY <1>3, DataBelow, OverBelow, OnlyBelowTwice
<1>5. IsDisk(copied)
  BY <1>4, OnlyBelowDisk
<1> HIDE DEF copied
<1>6. OnlyBelow(dir, copied, bare)
  <2>1. ASSUME NEW p \in Under(copied, inside) PROVE p \in Under(copied, dir)
    BY <1>1, <1>5, <2>1, BelowInside DEF Under, IsDisk, FilePath
  <2> QED BY <2>1, WithoutBelow
<1>7. \A p \in DOMAIN design : Below(dir, p) /\ p \in FilePath
  <2>1. ASSUME NEW q \in SharedFiles(d, root) PROVE q \in Path /\ Below(sibling, q)
    BY DEF SharedFiles, Walked, IsDisk, FilePath
  <2>2. ASSUME NEW q \in SharedFiles(d, root)
        PROVE  Below(inside, inside \o After(sibling, q)) /\ inside \o After(sibling, q) \in FilePath
    <3> HIDE DEF inside, sibling
    <3> QED BY <1>1, <1>2, <2>1, Moved
  <2>3. ASSUME NEW q \in SharedFiles(d, root) PROVE Below(dir, inside \o After(sibling, q))
    BY <1>1, <2>2, BelowInside DEF FilePath
  <2> QED BY <2>2, <2>3
<1>8. OnlyBelow(dir, bare, Over(design, bare))
  <2> HIDE DEF design, bare
  <2> QED BY <1>7, OverBelow
<1>9. OnlyBelow(dir, d, renewed)
  BY <1>4, <1>6, <1>8, OnlyBelowTwice
<1>10. OnlyBelow(dir, d, RemoveRuntimeData(renewed, dir))
  <2> HIDE DEF renewed
  <2> QED BY <1>9, DataBelow, OnlyBelowTwice
<1> QED BY <1>10 DEF PrepareCleanProjectDist, copied

-----------------------------------------------------------------------------
(* What an order may aim at *)

\* A source the user means by an order.
Means(o, src) == src \in {o[1], Append(o[1], Main)} /\ IsYodSource(src)

LEMMA SourceOf ==
    ASSUME NEW o \in Orders, NEW src, Means(o, src)
    PROVE  src \in FilePath /\ Len(src) >= 2 /\ ToSet(src) \subseteq DOMAIN ExeOf
<1>1. o[1] \in Seq(Names) /\ Len(o[1]) \in Nat /\ Len(o[1]) >= 2 /\ Main \in Names
  BY PackingAssumption, NamesAssumption, LenProperties DEF Path
<1>2. ToSet(o[1]) \subseteq DOMAIN ExeOf /\ Main \in DOMAIN ExeOf
  BY NamesAssumption
<1>3. CASE src = o[1]
  BY <1>1, <1>2, <1>3, EmptySeq DEF FilePath, Path
<1>4. CASE src = Append(o[1], Main)
  <2>1. src \in Seq(Names) /\ Len(src) = Len(o[1]) + 1 /\ src # <<>>
        /\ (\A i \in 1 .. Len(o[1]) : src[i] = o[1][i]) /\ src[Len(o[1]) + 1] = Main
    BY <1>1, <1>4, AppendProperties
  <2>2. ASSUME NEW i \in 1 .. Len(src) PROVE src[i] \in DOMAIN ExeOf
    <3>1. CASE i \in 1 .. Len(o[1])
      BY <1>2, <2>1, <3>1 DEF ToSet
    <3>2. CASE i = Len(o[1]) + 1
      BY <1>2, <2>1, <3>2
    <3> QED BY <1>1, <2>1, <3>1, <3>2
  <2>3. ToSet(src) \subseteq DOMAIN ExeOf
    BY <2>2 DEF ToSet
  <2> QED BY <1>1, <2>1, <2>3 DEF FilePath, Path
<1> QED BY <1>3, <1>4 DEF Means

LEMMA PlacesArePaths == AllPlaces \subseteq Path
<1>1. ASSUME NEW o \in Orders, NEW dir \in Places(o) PROVE dir \in Path
  <2> DEFINE dists(src) == {Append(SubSeq(src, 1, n), Dist) : n \in 0 .. Len(src)}
  <2>1. ASSUME NEW src \in Path PROVE dists(src) \subseteq Path
    <3>1. ASSUME NEW n \in 0 .. Len(src) PROVE SubSeq(src, 1, n) \in Path
      BY LenProperties, SubSeqProperties, ElementOfSeq DEF Path
    <3>2. ASSUME NEW n \in 0 .. Len(src) PROVE Append(SubSeq(src, 1, n), Dist) \in Path
      BY <3>1, NamesAssumption, BelowAppend DEF FilePath
    <3> QED BY <3>2
  <2>2. o[1] \in Path /\ o[2] \in Path /\ Append(o[1], Main) \in Path
    BY PackingAssumption, NamesAssumption, BelowAppend DEF FilePath
  <2>3. CASE o[2] = <<>>
    <3>1. dir \in dists(o[1]) \cup dists(Append(o[1], Main))
      BY <2>3 DEF Places
    <3> HIDE DEF dists
    <3> QED BY <2>1, <2>2, <3>1
  <2>4. CASE o[2] # <<>>
    BY <2>2, <2>4, FrontOf DEF Places, FilePath
  <2> QED BY <2>3, <2>4
<1> QED BY <1>1, PackingAssumption DEF AllPlaces, OrderPlaces

\* The places of the orders are paths.
LEMMA OrderPlace == ASSUME NEW dir \in OrderPlaces PROVE dir \in AllPlaces /\ dir \in Path
  BY PlacesArePaths DEF AllPlaces

\* Where a distribution goes, and its executable.
LEMMA DistIsPlace ==
    ASSUME NEW d, NEW o \in Orders, o[2] = <<>>, NEW src, Means(o, src)
    PROVE  DefaultDistDir(d, src) \in OrderPlaces
<1>1. PICK n \in 0 .. Len(src) : RootOf(d, src) = SubSeq(src, 1, n)
  BY SourceOf, RootAbove
<1>2. DefaultDistDir(d, src) = Append(SubSeq(src, 1, n), Dist)
  BY <1>1 DEF DefaultDistDir
<1>3. src \in {o[1], Append(o[1], Main)}
  BY DEF Means
<1>4. DefaultDistDir(d, src) \in Places(o)
  BY <1>2, <1>3 DEF Places
<1> QED BY <1>4 DEF OrderPlaces

LEMMA AppNameIsName ==
    ASSUME NEW d, NEW o \in Orders, NEW src, Means(o, src)
    PROVE  ExeOf[DefaultAppName(d, src)] \in Names /\ ExeOf[DefaultAppName(d, src)] \in Range(ExeOf)
<1>1. src \in Seq(Names) /\ Len(src) \in Nat /\ Len(src) >= 2 /\ src \in FilePath
      /\ \A i \in 1 .. Len(src) : src[i] \in DOMAIN ExeOf
  BY SourceOf, FrontOf DEF ToSet, FilePath, Path
<1>2. Last(RootOf(d, src)) \in DOMAIN ExeOf
  <2>1. PICK n \in 0 .. Len(src) : RootOf(d, src) = SubSeq(src, 1, n) /\ n >= 1
    BY <1>1, RootAbove
  <2> DEFINE r == SubSeq(src, 1, n)
  <2>2. Len(r) = n /\ r[n] = src[n]
    BY <1>1, <2>1
  <2> QED BY <1>1, <2>1, <2>2 DEF Last
<1>3. IsYodSource(src) => Stem[Last(src)] \in DOMAIN ExeOf
  BY NamesAssumption DEF IsYodSource, Range
<1>4. DefaultAppName(d, src) \in DOMAIN ExeOf
  BY <1>2, <1>3 DEF Means, DefaultAppName
<1> QED BY <1>4, NamesAssumption DEF Range

\* A file directly in a place.
InPlace(path) == path \in FilePath /\ Front(path) \in OrderPlaces

LEMMA ExeInPlace ==
    ASSUME NEW o \in Orders, NEW src, Means(o, src)
    PROVE  InPlace(ExePath(src, o[2]))
<1> DEFINE name == ExeOf[DefaultAppName(disk, src)]
           out  == o[2]
<1>1. name \in Names /\ out \in Path
  BY AppNameIsName, PackingAssumption
<1>2. ASSUME NEW dir \in OrderPlaces PROVE InPlace(Append(dir, name))
  BY <1>1, OrderPlace, BelowAppend DEF InPlace
<1>3. CASE out = <<>>
  BY <1>2, <1>3, DistIsPlace DEF ExePath, DefaultEXEPath
<1>4. CASE out # <<>>
  <2>1. out \in OrderPlaces
    BY <1>4 DEF Places, OrderPlaces
  <2>2. ASSUME Last(out) \in Range(ExeOf) PROVE InPlace(out)
    <3>1. Front(out) \in Places(o)
      BY <1>4, <2>2 DEF Places
    <3> QED BY <1>1, <1>4, <3>1 DEF OrderPlaces, InPlace, FilePath
  <2> QED BY <1>2, <1>4, <2>1, <2>2 DEF ExePath
<1> QED BY <1>3, <1>4

LEMMA OldIsPlace ==
    ASSUME NEW d, NEW o \in Orders, NEW src, Means(o, src), NEW folder \in BOOLEAN
    PROVE  OldDist(d, src, o[2], folder) \in OrderPlaces \cup {<<>>}
<1> DEFINE out == o[2]
<1>1. CASE out = <<>>
  BY <1>1, DistIsPlace DEF OldDist
<1>2. CASE out # <<>>
  <2>1. out \in OrderPlaces
    BY <1>2 DEF Places, OrderPlaces
  <2>2. ASSUME Last(Front(out)) = Dist PROVE Front(out) \in OrderPlaces
    <3>1. Front(out) \in Places(o)
      BY <1>2, <2>2 DEF Places
    <3> QED BY <3>1 DEF OrderPlaces
  <2>3. CASE folder \/ Last(out) = Dist
    BY <1>2, <2>1, <2>3 DEF OldDist
  <2>4. CASE ~folder /\ Last(out) # Dist /\ Last(Front(out)) = Dist
    BY <1>2, <2>2, <2>4 DEF OldDist
  <2>5. CASE ~folder /\ Last(out) # Dist /\ Last(Front(out)) # Dist
    BY <1>2, <2>5 DEF OldDist
  <2> QED BY <2>3, <2>4, <2>5
<1> QED BY <1>1, <1>2

-----------------------------------------------------------------------------
(* The inductive invariant *)

Steps == {"idle", "engine", "icon", "bundle", "beside", "tidy", "app", "sources"}

PackingTypeOK ==
    /\ IsDisk(disk)
    /\ cmd \in [at : Steps, src : Path, out : Path]

\* The user's own files lie apart from where packings write.
MineApart == \A p \in DOMAIN mine, dir \in AllPlaces : ~Below(dir, p)

\* A packing under way has an order, and from then on writes into a place.
Aimed ==
    /\ cmd.at = "engine" => \E o \in Orders : Means(o, cmd.src) /\ cmd.out = o[2]
    /\ cmd.at \in {"icon", "bundle", "beside", "tidy"} => InPlace(cmd.out)
    /\ cmd.at \in {"app", "sources"} => cmd.out \in OrderPlaces /\ cmd.src \in FilePath

PackingInv == PackingTypeOK /\ SourcesKept /\ MineApart /\ Aimed

\* A step that writes and removes below a place alone.
LEMMA KeptBelow ==
    ASSUME PackingInv, NEW dir \in AllPlaces, OnlyBelow(dir, disk, disk'), UNCHANGED mine
    PROVE  SourcesKept' /\ MineApart' /\ IsDisk(disk')
<1>1. IsDisk(disk')
  BY OnlyBelowDisk DEF PackingInv, PackingTypeOK
<1>2. ASSUME NEW p \in DOMAIN mine PROVE Has(disk', p) /\ disk'[p] = mine[p]
  BY DEF PackingInv, SourcesKept, MineApart, OnlyBelow, Has
<1> QED BY <1>1, <1>2 DEF PackingInv, SourcesKept, MineApart

LEMMA KeptSame ==
    ASSUME PackingInv, UNCHANGED <<disk, mine>>
    PROVE  SourcesKept' /\ MineApart' /\ IsDisk(disk')
  BY DEF PackingInv, PackingTypeOK, SourcesKept, MineApart

\* The packing ends, or was over.
LEMMA EndsAimed ==
    ASSUME cmd' = Idle PROVE cmd' \in [at : Steps, src : Path, out : Path] /\ Aimed'
<1>1. <<>> \in Path
  BY EmptySeq DEF Path
<1> QED BY <1>1 DEF Idle, Steps, Aimed

LEMMA IdleAimed ==
    ASSUME PackingInv, UNCHANGED cmd
    PROVE  cmd' \in [at : Steps, src : Path, out : Path] /\ Aimed'
  BY DEF PackingInv, PackingTypeOK, Aimed

\* It goes on where it is.
LEMMA GoesOnAimed ==
    ASSUME PackingInv, NEW step \in {"bundle", "beside", "tidy"}, InPlace(cmd.out), GoesOn(step)
    PROVE  cmd' \in [at : Steps, src : Path, out : Path] /\ Aimed'
<1>1. cmd' = [cmd EXCEPT !.at = step] /\ cmd \in [at : Steps, src : Path, out : Path]
  BY DEF GoesOn, PackingInv, PackingTypeOK
<1>2. cmd'.at = step /\ cmd'.out = cmd.out /\ cmd' \in [at : Steps, src : Path, out : Path]
  BY <1>1 DEF Steps
<1> QED BY <1>2 DEF Aimed, InPlace

LEMMA InvInit == ASSUME PlacesApart, Init PROVE PackingInv
<1>1. IsDisk(disk)
  BY PackingAssumption DEF Init, IsDisk
<1>2. SourcesKept /\ MineApart
  BY DEF Init, SourcesKept, MineApart, PlacesApart, Without, Has
<1>3. cmd \in [at : Steps, src : Path, out : Path] /\ Aimed
  <2>1. <<>> \in Path
    BY EmptySeq DEF Path
  <2> QED BY <2>1 DEF Init, Idle, Steps, Aimed
<1> QED BY <1>1, <1>2, <1>3 DEF PackingInv, PackingTypeOK

-----------------------------------------------------------------------------
(* The steps of a packing *)

LEMMA PackAppStep ==
    ASSUME PackingInv, NEW o \in Orders, NEW folder \in BOOLEAN, packApp(o[1], o[2], folder)
    PROVE  PackingInv'
<1> DEFINE src  == ResolveEntry(disk, o[1])[1]
           dist == OldDist(disk, src, o[2], folder)
           next == [at |-> IF folder THEN "app" ELSE "engine", src |-> src,
                    out |-> IF folder THEN FolderPath(src, o[2]) ELSE o[2]]
<1>1. /\ ResolveEntry(disk, o[1]) # <<>> /\ IsYodSource(src)
      /\ clearOldPackDist(src, o[2], folder, next)
      /\ UNCHANGED mine
  BY DEF packApp
<1>2. Means(o, src)
  BY <1>1 DEF ResolveEntry, Means
<1>3. src \in FilePath /\ o[2] \in Path
  BY <1>2, SourceOf, PackingAssumption
<1>4. dist \in OrderPlaces \cup {<<>>}
  BY <1>2, OldIsPlace
<1> DEFINE old == IF dist = <<>> THEN {} ELSE Under(disk, dist) \ {running}
<1>5. PICK gone \in SUBSET old : disk' = Without(disk, gone) /\ cmd' \in {Idle, next}
  <2>1. CASE disk' = Without(disk, old) /\ cmd' = next
    <3> HIDE DEF old
    <3> QED BY <2>1
  <2>2. CASE cmd' = Idle /\ \E part : disk' = Without(disk, part \cap old)
    <3> HIDE DEF old
    <3>1. \A part : part \cap old \in SUBSET old
      OBVIOUS
    <3> QED BY <2>2, <3>1
  <2> QED BY <1>1, <2>1, <2>2 DEF clearOldPackDist
<1> HIDE DEF src, dist
<1>6. SourcesKept' /\ MineApart' /\ IsDisk(disk')
  <2>1. CASE dist = <<>>
    <3>1. \A d \in AllPlaces : OnlyBelow(d, disk, disk')
      BY <1>5, <2>1, WithoutBelow
    <3>2. Elsewhere \in AllPlaces
      BY DEF AllPlaces
    <3> QED BY <1>1, <3>1, <3>2, KeptBelow
  <2>2. CASE dist # <<>>
    <3>1. OnlyBelow(dist, disk, disk')
      BY <1>5, <2>2, WithoutBelow
    <3> QED BY <1>1, <1>4, <2>2, <3>1, OrderPlace, KeptBelow
  <2> QED BY <2>1, <2>2
<1>7. CASE cmd' = Idle
  BY <1>6, <1>7, EndsAimed DEF PackingInv, PackingTypeOK
<1>8. CASE cmd' = next
  <2>1. FolderPath(src, o[2]) \in OrderPlaces
    <3>1. CASE o[2] = <<>>
      BY <1>2, <3>1, DistIsPlace DEF FolderPath
    <3>2. CASE o[2] # <<>>
      BY <3>2 DEF FolderPath, Places, OrderPlaces
    <3> QED BY <3>1, <3>2
  <2>2. FolderPath(src, o[2]) \in Path
    BY <2>1, OrderPlace
  <2>3. CASE folder
    <3>1. cmd' = [at |-> "app", src |-> src, out |-> FolderPath(src, o[2])]
      BY <1>8, <2>3
    <3> QED BY <1>3, <1>6, <2>1, <2>2, <3>1 DEF PackingInv, PackingTypeOK, Aimed, Steps, FilePath
  <2>4. CASE ~folder
    <3>1. cmd' = [at |-> "engine", src |-> src, out |-> o[2]]
      BY <1>8, <2>4
    <3>2. cmd' \in [at : Steps, src : Path, out : Path]
      BY <1>3, <3>1 DEF Steps, FilePath
    <3>3. Aimed'
      BY <1>2, <3>1 DEF Aimed
    <3> QED BY <1>6, <3>2, <3>3 DEF PackingInv, PackingTypeOK
  <2> QED BY <2>3, <2>4
<1> QED BY <1>5, <1>7, <1>8

LEMMA InPlaceBelow ==
    ASSUME NEW p, InPlace(p)
    PROVE  /\ Front(p) \in OrderPlaces /\ Front(p) \in AllPlaces /\ Front(p) \in Path
           /\ p \in FilePath /\ p \in Path /\ Below(Front(p), p)
  BY FrontOf, OrderPlace DEF InPlace, FilePath

LEMMA WithdrawStep ==
    ASSUME PackingInv, InPlace(cmd.out), Withdraw, UNCHANGED mine
    PROVE  PackingInv'
<1>1. OnlyBelow(Front(cmd.out), disk, disk')
  BY InPlaceBelow, WithoutBelow, OnlyBelowNone DEF Withdraw, Under
<1>2. SourcesKept' /\ MineApart' /\ IsDisk(disk')
  BY <1>1, InPlaceBelow, KeptBelow
<1> QED BY <1>2, EndsAimed DEF Withdraw, Ends, PackingInv, PackingTypeOK

LEMMA EndsStep ==
    ASSUME PackingInv, cmd' = Idle, UNCHANGED <<disk, mine>>
    PROVE  PackingInv'
  BY KeptSame, EndsAimed DEF PackingInv, PackingTypeOK

LEMMA WriteEngineStep == ASSUME PackingInv, WriteEngine PROVE PackingInv'
<1> DEFINE to == ExePath(cmd.src, cmd.out)
<1>1. UNCHANGED mine /\ cmd \in [at : Steps, src : Path, out : Path]
  BY DEF WriteEngine, PackingInv, PackingTypeOK
<1>2. InPlace(to)
  BY ExeInPlace DEF WriteEngine, PackingInv, Aimed
<1>3. ASSUME disk' = Put(disk, to, Engine) PROVE SourcesKept' /\ MineApart' /\ IsDisk(disk')
  <2>1. OnlyBelow(Front(to), disk, disk')
    BY <1>2, <1>3, InPlaceBelow, PutBelow
  <2> QED BY <1>1, <1>2, <2>1, InPlaceBelow, KeptBelow
<1>4. CASE disk' = Put(disk, to, Engine) /\ cmd' = [cmd EXCEPT !.at = "icon", !.out = to]
  <2>1. cmd'.at = "icon" /\ cmd'.out = to
    BY <1>1, <1>4
  <2>2. cmd' \in [at : Steps, src : Path, out : Path]
    BY <1>1, <1>2, <1>4, InPlaceBelow DEF Steps
  <2> QED BY <1>2, <1>3, <1>4, <2>1, <2>2 DEF PackingInv, PackingTypeOK, Aimed, InPlace
<1>5. CASE disk' = Put(disk, to, Engine) /\ cmd' = Idle
  BY <1>3, <1>5, EndsAimed DEF PackingInv, PackingTypeOK
<1>6. CASE cmd' = Idle /\ disk' = disk
  BY <1>1, <1>6, EndsStep
<1> QED BY <1>4, <1>5, <1>6 DEF WriteEngine, Ends

LEMMA ApplyIconStep == ASSUME PackingInv, ApplyIcon PROVE PackingInv'
<1>1. InPlace(cmd.out) /\ UNCHANGED mine
  BY DEF ApplyIcon, PackingInv, Aimed
<1>2. CASE GoesOn("bundle") /\ UNCHANGED disk
  BY <1>1, <1>2, GoesOnAimed, KeptSame DEF PackingInv, PackingTypeOK
<1>3. CASE Withdraw
  BY <1>1, <1>3, WithdrawStep
<1> QED BY <1>2, <1>3 DEF ApplyIcon

LEMMA WriteBundleStep == ASSUME PackingInv, WriteBundle PROVE PackingInv'
<1>1. InPlace(cmd.out) /\ UNCHANGED mine
  BY DEF WriteBundle, PackingInv, Aimed
<1>2. CASE Ends /\ UNCHANGED disk
  BY <1>1, <1>2, EndsStep DEF Ends
<1>3. CASE GoesOn("beside") /\ \E data : disk' = Put(disk, cmd.out, data)
  <2>1. OnlyBelow(Front(cmd.out), disk, disk')
    BY <1>1, <1>3, InPlaceBelow, PutBelow
  <2>2. SourcesKept' /\ MineApart' /\ IsDisk(disk')
    BY <1>1, <2>1, InPlaceBelow, KeptBelow
  <2> QED BY <1>1, <1>3, <2>2, GoesOnAimed DEF PackingInv, PackingTypeOK
<1>4. CASE Withdraw
  BY <1>1, <1>4, WithdrawStep
<1> QED BY <1>2, <1>3, <1>4 DEF WriteBundle

LEMMA WriteBesideStep == ASSUME PackingInv, WriteBeside PROVE PackingInv'
<1> DEFINE dir  == Front(cmd.out)
           with == Put(disk, Append(dir, "manifest"), Asset("manifest"))
<1>1. InPlace(cmd.out) /\ UNCHANGED mine /\ GoesOn("tidy") /\ disk' = copyProjectIcon(with, cmd.src, dir)
  BY DEF WriteBeside, PackingInv, Aimed, historyVars
<1>2. dir \in AllPlaces /\ dir \in Path
  BY <1>1, InPlaceBelow
<1> HIDE DEF dir
<1>3. OnlyBelow(dir, disk, with)
  BY <1>2, NamesAssumption, PutIn
<1>4. OnlyBelow(dir, disk, disk')
  BY <1>1, <1>2, <1>3, IconBelow, OnlyBelowTwice
<1>5. SourcesKept' /\ MineApart' /\ IsDisk(disk')
  BY <1>1, <1>2, <1>4, KeptBelow
<1> QED BY <1>1, <1>5, GoesOnAimed DEF PackingInv, PackingTypeOK

LEMMA TidyDistStep == ASSUME PackingInv, TidyDist PROVE PackingInv'
<1> DEFINE dir == Front(cmd.out)
           all == InDirs(disk, dir) \cup Loose(disk, dir)
<1>1. InPlace(cmd.out) /\ UNCHANGED mine /\ cmd' = Idle
  BY DEF TidyDist, PackingInv, Aimed, Ends
<1>2. ASSUME OnlyBelow(dir, disk, disk') PROVE PackingInv'
  <2>1. SourcesKept' /\ MineApart' /\ IsDisk(disk')
    BY <1>1, <1>2, InPlaceBelow, KeptBelow
  <2> QED BY <1>1, <2>1, EndsAimed DEF PackingInv, PackingTypeOK
<1>3. CASE \E stuck : disk' = PrepareBinaryDist(disk, cmd.src, dir, stuck)
  BY <1>1, <1>2, <1>3, InPlaceBelow, BinaryBelow
<1>4. CASE \E part : disk' = Without(disk, part \cap all)
  <2>1. all \subseteq Under(disk, dir)
    BY DEF InDirs, Loose
  <2> QED BY <1>2, <1>4, <2>1, WithoutBelow
<1>5. CASE UNCHANGED disk
  BY <1>1, <1>5, EndsStep
<1> QED BY <1>3, <1>4, <1>5 DEF TidyDist

LEMMA AppStep == ASSUME PackingInv, App PROVE PackingInv'
<1> DEFINE dir     == cmd.out
           started == Started(disk, cmd.src, dir)
           marked  == copyProjectIcon(started, cmd.src, dir)
<1>1. cmd.out \in OrderPlaces /\ cmd.src \in FilePath /\ UNCHANGED mine
  BY DEF App, PackingInv, Aimed, historyVars
<1>2. cmd.out \in Path /\ cmd \in [at : Steps, src : Path, out : Path]
  BY <1>1, OrderPlace DEF PackingInv, PackingTypeOK
<1>3. CASE disk' = Put(marked, Append(dir, "readme"), Asset("readme")) /\ GoesOn("sources")
  <2>1. OnlyBelow(dir, disk, started)
    BY <1>1, <1>2, StartedBelow
  <2>2. OnlyBelow(dir, disk, marked)
    BY <1>2, <2>1, IconBelow, OnlyBelowTwice
  <2> HIDE DEF marked
  <2>3. OnlyBelow(dir, marked, Put(marked, Append(dir, "readme"), Asset("readme")))
    BY <1>2, NamesAssumption, PutIn
  <2>4. OnlyBelow(dir, disk, disk')
    BY <1>3, <2>2, <2>3, OnlyBelowTwice
  <2>5. SourcesKept' /\ MineApart' /\ IsDisk(disk')
    BY <1>1, <2>4, OrderPlace, KeptBelow
  <2>6. cmd' = [cmd EXCEPT !.at = "sources"]
    BY <1>3 DEF GoesOn
  <2>7. cmd'.at = "sources" /\ cmd'.out = cmd.out /\ cmd'.src = cmd.src
        /\ cmd' \in [at : Steps, src : Path, out : Path]
    BY <1>2, <2>6 DEF Steps
  <2> QED BY <1>1, <2>5, <2>7 DEF PackingInv, PackingTypeOK, Aimed
<1>4. CASE Ends /\ UNCHANGED disk
  BY <1>1, <1>4, EndsStep DEF Ends
<1> QED BY <1>3, <1>4 DEF App

LEMMA CopySourcesStep == ASSUME PackingInv, CopySources PROVE PackingInv'
<1> DEFINE dir   == cmd.out
           clean == PrepareCleanProjectDist(disk, cmd.src, dir)
<1>1. cmd.out \in OrderPlaces /\ cmd.src \in FilePath /\ UNCHANGED mine /\ cmd' = Idle
  BY DEF CopySources, PackingInv, Aimed, Ends
<1>2. cmd.out \in Path /\ IsDisk(disk)
  BY <1>1, OrderPlace DEF PackingInv, PackingTypeOK
<1>3. CASE \E data : disk' = Put(clean, Append(dir, "run.bat"), data)
  <2>1. OnlyBelow(dir, disk, clean)
    BY <1>1, <1>2, CleanBelow
  <2> HIDE DEF clean
  <2>2. OnlyBelow(dir, clean, disk')
    BY <1>2, <1>3, NamesAssumption, PutIn
  <2>3. OnlyBelow(dir, disk, disk')
    BY <2>1, <2>2, OnlyBelowTwice
  <2>4. SourcesKept' /\ MineApart' /\ IsDisk(disk')
    BY <1>1, <2>3, OrderPlace, KeptBelow
  <2> QED BY <1>1, <2>4, EndsAimed DEF PackingInv, PackingTypeOK
<1>4. CASE UNCHANGED disk
  BY <1>1, <1>4, EndsStep
<1> QED BY <1>3, <1>4 DEF CopySources

-----------------------------------------------------------------------------
(* The steps of the user *)

\* A program is run; it leaves files at paths.
LEMMA RanStep ==
    ASSUME PackingInv, NEW r, NEW as, Ran(r, as), IsDisk(disk'), UNCHANGED cmd
    PROVE  PackingInv'
<1>1. disk' = r.disk /\ mine' = [p \in DOMAIN mine \cap DOMAIN r.disk |-> r.disk[p]]
  BY DEF Ran
<1>2. SourcesKept' /\ MineApart'
  BY <1>1 DEF SourcesKept, MineApart, Has, PackingInv
<1> QED BY <1>2, IdleAimed DEF PackingInv, PackingTypeOK

LEMMA CarryStep == ASSUME PackingInv, NEW exe \in DOMAIN disk, Carry(exe) PROVE PackingInv'
<1> DEFINE to == Append(Elsewhere, Last(exe))
<1>1. disk' = Put(disk, to, disk[exe]) /\ UNCHANGED <<mine, cmd>>
  BY DEF Carry
<1>2. Last(exe) \in Names /\ Elsewhere \in Path /\ Elsewhere \in AllPlaces
  BY FrontOf, PackingAssumption DEF PackingInv, PackingTypeOK, IsDisk, AllPlaces
<1>3. OnlyBelow(Elsewhere, disk, disk')
  BY <1>1, <1>2, PutIn
<1>4. SourcesKept' /\ MineApart' /\ IsDisk(disk')
  BY <1>1, <1>2, <1>3, KeptBelow
<1> QED BY <1>1, <1>4, IdleAimed DEF PackingInv, PackingTypeOK

LEMMA EditStep ==
    ASSUME PackingInv, NEW path \in DOMAIN mine, NEW text \in Texts, Edit(path, text)
    PROVE  PackingInv'
<1>1. disk' = Put(disk, path, text) /\ mine' = Put(mine, path, text) /\ UNCHANGED cmd
  BY DEF Edit
<1>2. path \in FilePath
  BY DEF PackingInv, PackingTypeOK, SourcesKept, IsDisk, Has
<1>3. SourcesKept' /\ MineApart' /\ IsDisk(disk')
  BY <1>1, <1>2 DEF PackingInv, PackingTypeOK, SourcesKept, MineApart, IsDisk, Put, Has
<1> QED BY <1>1, <1>3, IdleAimed DEF PackingInv, PackingTypeOK

\* What is put into a directory lies below another only if one is in the other.
LEMMA NotApart ==
    ASSUME NEW dir \in Path, NEW dest \in Path, NEW r \in Path, Below(dir, dest \o r)
    PROVE  IsPrefix(dir, dest) \/ IsPrefix(dest, dir)
<1> DEFINE p == dest \o r
<1>1. /\ dir \in Seq(Names) /\ Len(dir) \in Nat /\ SubSeq(dir, 1, Len(dir)) = dir
      /\ dest \in Seq(Names) /\ Len(dest) \in Nat /\ SubSeq(dest, 1, Len(dest)) = dest
      /\ r \in Seq(Names) /\ Len(r) \in Nat
  BY SubSeqFull, LenProperties DEF Path
<1>2. p \in Seq(Names) /\ Len(p) = Len(dest) + Len(r)
  BY <1>1, ConcatProperties
<1>3. \A n \in 0 .. Len(dest) : SubSeq(p, 1, n) = SubSeq(dest, 1, n)
  BY <1>1, <1>2
<1>4. dir = SubSeq(p, 1, Len(dir)) /\ Len(dir) <= Len(p)
  BY <1>1 DEF Below, IsStrictPrefix, IsPrefix, p
<1> HIDE DEF p
<1>5. CASE Len(dir) <= Len(dest)
  <2>1. SubSeq(dir, 1, Len(dir)) = SubSeq(dest, 1, Len(dir))
    BY <1>1, <1>3, <1>4, <1>5
  <2> QED BY <1>5, <2>1 DEF IsPrefix
<1>6. CASE Len(dest) <= Len(dir)
  <2>1. SubSeq(SubSeq(p, 1, Len(dir)), 1, Len(dest)) = SubSeq(p, 1, Len(dest))
    BY <1>1, <1>2, <1>4, <1>6
  <2>2. Len(dest) \in 0 .. Len(dest)
    BY <1>1
  <2>3. SubSeq(dest, 1, Len(dest)) = SubSeq(dir, 1, Len(dest))
    BY <1>3, <1>4, <2>1, <2>2
  <2> QED BY <1>6, <2>3 DEF IsPrefix
<1> QED BY <1>1, <1>5, <1>6

\* A package that is added: where it comes to, what it is made of, and the copies of
\* a part of that.
PkgDest(from) ==
    LET it == from[2]
    IN  Join(from[1], <<Packages, IF IsFile(disk, it) /\ IsYodSource(it) THEN Stem[Last(it)] ELSE Last(it)>>)
PkgBase(it) == IF IsFile(disk, it) THEN Front(it) ELSE it
PkgFiles(from) ==
    LET it   == from[2]
        left == Without(disk, AllOf(disk, PkgDest(from)))
    IN  IF IsFile(disk, it) THEN {it} \cap DOMAIN left ELSE Under(left, it)
PkgCopies(from, part) ==
    [p \in {PkgDest(from) \o After(PkgBase(from[2]), q) : q \in part} |->
        disk[PkgBase(from[2]) \o After(PkgDest(from), p)]]

\* Some files are removed, of the package's place, and copies come there.
LEMMA PkgAdded ==
    ASSUME NEW from, pkgAdd(from[1], from[2])
    PROVE  \E gone, part, new :
              /\ disk' = Over(new, Without(disk, gone)) /\ mine' = Over(new, Without(mine, gone))
              /\ part \subseteq PkgFiles(from) /\ new \in {<<>>, PkgCopies(from, part)}
<1> DEFINE old == AllOf(disk, PkgDest(from))
<1>1. CASE \E part : /\ disk' = Over(<<>>, Without(disk, part \cap old))
                     /\ mine' = Over(<<>>, Without(mine, part \cap old))
  <2> HIDE DEF old
  <2>1. {} \subseteq PkgFiles(from)
    OBVIOUS
  <2> QED BY <1>1, <2>1
<1>2. CASE \E part : /\ disk' = Over(PkgCopies(from, part \cap PkgFiles(from)), Without(disk, old))
                     /\ mine' = Over(PkgCopies(from, part \cap PkgFiles(from)), Without(mine, old))
  <2> HIDE DEF old
  <2>1. \A part : part \cap PkgFiles(from) \subseteq PkgFiles(from)
    OBVIOUS
  <2> QED BY <1>2, <2>1
<1> QED BY <1>1, <1>2 DEF pkgAdd, PkgDest, PkgBase, PkgFiles, PkgCopies

\* Its place is one for packages, and what it is made of lies below one directory.
LEMMA PkgPaths ==
    ASSUME PackingInv, NEW from \in Parcels
    PROVE  /\ PkgDest(from) \in PackageDirs(from) /\ PkgDest(from) \in Path
           /\ PkgBase(from[2]) \in Path /\ from[2] \in FilePath
           /\ \A q \in PkgFiles(from) :
                 /\ q \in FilePath /\ q \in Path /\ q \in DOMAIN disk /\ Below(PkgBase(from[2]), q)
                 /\ IsFile(disk, from[2]) => q = from[2]
                 /\ ~IsFile(disk, from[2]) => Below(from[2], q)
<1>1. PkgDest(from) \in PackageDirs(from)
  BY DEF PkgDest, PackageDirs, IsYodSource
<1>2. PkgDest(from) \in Path /\ from[2] \in FilePath
  BY <1>1, PackingAssumption
<1>3. PkgBase(from[2]) \in Path
  BY <1>2, FrontOf DEF PkgBase, FilePath
<1>4. ASSUME NEW q \in PkgFiles(from)
      PROVE  /\ q \in FilePath /\ q \in Path /\ q \in DOMAIN disk /\ Below(PkgBase(from[2]), q)
             /\ IsFile(disk, from[2]) => q = from[2]
             /\ ~IsFile(disk, from[2]) => Below(from[2], q)
  <2>1. q \in DOMAIN disk
    BY DEF PkgFiles, Under, Without
  <2>2. q \in FilePath /\ q \in Path
    BY <2>1 DEF PackingInv, PackingTypeOK, IsDisk, FilePath
  <2>3. IsFile(disk, from[2]) => q = from[2]
    BY DEF PkgFiles
  <2>4. ~IsFile(disk, from[2]) => Below(from[2], q)
    BY DEF PkgFiles, Under
  <2> QED BY <2>1, <2>2, <2>3, <2>4, FrontOf DEF PkgBase
<1> QED BY <1>1, <1>2, <1>3, <1>4

LEMMA PkgAddStep ==
    ASSUME PlacesApart, PackingInv, NEW from \in Parcels, pkgAdd(from[1], from[2])
    PROVE  PackingInv' /\ \A dir \in AllPlaces : Fewer(disk, disk', dir)
<1>1. PICK gone, part, new :
         /\ disk' = Over(new, Without(disk, gone)) /\ mine' = Over(new, Without(mine, gone))
         /\ part \subseteq PkgFiles(from) /\ new \in {<<>>, PkgCopies(from, part)}
  BY PkgAdded
<1> DEFINE left     == Without(disk, gone)
           mineLeft == Without(mine, gone)
<1>2. \A dir \in AllPlaces : ~IsPrefix(dir, PkgDest(from)) /\ ~IsPrefix(PkgDest(from), dir)
  BY PkgPaths DEF PlacesApart
<1>3. DOMAIN left \subseteq FilePath /\ DOMAIN mineLeft \subseteq DOMAIN mine /\ UNCHANGED cmd
  BY DEF PackingInv, PackingTypeOK, IsDisk, Without, pkgAdd
<1>4. ASSUME NEW p \in DOMAIN new
      PROVE  p \in FilePath /\ \A dir \in AllPlaces : ~Below(dir, p)
  <2>1. PICK q \in PkgFiles(from) : p = PkgDest(from) \o After(PkgBase(from[2]), q)
    BY <1>1 DEF PkgCopies
  <2>2. After(PkgBase(from[2]), q) \in Path /\ p \in FilePath
    BY <2>1, PkgPaths, Moved DEF FilePath
  <2> QED BY <1>2, <2>1, <2>2, PkgPaths, NotApart, PlacesArePaths
<1>5. ASSUME NEW p \in DOMAIN mineLeft PROVE p \in DOMAIN left /\ left[p] = mineLeft[p]
  BY DEF PackingInv, SourcesKept, Has, Without
<1>6. \A p \in DOMAIN left : p \in DOMAIN disk /\ left[p] = disk[p]
  BY DEF Without
<1>7. disk' = Over(new, left) /\ mine' = Over(new, mineLeft)
  BY <1>1
<1> HIDE DEF left, mineLeft
<1>8. SourcesKept'
  BY <1>5, <1>7 DEF SourcesKept, Over, Has
<1>9. MineApart'
  BY <1>3, <1>4, <1>7 DEF MineApart, Over, Has, PackingInv
<1>10. IsDisk(disk')
  BY <1>3, <1>4, <1>7 DEF IsDisk, Over
<1>11. ASSUME NEW dir \in AllPlaces PROVE Fewer(disk, disk', dir)
  BY <1>4, <1>6, <1>7 DEF Fewer, Under, Over, Has
<1> QED BY <1>3, <1>8, <1>9, <1>10, <1>11, IdleAimed DEF PackingInv, PackingTypeOK

-----------------------------------------------------------------------------
(* Executables of a kind, told by what they hold *)

AreExes(K) == \A x \in K : x.k = "exe"

Holds(d, K) == {p \in DOMAIN d : d[p] \in K}

\* The engine alone, under Yod's own name.
Own(d, p) == IsEngine(d[p]) /\ Last(p) = "yod.exe"

\* They have names of executables.
Called(d, K) == \A p \in Holds(d, K) : Last(p) \in Range(ExeOf) \cup {"yod.exe"}

\* None is new but Yod's own.
NoneNew(d, e, K) == \A p \in Holds(e, K) : (p \in DOMAIN d /\ d[p] = e[p]) \/ Own(e, p)

LEMMA NoneTwice ==
    ASSUME NEW K, NEW d, NEW e, NEW f, NoneNew(d, e, K), NoneNew(e, f, K)
    PROVE  NoneNew(d, f, K)
  BY DEF NoneNew, Holds, Own

LEMMA StayCalled == ASSUME NEW K, NEW d, NEW e, Called(d, K), NoneNew(d, e, K) PROVE Called(e, K)
  BY DEF Called, NoneNew, Holds, Own

LEMMA SameNone == ASSUME NEW K, NEW d PROVE NoneNew(d, d, K)
  BY DEF NoneNew, Holds

LEMMA WithoutNone == ASSUME NEW K, NEW d, NEW gone PROVE NoneNew(d, Without(d, gone), K)
  BY DEF NoneNew, Holds, Without

LEMMA PutNone ==
    ASSUME NEW K, NEW d, NEW p, NEW data, data \notin K \/ (IsEngine(data) /\ Last(p) = "yod.exe")
    PROVE  NoneNew(d, Put(d, p, data), K)
  BY DEF NoneNew, Holds, Own, Put

LEMMA OverNone ==
    ASSUME NEW K, NEW d, NEW files, \A p \in DOMAIN files : files[p] \notin K \/ Own(files, p)
    PROVE  NoneNew(d, Over(files, d), K)
  BY DEF NoneNew, Holds, Own, Over, Has

\* What has the name of a source, an asset or an image is no executable.
LEMMA NoneCalled ==
    ASSUME NEW K, NEW d, Called(d, K), NEW p \in DOMAIN d,
           Last(p) \in DOMAIN Stem \cup AssetNames \cup IconNames \cup ImageNames \cup YodIcons
    PROVE  d[p] \notin K
  BY NamesAssumption DEF Called, Holds

LEMMA NoExeMade ==
    ASSUME NEW K, AreExes(K)
    PROVE  /\ \A id : Asset(id) \notin K
           /\ \A prog, as : Starter(prog, as) \notin K
           /\ \A id, does, plain : Source(id, does, plain) \notin K
  BY DEF AreExes, Asset, Starter, Source

LEMMA PackedNone ==
    ASSUME NEW K, AreExes(K), NEW p, NEW data, data \notin K
    PROVE  Packed(p, data) \notin K
  BY NoExeMade DEF Packed, rewriteSiblingIncludes

LEMMA IconFound ==
    ASSUME NEW d, NEW src, resolvePackIcon(d, src).from # <<>>
    PROVE  /\ resolvePackIcon(d, src).from[1] \in DOMAIN d
           /\ Last(resolvePackIcon(d, src).from[1]) \in IconNames \cup ImageNames \cup YodIcons
<1> DEFINE dirs == packIconSearchDirs(d, src)
           In(names) == {p \in DOMAIN d : p # <<>> /\ Front(p) \in ToSet(dirs) /\ Last(p) \in names}
           yod  == In(YodIcons) \cup {p \in DOMAIN d : Front(p) = Home /\ Last(p) \in YodIcons}
           Some(set) == CHOOSE p \in set : TRUE
           from == resolvePackIcon(d, src).from
<1>1. \A set : set # {} => Some(set) \in set
  OBVIOUS
<1> HIDE DEF Some
<1>2. CASE In(IconNames) # {}
  <2>1. from = <<Some(In(IconNames))>>
    BY <1>2 DEF resolvePackIcon, Some
  <2>2. Some(In(IconNames)) \in In(IconNames)
    BY <1>1, <1>2
  <2> QED BY <2>1, <2>2
<1>3. CASE In(IconNames) = {} /\ In(ImageNames) # {}
  <2>1. from = <<Some(In(ImageNames))>>
    BY <1>3 DEF resolvePackIcon, Some
  <2>2. Some(In(ImageNames)) \in In(ImageNames)
    BY <1>1, <1>3
  <2> QED BY <2>1, <2>2
<1>4. CASE In(IconNames) = {} /\ In(ImageNames) = {}
  <2>1. from = IF yod = {} THEN <<>> ELSE <<Some(yod)>>
    BY <1>4 DEF resolvePackIcon, Some
  <2>2. yod # {} /\ from = <<Some(yod)>>
    BY <2>1
  <2>3. Some(yod) \in yod
    BY <1>1, <2>2
  <2> QED BY <2>2, <2>3
<1> QED BY <1>2, <1>3, <1>4

LEMMA IconNone ==
    ASSUME NEW K, AreExes(K), NEW d, Called(d, K), NEW src, NEW dir
    PROVE  NoneNew(d, copyProjectIcon(d, src, dir), K)
<1>1. CASE ~resolvePackIcon(d, src).ok \/ resolvePackIcon(d, src).from = <<>>
  BY <1>1, SameNone DEF copyProjectIcon
<1>2. CASE resolvePackIcon(d, src).ok /\ resolvePackIcon(d, src).from # <<>>
  <2> DEFINE from == resolvePackIcon(d, src).from[1]
             one  == copyFile(d, from, Append(dir, "app.ico"))
             two  == copyFile(one, from, Append(dir, "yod.ico"))
  <2>1. from \in DOMAIN d /\ Last(from) \in IconNames \cup ImageNames \cup YodIcons
    BY <1>2, IconFound
  <2> HIDE DEF from
  <2>2. ASSUME NEW e, Called(e, K), from \in DOMAIN e, NEW to
        PROVE  NoneNew(e, copyFile(e, from, to), K) /\ from \in DOMAIN copyFile(e, from, to)
    <3>1. e[from] \notin K
      BY <2>1, <2>2, NoneCalled
    <3> DEFINE data == IF from = to THEN Asset("empty") ELSE e[from]
    <3>2. data \notin K
      BY <3>1, NoExeMade
    <3>3. copyFile(e, from, to) = Put(e, to, data)
      BY DEF copyFile
    <3> HIDE DEF data
    <3>4. NoneNew(e, copyFile(e, from, to), K)
      BY <3>2, <3>3, PutNone
    <3> QED BY <2>2, <3>3, <3>4 DEF Put
  <2>3. NoneNew(d, one, K) /\ from \in DOMAIN one
    BY <2>1, <2>2
  <2>4. Called(one, K)
    BY <2>3, StayCalled
  <2>5. NoneNew(one, two, K)
    BY <2>2, <2>3, <2>4
  <2>6. copyProjectIcon(d, src, dir) = two
    BY <1>2 DEF copyProjectIcon, from
  <2> QED BY <2>3, <2>5, <2>6, NoneTwice
<1> QED BY <1>1, <1>2

LEMMA BinaryNone ==
    ASSUME NEW K, AreExes(K), NEW d, Called(d, K), NEW src, NEW dir, NEW stuck
    PROVE  NoneNew(d, PrepareBinaryDist(d, src, dir, stuck), K)
<1> DEFINE bare == removePackagedSources(RemoveRuntimeData(d, dir), dir, stuck)
           tidy == copyProjectIcon(bare, src, dir)
<1>1. NoneNew(d, bare, K)
  <2> DEFINE e == RemoveRuntimeData(d, dir)
  <2>1. NoneNew(d, e, K)
    BY WithoutNone DEF RemoveRuntimeData
  <2> HIDE DEF e
  <2>2. NoneNew(e, removePackagedSources(e, dir, stuck), K)
    BY WithoutNone DEF removePackagedSources
  <2> QED BY <2>1, <2>2, NoneTwice DEF e
<1> HIDE DEF bare
<1>2. NoneNew(bare, tidy, K)
  BY <1>1, StayCalled, IconNone
<1>3. NoneNew(d, tidy, K)
  BY <1>1, <1>2, NoneTwice
<1>4. \A root : NoneNew(d, copyProjectIcon(tidy, root, dir), K)
  <2> HIDE DEF tidy
  <2> QED BY <1>3, StayCalled, IconNone, NoneTwice
<1> QED BY <1>3, <1>4 DEF PrepareBinaryDist, bare, tidy

LEMMA StartedNone ==
    ASSUME NEW K, AreExes(K), NEW d, Called(d, K), NEW src \in DOMAIN d, IsYodSource(src), NEW dir \in Path
    PROVE  NoneNew(d, Started(d, src, dir), K)
<1> DEFINE prog == Append(dir, Last(src))
           d1 == Put(d, prog, Packed(prog, d[src]))
           d2 == Put(d1, Append(dir, "yod.exe"), Engine)
           d3 == Put(d2, Append(dir, "run.bat"), Starter(prog, <<>>))
           d4 == Put(d3, Append(dir, "manifest"), Asset("manifest"))
<1>1. Started(d, src, dir) = d4
  BY DEF Started
<1>2. Packed(prog, d[src]) \notin K
  BY NoneCalled, PackedNone DEF IsYodSource
<1>3. Last(Append(dir, "yod.exe")) = "yod.exe" /\ IsEngine(Engine)
  BY NamesAssumption, LastOfAppend DEF IsEngine, Engine, Exe
<1> HIDE DEF prog, d1, d2, d3, d4
<1>4. NoneNew(d, d1, K)
  BY <1>2, PutNone DEF d1
<1>5. NoneNew(d1, d2, K)
  BY <1>3, PutNone DEF d2
<1>6. NoneNew(d2, d3, K) /\ NoneNew(d3, d4, K)
  BY NoExeMade, PutNone DEF d3, d4
<1> QED BY <1>1, <1>4, <1>5, <1>6, NoneTwice

\* No packing writes into a directory of the design directory's name.
LEMMA NoneShared ==
    ASSUME NEW root \in Path, NEW q \in FilePath, Below(SiblingDesign(root), q),
           NEW dir \in Path, Design \notin ToSet(dir), Front(root) \in Path
    PROVE  Front(q) # dir
<1> DEFINE up == Front(root)
           in == Append(up, Design)
<1>1. /\ up \in Seq(Names) /\ Len(up) \in Nat /\ q \in Seq(Names) /\ Len(q) \in Nat
      /\ Front(q) = SubSeq(q, 1, Len(q) - 1)
  BY FrontOf, LenProperties DEF Path, FilePath
<1>2. in \in Seq(Names) /\ Len(in) = Len(up) + 1 /\ in[Len(up) + 1] = Design
  BY <1>1, NamesAssumption, AppendProperties
<1>3. SubSeq(in, 1, Len(in)) = in /\ SubSeq(q, 1, Len(q)) = q
  BY <1>1, <1>2, SubSeqFull
<1> HIDE DEF up
<1>4. Len(in) <= Len(q) /\ SubSeq(in, 1, Len(in)) = SubSeq(q, 1, Len(in)) /\ in # q
  BY DEF Below, IsStrictPrefix, IsPrefix, SiblingDesign, up
<1> HIDE DEF in
<1>5. Len(in) # Len(q)
  BY <1>3, <1>4
<1> DEFINE k == Len(up)
           l == Len(q)
<1>6. k \in Nat /\ l \in Nat /\ k + 1 < l
  <2>1. \A a, b \in Nat : a + 1 <= b /\ a + 1 # b => a + 1 < b
    OBVIOUS
  <2> QED BY <1>1, <1>2, <1>4, <1>5, <2>1, Zenon
<1> HIDE DEF k, l
<1>7. q[k + 1] = Design
  <2>1. \A j \in 1 .. l : q[j] \in Names
    BY <1>1, ElementOfSeq DEF l
  <2>2. 1 \in Int /\ k + 1 \in Int /\ \A j \in 1 .. k + 1 : q[j] \in Names
    BY <1>6, <2>1
  <2>3. k + 1 \in 1 .. (k + 1) - 1 + 1 /\ 1 + (k + 1) - 1 = k + 1
    BY <1>6
  <2>4. SubSeq(q, 1, k + 1)[k + 1] = q[1 + (k + 1) - 1]
    BY <2>2, <2>3, SubSeqProperties
  <2>5. SubSeq(q, 1, k + 1) = in
    BY <1>2, <1>3, <1>4 DEF k
  <2> QED BY <1>2, <2>3, <2>4, <2>5 DEF k
<1>8. Front(q)[k + 1] = Design /\ k + 1 \in DOMAIN Front(q)
  <2>1. \A j \in 1 .. l : q[j] \in Names
    BY <1>1, ElementOfSeq DEF l
  <2>2. 1 \in Int /\ l - 1 \in Int /\ \A j \in 1 .. l - 1 : q[j] \in Names
    BY <1>6, <2>1
  <2>3. k + 1 \in 1 .. (l - 1) - 1 + 1 /\ 1 + (k + 1) - 1 = k + 1
    BY <1>6
  <2> DEFINE f == SubSeq(q, 1, l - 1)
  <2>4. f[k + 1] = q[1 + (k + 1) - 1]
    BY <2>2, <2>3, SubSeqProperties
  <2>5. f \in Seq(Names)
    BY <2>2, SubSeqProperties
  <2>6. Len(f) = IF 1 <= l - 1 THEN (l - 1) - 1 + 1 ELSE 0
    BY <2>2, SubSeqProperties
  <2>7. f = Front(q)
    BY <1>1 DEF l
  <2> HIDE DEF f
  <2>8. Len(f) = l - 1 /\ k + 1 \in 1 .. l - 1
    BY <1>6, <2>6
  <2>9. DOMAIN f = 1 .. Len(f)
    BY <2>5, LenProperties
  <2> QED BY <1>7, <2>3, <2>4, <2>7, <2>8, <2>9
<1>9. ASSUME Front(q) = dir PROVE FALSE
  <2>1. dir \in Seq(Names) /\ DOMAIN dir = 1 .. Len(dir)
    BY LenProperties DEF Path
  <2>2. dir[k + 1] \in ToSet(dir)
    BY <1>8, <1>9, <2>1 DEF ToSet
  <2> QED BY <1>8, <1>9, <2>2
<1> QED BY <1>9

LEMMA CleanNone ==
    ASSUME NEW K, AreExes(K), NEW d, IsDisk(d), Called(d, K), NEW dir \in Path, NEW src \in FilePath,
           \A q \in Holds(d, K) : Below(SiblingDesign(RootOf(d, src)), q) => Own(d, q)
    PROVE  NoneNew(d, PrepareCleanProjectDist(d, src, dir), K)
<1> DEFINE root    == RootOf(d, src)
           sibling == SiblingDesign(root)
           inside  == Append(dir, Design)
           files   == [p \in {dir \o After(root, q) : q \in ProjectFiles(d, root)} |->
                         Packed(p, d[root \o After(dir, p)])]
           copied  == Over(files, RemoveRuntimeData(d, dir))
           bare    == Without(copied, Under(copied, inside))
           design  == [p \in {inside \o After(sibling, q) : q \in SharedFiles(d, root)} |->
                         d[sibling \o After(inside, p)]]
           renewed == IF IsFolder(d, sibling) THEN Over(design, bare) ELSE copied
<1>1. root \in Path /\ sibling \in Path /\ inside \in Path
  <2>1. inside \in Path
    BY NamesAssumption, BelowAppend DEF FilePath
  <2> QED BY <2>1, RootAbove, SiblingPath
<1>2. \A p \in DOMAIN files : files[p] \notin K
  <2>1. ASSUME NEW q \in ProjectFiles(d, root) PROVE files[dir \o After(root, q)] \notin K
    <3>1. q \in DOMAIN d /\ q \in Path /\ Below(root, q)
      BY DEF ProjectFiles, Walked, IsDisk, FilePath
    <3>2. Last(q) \in DOMAIN Stem \cup AssetNames
      <4>1. Last(After(root, q)) = Last(q)
        BY <1>1, <3>1, MovedBack
      <4> QED BY <4>1 DEF ProjectFiles, IsYodSource, isProjectAsset
    <3>3. d[q] \notin K
      BY <3>1, <3>2, NoneCalled
    <3>4. root \o After(dir, dir \o After(root, q)) = q
      BY <1>1, <3>1, MovedBack
    <3>5. files[dir \o After(root, q)] = Packed(dir \o After(root, q), d[q])
      BY <3>4
    <3> QED BY <3>3, <3>5, PackedNone
  <2> QED BY <2>1
<1>3. \A p \in DOMAIN design : design[p] \notin K \/ Own(design, p)
  <2>1. ASSUME NEW q \in SharedFiles(d, root)
        PROVE  LET p == inside \o After(sibling, q) IN design[p] \notin K \/ Own(design, p)
    <3>1. q \in DOMAIN d /\ q \in Path /\ Below(sibling, q)
      BY DEF SharedFiles, Walked, IsDisk, FilePath
    <3>2. Last(inside \o After(sibling, q)) = Last(q) /\ sibling \o After(inside, inside \o After(sibling, q)) = q
      <4> HIDE DEF inside, sibling
      <4> QED BY <1>1, <3>1, MovedBack
    <3>3. design[inside \o After(sibling, q)] = d[q]
      BY <3>2
    <3>4. d[q] \in K => Own(d, q)
      BY <3>1 DEF Holds
    <3> QED BY <3>2, <3>3, <3>4 DEF Own
  <2> QED BY <2>1
<1>4. NoneNew(d, copied, K)
  <2> HIDE DEF files
  <2>1. NoneNew(d, RemoveRuntimeData(d, dir), K)
    BY WithoutNone DEF RemoveRuntimeData
  <2> QED BY <1>2, <2>1, OverNone, NoneTwice
<1> HIDE DEF copied, design
<1>5. NoneNew(d, bare, K)
  BY <1>4, WithoutNone, NoneTwice
<1>6. NoneNew(d, renewed, K)
  BY <1>3, <1>4, <1>5, OverNone, NoneTwice
<1> HIDE DEF renewed
<1>7. NoneNew(d, RemoveRuntimeData(renewed, dir), K)
  BY <1>6, WithoutNone, NoneTwice DEF RemoveRuntimeData
<1> QED BY <1>7 DEF PrepareCleanProjectDist, renewed, copied, design

-----------------------------------------------------------------------------
(* The steps that make no executable but Yod's own *)

\* Yod's own apart, they are in the places of packings.
Placed(d, K) ==
    \A p \in Holds(d, K) :
        /\ Last(p) \in Range(ExeOf) \cup {"yod.exe"}
        /\ Own(d, p) \/ Front(p) \in AllPlaces

LEMMA PlacedCalled == ASSUME NEW K, NEW d, Placed(d, K) PROVE Called(d, K)
  BY DEF Placed, Called

LEMMA PackAppNone ==
    ASSUME NEW K, NEW o \in Orders, NEW folder \in BOOLEAN, packApp(o[1], o[2], folder)
    PROVE  NoneNew(disk, disk', K)
<1>1. \E gone : disk' = Without(disk, gone)
  BY DEF packApp, clearOldPackDist
<1> QED BY <1>1, WithoutNone

LEMMA WithdrawNone == ASSUME NEW K, Withdraw PROVE NoneNew(disk, disk', K)
  BY WithoutNone, SameNone DEF Withdraw

LEMMA WriteBesideNone ==
    ASSUME NEW K, AreExes(K), Called(disk, K), WriteBeside
    PROVE  NoneNew(disk, disk', K)
<1> DEFINE dir  == Front(cmd.out)
           with == Put(disk, Append(dir, "manifest"), Asset("manifest"))
<1>1. disk' = copyProjectIcon(with, cmd.src, dir)
  BY DEF WriteBeside
<1>2. NoneNew(disk, with, K)
  BY NoExeMade, PutNone
<1> HIDE DEF with
<1>3. NoneNew(with, disk', K)
  BY <1>1, <1>2, StayCalled, IconNone
<1> QED BY <1>2, <1>3, NoneTwice

LEMMA TidyDistNone ==
    ASSUME NEW K, AreExes(K), Called(disk, K), TidyDist
    PROVE  NoneNew(disk, disk', K)
  BY BinaryNone, WithoutNone, SameNone DEF TidyDist

LEMMA AppNone ==
    ASSUME NEW K, AreExes(K), Called(disk, K), IsYodSource(cmd.src), cmd.out \in Path, App
    PROVE  NoneNew(disk, disk', K)
<1> DEFINE dir     == cmd.out
           started == Started(disk, cmd.src, dir)
           marked  == copyProjectIcon(started, cmd.src, dir)
<1>1. CASE IsFile(disk, cmd.src) /\ disk' = Put(marked, Append(dir, "readme"), Asset("readme"))
  <2>1. cmd.src \in DOMAIN disk
    BY <1>1 DEF IsFile, Has
  <2>2. NoneNew(disk, started, K)
    BY <2>1, StartedNone
  <2> HIDE DEF started
  <2>3. NoneNew(started, marked, K)
    BY <2>2, StayCalled, IconNone
  <2> HIDE DEF marked
  <2>4. NoneNew(marked, disk', K)
    BY <1>1, NoExeMade, PutNone
  <2> QED BY <2>2, <2>3, <2>4, NoneTwice
<1>2. CASE UNCHANGED disk
  BY <1>2, SameNone
<1> QED BY <1>1, <1>2 DEF App

LEMMA CopySourcesNone ==
    ASSUME EnginesApart, PackingInv, NEW K, AreExes(K), Placed(disk, K), CopySources
    PROVE  NoneNew(disk, disk', K)
<1> DEFINE dir   == cmd.out
           clean == PrepareCleanProjectDist(disk, cmd.src, dir)
           root  == RootOf(disk, cmd.src)
<1>1. cmd.src \in FilePath /\ dir \in Path /\ IsDisk(disk)
  BY DEF CopySources, PackingInv, PackingTypeOK, Aimed
<1>2. ASSUME NEW q \in Holds(disk, K), Below(SiblingDesign(root), q) PROVE Own(disk, q)
  <2>1. root \in Path /\ Front(root) \in Path /\ q \in FilePath
    BY <1>1, RootAbove, SiblingPath DEF Holds, IsDisk
  <2>2. ASSUME Front(q) \in AllPlaces PROVE FALSE
    <3>1. Design \notin ToSet(Front(q)) /\ Front(q) \in Path
      BY <2>2, PlacesArePaths DEF EnginesApart
    <3> HIDE DEF root
    <3> QED BY <1>2, <2>1, <3>1, NoneShared
  <2> QED BY <2>2 DEF Placed
<1>3. CASE \E prog, as : disk' = Put(clean, Append(dir, "run.bat"), Starter(prog, as))
  <2>1. NoneNew(disk, clean, K)
    BY <1>1, <1>2, PlacedCalled, CleanNone
  <2> HIDE DEF clean
  <2>2. NoneNew(clean, disk', K)
    BY <1>3, NoExeMade, PutNone
  <2> QED BY <2>1, <2>2, NoneTwice
<1>4. CASE UNCHANGED disk
  BY <1>4, SameNone
<1> QED BY <1>3, <1>4 DEF CopySources

LEMMA EditNone ==
    ASSUME NEW K, AreExes(K), NEW p, NEW text \in Texts, Edit(p, text)
    PROVE  NoneNew(disk, disk', K)
<1>1. text \notin K
  BY PackingAssumption DEF AreExes
<1> QED BY <1>1, PutNone DEF Edit

LEMMA PkgAddNone ==
    ASSUME EnginesApart, PackingInv, NEW K, AreExes(K), Placed(disk, K),
           NEW from \in Parcels, pkgAdd(from[1], from[2])
    PROVE  NoneNew(disk, disk', K)
<1> DEFINE it == from[2]
<1>1. PICK gone, part, new :
         /\ disk' = Over(new, Without(disk, gone))
         /\ part \subseteq PkgFiles(from) /\ new \in {<<>>, PkgCopies(from, part)}
  BY PkgAdded
<1>2. ASSUME NEW q \in PkgFiles(from), disk[q] \in K PROVE Own(disk, q)
  <2>1. q \in Holds(disk, K)
    BY <1>2, PkgPaths DEF Holds
  <2>2. ASSUME Front(q) \in AllPlaces PROVE FALSE
    <3>1. ~IsPrefix(it, Front(q)) /\ ~IsPrefix(Front(q), it)
      BY <2>2 DEF EnginesApart
    <3>2. Below(Front(q), q) /\ Front(q) \in Path
      BY PkgPaths, FrontOf
    <3>3. CASE IsFile(disk, it)
      BY <3>1, <3>2, <3>3, PkgPaths DEF Below, IsStrictPrefix
    <3>4. CASE ~IsFile(disk, it)
      <4>1. Below(it, q)
        BY <3>4, PkgPaths
      <4>2. q = Front(q) \o <<Last(q)>>
        BY PkgPaths, AppendFront
      <4>3. it \in Path /\ <<Last(q)>> \in Path
        <5>1. Last(q) \in Names
          BY PkgPaths, FrontOf
        <5>2. \A x \in Names : <<x>> \in Seq(Names)
          OBVIOUS
        <5> QED BY <5>1, <5>2, PkgPaths DEF Path, FilePath
      <4>4. IsPrefix(it, Front(q)) \/ IsPrefix(Front(q), it)
        <5> HIDE DEF it
        <5> QED BY <3>2, <4>1, <4>2, <4>3, NotApart
      <4> QED BY <3>1, <4>4
    <3> QED BY <3>3, <3>4
  <2> QED BY <2>1, <2>2 DEF Placed
<1>3. \A p \in DOMAIN new : new[p] \notin K \/ Own(new, p)
  <2>1. ASSUME new = PkgCopies(from, part), NEW q \in part
        PROVE  LET p == PkgDest(from) \o After(PkgBase(it), q) IN new[p] \notin K \/ Own(new, p)
    <3> DEFINE p == PkgDest(from) \o After(PkgBase(it), q)
    <3>1. q \in PkgFiles(from)
      BY <1>1
    <3>2. Last(p) = Last(q) /\ PkgBase(it) \o After(PkgDest(from), p) = q
      <4>1. q \in Path /\ Below(PkgBase(it), q) /\ PkgDest(from) \in Path /\ PkgBase(it) \in Path
        BY <3>1, PkgPaths
      <4> HIDE DEF it
      <4> QED BY <4>1, MovedBack
    <3>3. new[p] = disk[q]
      BY <2>1, <3>2 DEF PkgCopies
    <3> HIDE DEF p
    <3>4. new[p] \notin K \/ Own(new, p)
      BY <1>2, <3>1, <3>2, <3>3 DEF Own
    <3> QED BY <3>4 DEF p
  <2>2. ASSUME new = PkgCopies(from, part), NEW p \in DOMAIN new PROVE new[p] \notin K \/ Own(new, p)
    <3>1. PICK q \in part : p = PkgDest(from) \o After(PkgBase(it), q)
      BY <2>2 DEF PkgCopies
    <3> QED BY <2>1, <2>2, <3>1
  <2>3. CASE new = <<>>
    BY <2>3
  <2> QED BY <1>1, <2>2, <2>3
<1>4. NoneNew(disk, Without(disk, gone), K)
  BY WithoutNone
<1>5. NoneNew(Without(disk, gone), disk', K)
  BY <1>1, <1>3, OverNone
<1> QED BY <1>4, <1>5, NoneTwice

-----------------------------------------------------------------------------
(* Engines without a program behind them *)

Engines(d) == {p \in DOMAIN d : IsEngine(d[p])}

\* No engine is new but Yod's own.
NoNewEngines(d, e) == \A p \in Engines(e) : p \in Engines(d) \/ Last(p) = "yod.exe"

\* An engine alone is Yod's own, is one a packing left, or is about to get its
\* program; packings give their engines names of executables.
EngineInv ==
    /\ \A p \in Engines(disk) :
          Last(p) = "yod.exe" \/ p \in halves \/ (cmd.at \in {"icon", "bundle"} /\ p = cmd.out)
    /\ \A p \in halves : InPlace(p) /\ Last(p) \in Range(ExeOf)
    /\ cmd.at \in {"icon", "bundle"} => Last(cmd.out) \in Range(ExeOf)
    /\ cmd.at = "app" => IsYodSource(cmd.src)

\* The programs the user runs make no engine but under Yod's own name.
ProgramsMakeNoEngines == \A p \in DOMAIN disk : RunExe(p) \/ RunFolder(p) => NoNewEngines(disk, disk')

\* What makes no executable of any kind makes no engine.
LEMMA EnginesFew ==
    ASSUME PackingInv, EngineInv,
           \A K : AreExes(K) /\ Placed(disk, K) => NoneNew(disk, disk', K)
    PROVE  NoNewEngines(disk, disk')
<1> DEFINE K == {disk'[p] : p \in Engines(disk')}
<1>1. \A x \in K : IsEngine(x)
  BY DEF Engines
<1>2. \A p \in Engines(disk') : p \in Holds(disk', K)
  BY DEF Engines, Holds
<1> HIDE DEF K
<1>3. AreExes(K)
  BY <1>1 DEF AreExes, IsEngine
<1>4. ASSUME NEW p \in Holds(disk, K)
      PROVE  Last(p) \in Range(ExeOf) \cup {"yod.exe"} /\ (Own(disk, p) \/ Front(p) \in AllPlaces)
  <2>1. p \in Engines(disk) /\ IsEngine(disk[p])
    BY <1>1 DEF Holds, Engines
  <2>2. CASE Last(p) = "yod.exe"
    BY <2>1, <2>2 DEF Own
  <2>3. CASE p \in halves
    BY <2>3, InPlaceBelow DEF EngineInv
  <2>4. CASE cmd.at \in {"icon", "bundle"} /\ p = cmd.out
    BY <2>4, InPlaceBelow DEF EngineInv, PackingInv, Aimed
  <2> QED BY <2>1, <2>2, <2>3, <2>4 DEF EngineInv
<1>5. NoneNew(disk, disk', K)
  BY <1>3, <1>4 DEF Placed
<1>6. ASSUME NEW p \in Engines(disk') PROVE p \in Engines(disk) \/ Last(p) = "yod.exe"
  BY <1>2, <1>5, <1>6 DEF NoneNew, Own, Engines
<1> QED BY <1>6 DEF NoNewEngines

\* A step that makes none, and leaves none to be finished.
LEMMA EnginesKept ==
    ASSUME EngineInv, cmd.at \notin {"icon", "bundle"}, NoNewEngines(disk, disk'), UNCHANGED halves,
           cmd'.at \notin {"icon", "bundle", "app"}
    PROVE  EngineInv'
<1>1. ASSUME NEW p \in Engines(disk') PROVE Last(p) = "yod.exe" \/ p \in halves
  BY DEF EngineInv, NoNewEngines
<1> QED BY <1>1 DEF EngineInv, InPlace

LEMMA InitEngines == ASSUME EnginesApart, Init PROVE EngineInv
  BY DEF Init, EnginesApart, EngineInv, Engines, Idle

LEMMA ExeNamed ==
    ASSUME NEW o \in Orders, NEW src, Means(o, src)
    PROVE  Last(ExePath(src, o[2])) \in Range(ExeOf)
<1> DEFINE name == ExeOf[DefaultAppName(disk, src)]
<1>1. name \in Names /\ name \in Range(ExeOf)
  BY AppNameIsName
<1>2. ASSUME NEW dir \in OrderPlaces PROVE Last(Append(dir, name)) \in Range(ExeOf)
  BY <1>1, OrderPlace, LastOfAppend
<1>3. CASE o[2] = <<>>
  BY <1>2, <1>3, DistIsPlace DEF ExePath, DefaultEXEPath
<1>4. CASE o[2] # <<>>
  <2>1. o[2] \in OrderPlaces
    BY <1>4 DEF Places, OrderPlaces
  <2> QED BY <1>2, <1>4, <2>1 DEF ExePath
<1> QED BY <1>3, <1>4

LEMMA PackAppEngines ==
    ASSUME PackingInv, EngineInv, NEW o \in Orders, NEW folder \in BOOLEAN, packApp(o[1], o[2], folder)
    PROVE  EngineInv'
<1> DEFINE src  == ResolveEntry(disk, o[1])[1]
           dist == OldDist(disk, src, o[2], folder)
           next == [at |-> IF folder THEN "app" ELSE "engine", src |-> src,
                    out |-> IF folder THEN FolderPath(src, o[2]) ELSE o[2]]
<1>1. /\ IsYodSource(src) /\ clearOldPackDist(src, o[2], folder, next) /\ UNCHANGED halves
      /\ cmd = Idle
  BY DEF packApp, Give
<1>2. cmd' \in {Idle, next}
  BY <1>1 DEF clearOldPackDist
<1> HIDE DEF src, dist
<1>3. NoNewEngines(disk, disk')
  BY PackAppNone, EnginesFew
<1>4. cmd.at = "idle" /\ cmd'.at \in {"idle", "app", "engine"} /\ (cmd'.at = "app" => cmd'.src = src)
  BY <1>1, <1>2 DEF Idle
<1>5. ASSUME NEW p \in Engines(disk') PROVE Last(p) = "yod.exe" \/ p \in halves
  BY <1>3, <1>4 DEF EngineInv, NoNewEngines
<1> QED BY <1>1, <1>4, <1>5 DEF EngineInv, InPlace

LEMMA WithdrawEngines ==
    ASSUME EngineInv, InPlace(cmd.out), Last(cmd.out) \in Range(ExeOf), Withdraw PROVE EngineInv'
<1>1. cmd' = Idle
  BY DEF Withdraw, Ends
<1>2. CASE disk' = Without(disk, {cmd.out}) /\ halves' = halves \ {cmd.out}
  <2>1. ASSUME NEW p \in Engines(disk') PROVE Last(p) = "yod.exe" \/ p \in halves'
    BY <1>2 DEF EngineInv, Engines, Without
  <2> QED BY <1>1, <1>2, <2>1 DEF EngineInv, InPlace, Idle
<1>3. CASE UNCHANGED disk /\ halves' = halves \cup {cmd.out}
  BY <1>1, <1>3 DEF EngineInv, InPlace, Engines, Idle
<1> QED BY <1>2, <1>3 DEF Withdraw

LEMMA WriteEngineEngines == ASSUME PackingInv, EngineInv, WriteEngine PROVE EngineInv'
<1> DEFINE to == ExePath(cmd.src, cmd.out)
<1>1. InPlace(to) /\ Last(to) \in Range(ExeOf)
  BY ExeInPlace, ExeNamed DEF WriteEngine, PackingInv, Aimed
<1>2. cmd.at = "engine" /\ cmd \in [at : Steps, src : Path, out : Path]
  BY DEF WriteEngine, PackingInv, PackingTypeOK
<1> HIDE DEF to
<1>3. ASSUME disk' = Put(disk, to, Engine), NEW p \in Engines(disk')
      PROVE  Last(p) = "yod.exe" \/ p \in halves \/ p = to
  BY <1>2, <1>3 DEF EngineInv, Engines, Put
<1>4. CASE disk' = Put(disk, to, Engine) /\ cmd' = [cmd EXCEPT !.at = "icon", !.out = to] /\ UNCHANGED halves
  <2>1. cmd'.at = "icon" /\ cmd'.out = to
    BY <1>2, <1>4
  <2> QED BY <1>1, <1>3, <1>4, <2>1 DEF EngineInv, InPlace
<1>5. CASE disk' = Put(disk, to, Engine) /\ cmd' = Idle /\ halves' = halves \cup {to}
  BY <1>1, <1>3, <1>5 DEF EngineInv, InPlace, Idle
<1>6. CASE cmd' = Idle /\ UNCHANGED <<disk, halves>>
  BY <1>2, <1>6, EnginesKept DEF NoNewEngines, Idle
<1> QED BY <1>4, <1>5, <1>6 DEF WriteEngine, Ends, to

LEMMA ApplyIconEngines == ASSUME PackingInv, EngineInv, ApplyIcon PROVE EngineInv'
<1>1. CASE GoesOn("bundle") /\ UNCHANGED <<disk, halves>>
  <2>1. cmd'.at = "bundle" /\ cmd'.out = cmd.out
    BY <1>1 DEF GoesOn, PackingInv, PackingTypeOK
  <2> QED BY <1>1, <2>1 DEF EngineInv, InPlace, ApplyIcon
<1>2. CASE Withdraw
  <2>1. InPlace(cmd.out) /\ Last(cmd.out) \in Range(ExeOf)
    BY DEF ApplyIcon, PackingInv, Aimed, EngineInv
  <2> QED BY <1>2, <2>1, WithdrawEngines
<1> QED BY <1>1, <1>2 DEF ApplyIcon

LEMMA WriteBundleEngines == ASSUME PackingInv, EngineInv, WriteBundle PROVE EngineInv'
<1>1. cmd.at = "bundle" /\ InPlace(cmd.out) /\ Last(cmd.out) \in Range(ExeOf)
  BY DEF WriteBundle, PackingInv, Aimed, EngineInv
<1>2. CASE Ends /\ halves' = halves \cup {cmd.out} /\ UNCHANGED disk
  BY <1>1, <1>2 DEF Ends, Idle, EngineInv, InPlace
<1>3. CASE /\ GoesOn("beside") /\ halves' = halves \ {cmd.out}
           /\ \E b, as : disk' = Put(disk, cmd.out, Exe(<<b>>, as))
  <2>1. cmd'.at = "beside"
    BY <1>3 DEF GoesOn, PackingInv, PackingTypeOK
  <2>2. PICK data : disk' = Put(disk, cmd.out, data) /\ ~IsEngine(data)
    BY <1>3 DEF Exe, IsEngine
  <2>3. ASSUME NEW p \in Engines(disk') PROVE Last(p) = "yod.exe" \/ p \in halves'
    BY <1>3, <2>2 DEF EngineInv, Engines, Put
  <2> QED BY <1>3, <2>1, <2>3 DEF EngineInv, InPlace
<1>4. CASE Withdraw
  BY <1>1, <1>4, WithdrawEngines
<1> QED BY <1>2, <1>3, <1>4 DEF WriteBundle

LEMMA WriteBesideEngines == ASSUME PackingInv, EngineInv, WriteBeside PROVE EngineInv'
<1>1. cmd.at = "beside" /\ cmd'.at = "tidy" /\ UNCHANGED halves
  BY DEF WriteBeside, GoesOn, PackingInv, PackingTypeOK, historyVars
<1>2. NoNewEngines(disk, disk')
  BY WriteBesideNone, PlacedCalled, EnginesFew
<1> QED BY <1>1, <1>2, EnginesKept

LEMMA TidyDistEngines == ASSUME PackingInv, EngineInv, TidyDist PROVE EngineInv'
<1>1. cmd.at = "tidy" /\ cmd' = Idle /\ UNCHANGED halves
  BY DEF TidyDist, Ends
<1>2. NoNewEngines(disk, disk')
  BY TidyDistNone, PlacedCalled, EnginesFew
<1> QED BY <1>1, <1>2, EnginesKept DEF Idle

LEMMA AppEngines == ASSUME PackingInv, EngineInv, App PROVE EngineInv'
<1>1. cmd.at = "app" /\ IsYodSource(cmd.src) /\ cmd.out \in Path /\ UNCHANGED halves
  BY DEF App, PackingInv, PackingTypeOK, EngineInv, historyVars
<1>2. NoNewEngines(disk, disk')
  BY <1>1, AppNone, PlacedCalled, EnginesFew
<1>3. cmd'.at \in {"sources", "idle"}
  BY DEF App, Ends, Idle, GoesOn, PackingInv, PackingTypeOK
<1> QED BY <1>1, <1>2, <1>3, EnginesKept

LEMMA CopySourcesEngines == ASSUME EnginesApart, PackingInv, EngineInv, CopySources PROVE EngineInv'
<1>1. cmd.at = "sources" /\ cmd' = Idle /\ UNCHANGED halves
  BY DEF CopySources, Ends
<1>2. NoNewEngines(disk, disk')
  BY CopySourcesNone, EnginesFew
<1> QED BY <1>1, <1>2, EnginesKept DEF Idle

LEMMA PkgAddEngines ==
    ASSUME EnginesApart, PackingInv, EngineInv, NEW from \in Parcels, pkgAdd(from[1], from[2])
    PROVE  EngineInv'
<1>1. cmd = Idle /\ UNCHANGED <<cmd, halves>>
  BY DEF pkgAdd, Give
<1>2. NoNewEngines(disk, disk')
  BY PkgAddNone, EnginesFew
<1> QED BY <1>1, <1>2, EnginesKept DEF Idle

LEMMA EngineStep ==
    ASSUME EnginesApart, PackingInv, EngineInv, [Next]_vars, ProgramsMakeNoEngines
    PROVE  EngineInv'
<1>1. ASSUME NEW o \in Orders, NEW folder \in BOOLEAN, packApp(o[1], o[2], folder) PROVE EngineInv'
  BY <1>1, PackAppEngines
<1>2. CASE Packing
  BY <1>2, WriteEngineEngines, ApplyIconEngines, WriteBundleEngines, WriteBesideEngines, TidyDistEngines,
     AppEngines, CopySourcesEngines DEF Packing
<1>3. ASSUME NEW p \in DOMAIN disk, RunExe(p) \/ RunFolder(p) PROVE EngineInv'
  <2>1. NoNewEngines(disk, disk') /\ cmd = Idle /\ UNCHANGED <<cmd, halves>>
    BY <1>3 DEF ProgramsMakeNoEngines, RunExe, RunFolder, Give
  <2> QED BY <2>1, EnginesKept DEF Idle
<1>4. ASSUME NEW p \in DOMAIN disk, Carry(p) PROVE EngineInv'
  <2>1. disk' = Put(disk, Append(Elsewhere, Last(p)), disk[p]) /\ ~IsEngine(disk[p]) /\ cmd = Idle
        /\ UNCHANGED <<cmd, halves>>
    BY <1>4 DEF Carry, Give, IsEngine, IsPacked
  <2>2. NoNewEngines(disk, disk')
    BY <2>1 DEF NoNewEngines, Engines, Put
  <2> QED BY <2>1, <2>2, EnginesKept DEF Idle
<1>5. CASE Close
  BY <1>5 DEF Close, historyVars, EngineInv, InPlace, Engines
<1>6. ASSUME NEW p \in DOMAIN mine, NEW text \in Texts, Edit(p, text) PROVE EngineInv'
  <2>1. cmd = Idle /\ UNCHANGED <<cmd, halves>>
    BY <1>6 DEF Edit, Give
  <2>2. NoNewEngines(disk, disk')
    BY <1>6, EditNone, EnginesFew
  <2> QED BY <2>1, <2>2, EnginesKept DEF Idle
<1>7. ASSUME NEW from \in Parcels, pkgAdd(from[1], from[2]) PROVE EngineInv'
  BY <1>7, PkgAddEngines
<1>8. CASE UNCHANGED vars
  BY <1>8 DEF vars, historyVars, EngineInv, InPlace, Engines
<1> QED BY <1>1, <1>2, <1>3, <1>4, <1>5, <1>6, <1>7, <1>8 DEF Next

-----------------------------------------------------------------------------
(* What lies below a distribution *)

\* A distribution stays clean when nothing comes to it, and what could not be
\* removed from it stays known.
LEMMA FewerClean ==
    ASSUME NEW d, NEW e, NEW dir, NEW left, NEW now, IsClean(d, left, dir), Fewer(d, e, dir),
           left \cap Under(e, dir) \subseteq now
    PROVE  IsClean(e, now, dir)
<1>1. Under(e, dir) \subseteq Under(d, dir) /\ \A p \in Under(e, dir) : e[p] = d[p]
  BY DEF Fewer, Under
<1> QED BY <1>1 DEF IsClean

LEMMA WithoutFewer == ASSUME NEW d, NEW gone, NEW dir PROVE Fewer(d, Without(d, gone), dir)
  BY DEF Fewer, Under, Without

\* Nothing comes from what is written below another directory.
LEMMA OnlyFewer ==
    ASSUME NEW aim \in Path, NEW dir \in Path, NEW d, NEW e, IsDisk(d), OnlyBelow(aim, d, e),
           aim # dir, ~Below(aim, dir), ~Below(dir, aim)
    PROVE  Fewer(d, e, dir)
<1>1. IsDisk(e)
  BY OnlyBelowDisk
<1>2. ASSUME NEW p \in Under(e, dir) PROVE p \in DOMAIN d /\ e[p] = d[p]
  <2>1. p \in DOMAIN e /\ p \in Path /\ Below(dir, p)
    BY <1>1 DEF Under, IsDisk, FilePath
  <2>2. ~Below(aim, p)
    BY <2>1, Comparable
  <2> QED BY <2>1, <2>2 DEF OnlyBelow
<1> QED BY <1>2 DEF Fewer

\* The files below dir lie directly in it and have none of the names.
Shallow(d, dir, names) == \A p \in Under(d, dir) : Len(p) = Len(dir) + 1 /\ Last(p) \notin names

LEMMA PutShallow ==
    ASSUME NEW d, NEW dir \in Path, NEW names, Shallow(d, dir, names),
           NEW name \in Names \ names, NEW data
    PROVE  Shallow(Put(d, Append(dir, name), data), dir, names)
<1>1. Len(Append(dir, name)) = Len(dir) + 1 /\ Last(Append(dir, name)) = name
  BY AppendProperties, LastOfAppend DEF Path
<1> QED BY <1>1 DEF Shallow, Under, Put

LEMMA IconShallow ==
    ASSUME NEW d, NEW dir \in Path, NEW names, Shallow(d, dir, names), NEW src,
           names \cap {"app.ico", "yod.ico"} = {}
    PROVE  Shallow(copyProjectIcon(d, src, dir), dir, names)
<1> DEFINE from == resolvePackIcon(d, src).from[1]
           one  == copyFile(d, from, Append(dir, "app.ico"))
<1> HIDE DEF from, one
<1>1. Shallow(one, dir, names)
  BY NamesAssumption, PutShallow DEF one, copyFile
<1>2. Shallow(copyFile(one, from, Append(dir, "yod.ico")), dir, names)
  BY <1>1, NamesAssumption, PutShallow DEF copyFile
<1> QED BY <1>2 DEF copyProjectIcon, one, from

LEMMA StartedShallow ==
    ASSUME NEW d, NEW dir \in Path, Under(d, dir) = {}, NEW src \in FilePath
    PROVE  Shallow(Started(d, src, dir), dir, {})
<1> DEFINE prog == Append(dir, Last(src))
           d1 == Put(d, prog, Packed(prog, d[src]))
           d2 == Put(d1, Append(dir, "yod.exe"), Engine)
           d3 == Put(d2, Append(dir, "run.bat"), Starter(prog, <<>>))
           d4 == Put(d3, Append(dir, "manifest"), Asset("manifest"))
<1>1. Started(d, src, dir) = d4
  BY DEF Started
<1>2. Shallow(d, dir, {}) /\ Last(src) \in Names
  BY FrontOf DEF Shallow
<1> HIDE DEF d1, d2, d3, d4
<1>3. Shallow(d1, dir, {})
  BY <1>2, PutShallow DEF d1
<1>4. Shallow(d2, dir, {})
  BY <1>3, NamesAssumption, PutShallow DEF d2
<1>5. Shallow(d3, dir, {})
  BY <1>4, NamesAssumption, PutShallow DEF d3
<1>6. Shallow(d4, dir, {})
  BY <1>5, NamesAssumption, PutShallow DEF d4
<1> QED BY <1>1, <1>6

\* The sources in the folder are hidden ones and ones that could not be removed.
Tidied(d, dir, left) == \A p \in Under(d, dir) : IsYodSource(p) => Last(p) \in HiddenNames \/ p \in left

LEMMA IconTidied ==
    ASSUME NEW d, NEW dir \in Path, NEW left, Tidied(d, dir, left), NEW src
    PROVE  Tidied(copyProjectIcon(d, src, dir), dir, left)
<1> DEFINE from == resolvePackIcon(d, src).from[1]
           one  == copyFile(d, from, Append(dir, "app.ico"))
<1> HIDE DEF from, one
<1>1. ASSUME NEW e, Tidied(e, dir, left), NEW name \in {"app.ico", "yod.ico"}, NEW data
      PROVE  Tidied(Put(e, Append(dir, name), data), dir, left)
  <2>1. Last(Append(dir, name)) = name /\ name \notin DOMAIN Stem
    BY NamesAssumption, LastOfAppend
  <2> QED BY <1>1, <2>1 DEF Tidied, Under, Put, IsYodSource
<1>2. Tidied(one, dir, left)
  BY <1>1 DEF one, copyFile
<1>3. Tidied(copyFile(one, from, Append(dir, "yod.ico")), dir, left)
  BY <1>1, <1>2 DEF copyFile
<1> QED BY <1>3 DEF copyProjectIcon, one, from

\* The folder beside an executable is left with executables, icons, manifests, hidden
\* files, and what could not be removed.
LEMMA BinaryShallow ==
    ASSUME NEW d, IsDisk(d), NEW dir \in Path, NEW src, NEW stuck
    PROVE  /\ Shallow(PrepareBinaryDist(d, src, dir, stuck), dir, {})
           /\ Tidied(PrepareBinaryDist(d, src, dir, stuck), dir, Loose(d, dir) \cap stuck)
<1> DEFINE e    == RemoveRuntimeData(d, dir)
           left == Loose(d, dir) \cap stuck
           bare == removePackagedSources(e, dir, stuck)
           tidy == copyProjectIcon(bare, src, dir)
<1>1. ASSUME NEW p \in Under(bare, dir)
      PROVE  Len(p) = Len(dir) + 1 /\ (IsYodSource(p) => Last(p) \in HiddenNames \/ p \in left)
  <2>1. p \in Under(e, dir) /\ p \notin InDirs(e, dir) /\ p \notin Loose(e, dir) \ stuck
    BY DEF Under, removePackagedSources, Without
  <2>2. p \in Under(d, dir) /\ p \in Path /\ Below(dir, p)
    BY <2>1 DEF Under, RemoveRuntimeData, Without, IsDisk, FilePath
  <2>3. Len(dir) < Len(p) /\ Len(dir) \in Nat /\ Len(p) \in Nat
    BY <2>2, BelowParts
  <2>4. ~(Len(p) > Len(dir) + 1)
    BY <2>1 DEF InDirs
  <2>5. Len(p) = Len(dir) + 1
    BY <2>3, <2>4
  <2>6. Stays(Last(p)) \/ p \in left
    BY <2>1, <2>2, <2>5 DEF Loose
  <2>7. ASSUME IsYodSource(p), Stays(Last(p)) PROVE Last(p) \in HiddenNames
    BY <2>7, NamesAssumption DEF Stays, IsYodSource
  <2> QED BY <2>5, <2>6, <2>7
<1>2. Shallow(bare, dir, {}) /\ Tidied(bare, dir, left)
  BY <1>1 DEF Shallow, Tidied
<1> HIDE DEF bare, left
<1>3. Shallow(tidy, dir, {}) /\ Tidied(tidy, dir, left)
  BY <1>2, IconShallow, IconTidied
<1> HIDE DEF tidy
<1>4. \A root : /\ Shallow(copyProjectIcon(tidy, root, dir), dir, {})
                /\ Tidied(copyProjectIcon(tidy, root, dir), dir, left)
  BY <1>3, IconShallow, IconTidied
<1> QED BY <1>3, <1>4 DEF PrepareBinaryDist, tidy, bare, left

\* What lies directly in a directory is in no directory of data.
LEMMA ShallowNoData ==
    ASSUME NEW dir \in Path, NEW p \in Path, Below(dir, p), Len(p) = Len(dir) + 1
    PROVE  NoData(After(dir, p))
<1>1. Len(After(dir, p)) = Len(p) - Len(dir) /\ Len(dir) \in Nat
  BY AfterAt, BelowParts
<1>2. Len(After(dir, p)) = 1
  BY <1>1
<1>3. 1 .. Len(After(dir, p)) - 1 = {}
  BY <1>2
<1> QED BY <1>3 DEF NoData

\* What a walk comes to is not.
LEMMA WalkedNoData ==
    ASSUME NEW dir \in Path, NEW p \in Path, Walked(dir, p)
    PROVE  NoData(After(dir, p))
<1> DEFINE k == Len(dir)
           l == Len(p)
           r == After(dir, p)
<1>1. Below(dir, p) /\ \A n \in k + 1 .. l - 1 : ~isRuntimeDataDir(p[n])
  BY DEF Walked
<1>2. k \in Nat /\ l \in Nat /\ k < l /\ Len(r) = l - k /\ \A i \in 1 .. l - k : r[i] = p[k + i]
  BY <1>1, AfterAt, BelowParts
<1> HIDE DEF k, l, r
<1>3. ASSUME NEW n \in 1 .. Len(r) - 1 PROVE ~isRuntimeDataDir(r[n])
  <2>1. n \in 1 .. l - k /\ k + n \in k + 1 .. l - 1
    BY <1>2
  <2> QED BY <1>1, <1>2, <2>1
<1> QED BY <1>3 DEF NoData, r

\* Nor in the design directory of a distribution.
LEMMA DesignNoData ==
    ASSUME NEW dir \in Path, NEW r \in Path, r # <<>>, NoData(r)
    PROVE  NoData(After(dir, Append(dir, Design) \o r)) /\ NoData(<<Design>> \o r)
<1> DEFINE in == Append(dir, Design)
           p  == in \o r
           k  == Len(dir)
           m  == Len(r)
<1>1. /\ dir \in Seq(Names) /\ r \in Seq(Names) /\ k \in Nat /\ m \in Nat /\ m >= 1
      /\ in \in Seq(Names) /\ Len(in) = k + 1 /\ in[k + 1] = Design /\ in \in Path /\ Design \in Names
  <2>1. m >= 1
    BY EmptySeq, LenProperties DEF Path
  <2>2. dir \in Seq(Names) /\ Design \in Names
    BY NamesAssumption DEF Path
  <2>3. in \in Seq(Names) /\ Len(in) = k + 1 /\ in[k + 1] = Design
    BY <2>2, AppendProperties
  <2> QED BY <2>1, <2>2, <2>3, LenProperties DEF Path
<1>2. p \in Seq(Names) /\ Len(p) = k + 1 + m
  BY <1>1, ConcatProperties
<1>3. ASSUME NEW n \in k + 1 .. Len(p) - 1 PROVE ~isRuntimeDataDir(p[n])
  <2>1. CASE n = k + 1
    <3>1. n \in 1 .. Len(in) + Len(r) /\ n <= Len(in)
      BY <1>1, <2>1
    <3>2. p[n] = in[n]
      BY <1>1, <3>1, ConcatProperties
    <3> QED BY <1>1, <2>1, <3>2, NamesAssumption DEF isRuntimeDataDir
  <2>2. CASE n # k + 1
    <3>1. n \in 1 .. Len(in) + Len(r) /\ ~(n <= Len(in)) /\ n - Len(in) \in 1 .. Len(r) - 1
      BY <1>1, <1>2, <2>2
    <3>2. p[n] = r[n - Len(in)]
      BY <1>1, <3>1, ConcatProperties
    <3> QED BY <3>1, <3>2 DEF NoData
  <2> QED BY <2>1, <2>2
<1>4. Below(dir, p)
  <2>1. Below(in, p)
    <3> HIDE DEF in
    <3> QED BY <1>1, BelowConcat
  <2> QED BY <1>1, <1>2, <2>1, BelowInside DEF Path
<1>5. NoData(After(dir, p))
  <2> HIDE DEF p
  <2> QED BY <1>2, <1>3, <1>4, WalkedNoData DEF Walked, Path
<1>6. NoData(<<Design>> \o r)
  <2>1. <<Design>> \in Seq(Names) /\ Len(<<Design>>) = 1 /\ <<Design>>[1] = Design
    BY <1>1
  <2> DEFINE q == <<Design>> \o r
  <2>2. Len(q) = 1 + m
    BY <1>1, <2>1, ConcatProperties
  <2>3. ASSUME NEW n \in 1 .. Len(q) - 1 PROVE ~isRuntimeDataDir(q[n])
    <3>1. CASE n = 1
      <4>1. n \in 1 .. Len(<<Design>>) + Len(r) /\ n <= Len(<<Design>>)
        BY <1>1, <2>1, <3>1
      <4>2. q[n] = <<Design>>[n]
        BY <1>1, <2>1, <4>1, ConcatProperties
      <4> QED BY <2>1, <3>1, <4>2, NamesAssumption DEF isRuntimeDataDir
    <3>2. CASE n # 1
      <4>1. n \in 1 .. Len(<<Design>>) + Len(r) /\ ~(n <= Len(<<Design>>))
            /\ n - Len(<<Design>>) \in 1 .. Len(r) - 1
        BY <1>1, <2>1, <2>2, <3>2
      <4>2. q[n] = r[n - Len(<<Design>>)]
        BY <1>1, <2>1, <4>1, ConcatProperties
      <4> QED BY <4>1, <4>2 DEF NoData
    <3> QED BY <3>1, <3>2
  <2> QED BY <2>3 DEF NoData
<1> QED BY <1>5, <1>6

\* Below dir, nothing is in a directory of data.
NoneOfData(d, dir) == \A p \in Under(d, dir) : NoData(After(dir, p))

LEMMA ShallowNoneOfData ==
    ASSUME NEW d, IsDisk(d), NEW dir \in Path, Shallow(d, dir, {}) PROVE NoneOfData(d, dir)
  BY ShallowNoData DEF Shallow, NoneOfData, Under, IsDisk, FilePath

LEMMA WithoutNoneOfData ==
    ASSUME NEW d, NEW dir, NoneOfData(d, dir), NEW gone PROVE NoneOfData(Without(d, gone), dir)
  BY DEF NoneOfData, Under, Without

LEMMA OverNoneOfData ==
    ASSUME NEW d, NEW dir, NoneOfData(d, dir), NEW files, \A p \in DOMAIN files : NoData(After(dir, p))
    PROVE  NoneOfData(Over(files, d), dir)
  BY DEF NoneOfData, Under, Over, Has

LEMMA PutNoneOfData ==
    ASSUME NEW d, NEW dir \in Path, NoneOfData(d, dir), NEW name \in Names, NEW data
    PROVE  NoneOfData(Put(d, Append(dir, name), data), dir)
<1>1. NoData(After(dir, Append(dir, name)))
  <2>1. Append(dir, name) \in Path /\ Below(dir, Append(dir, name))
    BY BelowAppend DEF FilePath
  <2>2. Len(Append(dir, name)) = Len(dir) + 1
    BY AppendProperties DEF Path
  <2> QED BY <2>1, <2>2, ShallowNoData
<1> QED BY <1>1 DEF NoneOfData, Under, Put

\* What a walk comes to, put into a distribution.
LEMMA WalkedMoved ==
    ASSUME NEW root \in Path, NEW dir \in Path, NEW q \in Path, Walked(root, q)
    PROVE  /\ After(root, q) \in Path /\ After(root, q) # <<>> /\ NoData(After(root, q))
           /\ NoData(After(dir, dir \o After(root, q)))
           /\ NoData(After(dir, Append(dir, Design) \o After(root, q)))
           /\ NoData(<<Design>> \o After(root, q))
<1>1. After(root, q) \in FilePath
  BY Moved DEF Walked
<1>2. After(root, q) \in Path /\ After(root, q) # <<>> /\ NoData(After(root, q))
  BY <1>1, WalkedNoData DEF FilePath
<1>3. After(dir, dir \o After(root, q)) = After(root, q)
  BY <1>2, AfterConcat
<1> QED BY <1>2, <1>3, DesignNoData

\* The sources, the assets and the design directory hold no data.
LEMMA CleanNoData ==
    ASSUME NEW d, IsDisk(d), NEW dir \in Path, Shallow(d, dir, {}), NEW src \in FilePath
    PROVE  NoneOfData(PrepareCleanProjectDist(d, src, dir), dir)
<1> DEFINE root    == RootOf(d, src)
           sibling == SiblingDesign(root)
           inside  == Append(dir, Design)
           files   == [p \in {dir \o After(root, q) : q \in ProjectFiles(d, root)} |->
                         Packed(p, d[root \o After(dir, p)])]
           copied  == Over(files, RemoveRuntimeData(d, dir))
           bare    == Without(copied, Under(copied, inside))
           design  == [p \in {inside \o After(sibling, q) : q \in SharedFiles(d, root)} |->
                         d[sibling \o After(inside, p)]]
           renewed == IF IsFolder(d, sibling) THEN Over(design, bare) ELSE copied
<1>1. root \in Path /\ sibling \in Path
  BY RootAbove, SiblingPath
<1>2. \A p \in DOMAIN files : NoData(After(dir, p))
  <2>1. ASSUME NEW q \in ProjectFiles(d, root) PROVE NoData(After(dir, dir \o After(root, q)))
    <3>1. q \in Path /\ Walked(root, q)
      BY DEF ProjectFiles, IsDisk, FilePath
    <3> HIDE DEF root
    <3> QED BY <1>1, <3>1, WalkedMoved
  <2> QED BY <2>1
<1>3. \A p \in DOMAIN design : NoData(After(dir, p))
  <2>1. ASSUME NEW q \in SharedFiles(d, root) PROVE NoData(After(dir, inside \o After(sibling, q)))
    <3>1. q \in Path /\ Walked(sibling, q)
      BY DEF SharedFiles, IsDisk, FilePath
    <3> HIDE DEF root, sibling
    <3> QED BY <1>1, <3>1, WalkedMoved
  <2> QED BY <2>1
<1> HIDE DEF files, design
<1>4. NoneOfData(copied, dir)
  BY <1>2, ShallowNoneOfData, WithoutNoneOfData, OverNoneOfData DEF RemoveRuntimeData
<1> HIDE DEF copied
<1>5. NoneOfData(renewed, dir)
  <2>1. NoneOfData(bare, dir)
    BY <1>4, WithoutNoneOfData
  <2> QED BY <1>3, <1>4, <2>1, OverNoneOfData
<1> HIDE DEF renewed
<1>6. NoneOfData(RemoveRuntimeData(renewed, dir), dir)
  BY <1>5, WithoutNoneOfData DEF RemoveRuntimeData
<1> QED BY <1>6 DEF PrepareCleanProjectDist, renewed, copied, files, design

\* Nor does a bundle of modules, assets and the design directory.
LEMMA BundleHasNoData ==
    ASSUME NEW d, IsDisk(d), NEW src \in FilePath,
           \A key \in DOMAIN Collects(d, src).files : IsYodSource(key)
    PROVE  \A key \in DOMAIN CollectBundle(d, src).files : IsYodSource(key) \/ NoData(key)
<1> DEFINE root    == RootOf(d, src)
           sibling == SiblingDesign(root)
           assets  == [k \in {After(root, p) : p \in {q \in ProjectFiles(d, root) : isProjectAsset(After(root, q))}} |->
                         d[root \o k]]
           shared  == [k \in {<<Design>> \o After(sibling, p) : p \in SharedFiles(d, root)} |->
                         Packed(k, d[sibling \o Tail(k)])]
           modules == Collects(d, src)
<1>1. root \in Path /\ sibling \in Path
  BY RootAbove, SiblingPath
<1>2. \A k \in DOMAIN assets : NoData(k)
  <2>1. ASSUME NEW q \in ProjectFiles(d, root) PROVE NoData(After(root, q))
    <3>1. q \in Path /\ Walked(root, q)
      BY DEF ProjectFiles, IsDisk, FilePath
    <3> HIDE DEF root
    <3> QED BY <1>1, <3>1, WalkedNoData
  <2> QED BY <2>1
<1>3. \A k \in DOMAIN shared : NoData(k)
  <2>1. ASSUME NEW q \in SharedFiles(d, root) PROVE NoData(<<Design>> \o After(sibling, q))
    <3>1. q \in Path /\ Walked(sibling, q)
      BY DEF SharedFiles, IsDisk, FilePath
    <3> HIDE DEF root, sibling
    <3> QED BY <1>1, <3>1, WalkedMoved
  <2> QED BY <2>1
<1>4. CollectBundle(d, src).files = Over(modules.files, Over(assets, shared))
  BY DEF CollectBundle
<1> HIDE DEF assets, shared, modules
<1>5. DOMAIN Over(modules.files, Over(assets, shared)) = DOMAIN modules.files \cup (DOMAIN assets \cup DOMAIN shared)
  BY DEF Over
<1> QED BY <1>2, <1>3, <1>4, <1>5 DEF modules

-----------------------------------------------------------------------------
(* Clean distributions *)

\* The directory the packing under way writes into.
Target ==
    CASE cmd.at = "engine" -> Front(ExePath(cmd.src, cmd.out))
      [] cmd.at \in {"icon", "bundle", "beside", "tidy"} -> Front(cmd.out)
      [] OTHER -> cmd.out

\* The user neither packs above or below a distribution nor carries an executable
\* into one.
DistsApart ==
    /\ cmd.at # "idle" => \A dir \in fresh : ~Below(dir, Target) /\ ~Below(Target, dir)
    /\ \A dir \in fresh : ~IsPrefix(dir, Elsewhere)

\* The files a packed program includes have names of sources.
ModulesAreSources ==
    cmd.at = "bundle" => \A key \in DOMAIN Collects(disk, cmd.src).files : IsYodSource(key)

\* Every packed executable is what it was.
NoNewPacked(d, e) == \A p \in DOMAIN e : IsPacked(e[p]) => p \in DOMAIN d /\ d[p] = e[p]

\* The programs the user runs pack nothing and put nothing into a distribution
\* but their own.
ProgramsLeaveDists ==
    \A p \in DOMAIN disk : RunExe(p) \/ RunFolder(p) =>
        NoNewPacked(disk, disk') /\ \A dir \in fresh' : Fewer(disk, disk', dir)

\* A packing under way leaves the distributions that are finished alone; the
\* directory of a folder was cleared, and has got none but the first files.
DistInv ==
    /\ fresh \subseteq OrderPlaces
    /\ CleanDist
    /\ ExesSound(disk)
    /\ cmd.at \in {"icon", "bundle"} => cmd.src \in FilePath
    /\ cmd.at \in {"icon", "bundle", "beside", "tidy"} => Front(cmd.out) \notin fresh
    /\ cmd.at \in {"app", "sources"} => cmd.out \notin fresh
    /\ cmd.at = "app" => Under(disk, cmd.out) = {}
    /\ cmd.at = "sources" =>
          Shallow(disk, cmd.out, {}) /\ \A p \in Under(disk, cmd.out) : ~IsPacked(disk[p])

LEMMA DistInit == ASSUME OldExesSound, Init PROVE DistInv
  BY DEF Init, OldExesSound, DistInv, CleanDist, Idle

LEMMA SoundKept == ASSUME NEW d, NEW e, ExesSound(d), NoNewPacked(d, e) PROVE ExesSound(e)
  BY DEF ExesSound, NoNewPacked

LEMMA PutSound ==
    ASSUME NEW d, ExesSound(d), NEW p, NEW data,
           IsPacked(data) => Front(p) \in AllPlaces /\ Last(p) \in Range(ExeOf) /\ BundleClean(data)
    PROVE  ExesSound(Put(d, p, data))
  BY DEF ExesSound, Put

\* What makes no executable of any kind packs nothing.
LEMMA PackedFew ==
    ASSUME DistInv, \A K : AreExes(K) /\ Placed(disk, K) => NoneNew(disk, disk', K)
    PROVE  NoNewPacked(disk, disk')
<1> DEFINE at == {p \in DOMAIN disk' : IsPacked(disk'[p])}
           K  == {disk'[p] : p \in at}
<1>1. \A x \in K : IsPacked(x)
  OBVIOUS
<1>2. \A p \in at : p \in Holds(disk', K)
  BY DEF Holds
<1> HIDE DEF K
<1>3. AreExes(K)
  BY <1>1 DEF AreExes, IsPacked
<1>4. Placed(disk, K)
  BY <1>1 DEF Placed, Holds, DistInv, ExesSound
<1>5. NoneNew(disk, disk', K)
  BY <1>3, <1>4
<1>6. ASSUME NEW p \in at PROVE p \in DOMAIN disk /\ disk[p] = disk'[p]
  BY <1>2, <1>5, <1>6 DEF NoneNew, Own, IsEngine, IsPacked
<1> QED BY <1>6 DEF NoNewPacked

\* A distribution nothing comes to stays clean.
LEMMA CleanStays ==
    ASSUME DistInv,
           \A dir \in fresh' : /\ dir \in fresh /\ Fewer(disk, disk', dir)
                               /\ kept \cap Under(disk', dir) \subseteq kept'
    PROVE  CleanDist' /\ fresh' \subseteq OrderPlaces
<1>1. \A dir \in fresh' : IsClean(disk', kept', dir)
  BY FewerClean DEF DistInv, CleanDist
<1> QED BY <1>1 DEF CleanDist, DistInv

LEMMA CleanKept ==
    ASSUME DistInv, UNCHANGED kept, \A dir \in fresh' : dir \in fresh /\ Fewer(disk, disk', dir)
    PROVE  CleanDist' /\ fresh' \subseteq OrderPlaces
  BY CleanStays

\* What a packing writes into its target comes to no other distribution.
LEMMA OthersKept ==
    ASSUME PackingInv, DistInv, DistsApart, cmd.at # "idle", Target \in OrderPlaces,
           OnlyBelow(Target, disk, disk')
    PROVE  \A dir \in fresh \ {Target} : Fewer(disk, disk', dir)
<1> DEFINE aim == Target
<1>1. aim \in Path /\ IsDisk(disk)
  BY OrderPlace DEF PackingInv, PackingTypeOK
<1>2. ASSUME NEW dir \in fresh \ {aim} PROVE Fewer(disk, disk', dir)
  <2>1. dir \in Path /\ dir # aim /\ ~Below(aim, dir) /\ ~Below(dir, aim)
    BY OrderPlace DEF DistInv, DistsApart
  <2> HIDE DEF aim
  <2> QED BY <1>1, <2>1, OnlyFewer DEF aim
<1> QED BY <1>2

\* An error after the target was written.
LEMMA WithdrawDist ==
    ASSUME DistInv, Withdraw, UNCHANGED <<kept, fresh>> PROVE DistInv'
<1>1. \A dir \in fresh' : dir \in fresh /\ Fewer(disk, disk', dir)
  BY WithoutFewer DEF Withdraw, Fewer, Under
<1>2. ExesSound(disk')
  BY SoundKept DEF DistInv, NoNewPacked, Withdraw, Without
<1> QED BY <1>1, <1>2, CleanKept DEF DistInv, Withdraw, Ends, Idle

LEMMA EndsDist ==
    ASSUME DistInv, cmd' = Idle, UNCHANGED <<disk, kept, fresh>> PROVE DistInv'
  BY DEF DistInv, CleanDist, Idle

\* A step that takes no distribution for finished, while none is under way.
LEMMA IdleDist ==
    ASSUME DistInv, cmd.at = "idle", UNCHANGED <<cmd, kept>>, NoNewPacked(disk, disk'),
           \A dir \in fresh' : dir \in fresh /\ Fewer(disk, disk', dir)
    PROVE  DistInv'
  BY SoundKept, CleanKept DEF DistInv

LEMMA PackAppDist ==
    ASSUME PackingInv, DistInv, NEW o \in Orders, NEW folder \in BOOLEAN, packApp(o[1], o[2], folder)
    PROVE  DistInv'
<1> DEFINE src  == ResolveEntry(disk, o[1])[1]
           dist == OldDist(disk, src, o[2], folder)
           out  == FolderPath(src, o[2])
           next == [at |-> IF folder THEN "app" ELSE "engine", src |-> src,
                    out |-> IF folder THEN out ELSE o[2]]
<1>1. /\ ResolveEntry(disk, o[1]) # <<>> /\ IsYodSource(src)
      /\ clearOldPackDist(src, o[2], folder, next)
  BY DEF packApp
<1> DEFINE old  == IF dist = <<>> THEN {} ELSE Under(disk, dist) \ {running}
           goes == /\ cmd' = next /\ ~(running # <<>> /\ dist # <<>> /\ Below(dist, running))
                   /\ disk' = Without(disk, old)
                   /\ kept' = IF dist = <<>> THEN kept ELSE {p \in kept : ~Below(dist, p)}
<1>2. /\ \E gone : disk' = Without(disk, gone)
      /\ fresh' = fresh \ {dist}
      /\ (cmd' = Idle /\ kept \subseteq kept') \/ goes
  <2>1. fresh' = fresh \ {dist}
    BY <1>1 DEF clearOldPackDist
  <2>2. CASE goes
    BY <2>1, <2>2
  <2>3. CASE cmd' = Idle /\ \E part : disk' = Without(disk, part \cap old) /\ kept' = kept \cup (old \ part)
    <3> HIDE DEF old, dist, next, goes
    <3> QED BY <2>1, <2>3
  <2> QED BY <1>1, <2>2, <2>3 DEF clearOldPackDist
<1>3. ExesSound(disk')
  BY PackAppNone, PackedFew, SoundKept DEF DistInv
<1>4. ASSUME NEW dir \in fresh'
      PROVE  dir \in fresh /\ Fewer(disk, disk', dir) /\ kept \cap Under(disk', dir) \subseteq kept'
  <2>1. dir \in fresh /\ Fewer(disk, disk', dir)
    BY <1>2, WithoutFewer
  <2>2. ASSUME goes, NEW p \in kept \cap Under(disk', dir) PROVE p \in kept'
    <3>1. CASE dist = <<>>
      BY <2>2, <3>1
    <3>2. CASE dist # <<>>
      <4>1. p \in DOMAIN disk /\ p \notin old /\ p # <<>>
        BY <2>2 DEF Under, Without, PackingInv, PackingTypeOK, IsDisk, FilePath
      <4>2. ~Below(dist, p)
        BY <2>2, <3>2, <4>1 DEF Under
      <4> QED BY <2>2, <3>2, <4>2
    <3> QED BY <3>1, <3>2
  <2> QED BY <1>2, <2>1, <2>2
<1>5. CleanDist' /\ fresh' \subseteq OrderPlaces
  BY <1>4, CleanStays
<1>6. ASSUME folder PROVE dist = out /\ dist # <<>>
  <2>1. CASE o[2] = <<>>
    <3>1. DefaultDistDir(disk, src) # <<>>
      <4>1. src \in FilePath
        BY <1>1, SourceOf DEF ResolveEntry, Means
      <4>2. RootOf(disk, src) \in Path
        BY <4>1, RootAbove
      <4> QED BY <4>2, NamesAssumption, BelowAppend DEF DefaultDistDir, FilePath
    <3> QED BY <2>1, <3>1 DEF OldDist, FolderPath
  <2>2. CASE o[2] # <<>>
    BY <1>6, <2>2 DEF OldDist, FolderPath
  <2> QED BY <2>1, <2>2
<1> HIDE DEF src, dist, out
<1>7. CASE cmd' = Idle
  BY <1>3, <1>5, <1>7 DEF DistInv, Idle
<1>8. CASE goes
  <2>1. CASE folder
    <3>1. cmd'.at = "app" /\ cmd'.out = dist
      BY <1>6, <1>8, <2>1
    <3>2. Under(disk', dist) = {}
      <4>1. ASSUME NEW p \in Under(disk', dist) PROVE FALSE
        <5>1. p \in DOMAIN disk /\ Below(dist, p) /\ p = running
          BY <1>6, <1>8, <2>1 DEF Under, Without
        <5>2. p # <<>>
          BY <5>1 DEF PackingInv, PackingTypeOK, IsDisk, FilePath
        <5> QED BY <1>6, <1>8, <2>1, <5>1, <5>2
      <4> QED BY <4>1
    <3> QED BY <1>2, <1>3, <1>5, <3>1, <3>2 DEF DistInv
  <2>2. CASE ~folder
    <3>1. cmd'.at = "engine"
      BY <1>8, <2>2
    <3> QED BY <1>3, <1>5, <3>1 DEF DistInv
  <2> QED BY <2>1, <2>2
<1> QED BY <1>2, <1>7, <1>8

LEMMA WriteEngineDist == ASSUME PackingInv, DistInv, DistsApart, WriteEngine PROVE DistInv'
<1> DEFINE to == ExePath(cmd.src, cmd.out)
<1>1. PICK o \in Orders : Means(o, cmd.src) /\ cmd.out = o[2]
  BY DEF WriteEngine, PackingInv, Aimed
<1>2. InPlace(to) /\ cmd.src \in FilePath
  BY <1>1, ExeInPlace, SourceOf
<1>3. /\ cmd.at = "engine" /\ Target = Front(to) /\ cmd \in [at : Steps, src : Path, out : Path]
      /\ UNCHANGED kept
  BY DEF WriteEngine, Target, PackingInv, PackingTypeOK
<1>4. ASSUME disk' = Put(disk, to, Engine), fresh' = fresh \ {Front(to)}
      PROVE  CleanDist' /\ fresh' \subseteq OrderPlaces /\ ExesSound(disk')
  <2>1. OnlyBelow(Front(to), disk, disk')
    BY <1>2, <1>4, InPlaceBelow, PutBelow
  <2>2. \A dir \in fresh' : dir \in fresh /\ Fewer(disk, disk', dir)
    BY <1>2, <1>3, <1>4, <2>1, InPlaceBelow, OthersKept
  <2>3. ExesSound(disk')
    BY <1>4, PutSound DEF DistInv, IsPacked, Engine, Exe
  <2> QED BY <1>3, <2>2, <2>3, CleanKept
<1>5. CASE /\ disk' = Put(disk, to, Engine) /\ fresh' = fresh \ {Front(to)}
           /\ cmd' = [cmd EXCEPT !.at = "icon", !.out = to]
  <2>1. cmd'.at = "icon" /\ cmd'.out = to /\ cmd'.src = cmd.src
    BY <1>3, <1>5
  <2> QED BY <1>2, <1>4, <1>5, <2>1 DEF DistInv
<1>6. CASE disk' = Put(disk, to, Engine) /\ fresh' = fresh \ {Front(to)} /\ cmd' = Idle
  BY <1>4, <1>6 DEF DistInv, Idle
<1>7. CASE cmd' = Idle /\ UNCHANGED <<disk, fresh>>
  BY <1>3, <1>7, EndsDist
<1> QED BY <1>5, <1>6, <1>7 DEF WriteEngine, Ends

LEMMA ApplyIconDist == ASSUME PackingInv, DistInv, ApplyIcon PROVE DistInv'
<1>1. CASE GoesOn("bundle") /\ UNCHANGED disk
  <2>1. cmd' = [cmd EXCEPT !.at = "bundle"] /\ cmd.at = "icon" /\ UNCHANGED <<kept, fresh>>
        /\ cmd \in [at : Steps, src : Path, out : Path]
    BY <1>1 DEF GoesOn, ApplyIcon, PackingInv, PackingTypeOK
  <2>2. cmd'.at = "bundle" /\ cmd'.out = cmd.out /\ cmd'.src = cmd.src
    BY <2>1
  <2> QED BY <1>1, <2>1, <2>2 DEF DistInv, CleanDist
<1>2. CASE Withdraw
  BY <1>2, WithdrawDist DEF ApplyIcon
<1> QED BY <1>1, <1>2 DEF ApplyIcon

\* The place of the executable under way.
LEMMA ExeAim ==
    ASSUME PackingInv, cmd.at \in {"icon", "bundle", "beside", "tidy"}
    PROVE  Target = Front(cmd.out) /\ Target \in OrderPlaces /\ Target \in Path /\ InPlace(cmd.out)
  BY InPlaceBelow DEF PackingInv, Aimed, Target

LEMMA WriteBundleDist ==
    ASSUME PackingInv, EngineInv, DistInv, DistsApart, ModulesAreSources, WriteBundle
    PROVE  DistInv'
<1> DEFINE b    == CollectBundle(disk, cmd.src)
           data == Exe(<<[k |-> "bundle", entry |-> b.entry, files |-> b.files]>>,
                       Promise(disk, cmd.src, FALSE))
<1>1. /\ cmd.at = "bundle" /\ InPlace(cmd.out) /\ Last(cmd.out) \in Range(ExeOf) /\ cmd.src \in FilePath
      /\ UNCHANGED <<kept, fresh>> /\ Target = Front(cmd.out) /\ Target \in OrderPlaces
  BY ExeAim DEF WriteBundle, EngineInv, DistInv
<1>2. CASE GoesOn("beside") /\ disk' = Put(disk, cmd.out, data)
  <2>1. cmd'.at = "beside" /\ cmd'.out = cmd.out
    BY <1>2 DEF GoesOn, PackingInv, PackingTypeOK
  <2>2. OnlyBelow(Target, disk, disk')
    BY <1>1, <1>2, InPlaceBelow, PutBelow
  <2>3. \A dir \in fresh' : dir \in fresh /\ Fewer(disk, disk', dir)
    BY <1>1, <2>2, OthersKept DEF DistInv
  <2>4. BundleClean(data)
    <3>1. \A key \in DOMAIN b.files : IsYodSource(key) \/ NoData(key)
      BY <1>1, BundleHasNoData DEF ModulesAreSources, PackingInv, PackingTypeOK
    <3>2. data.behind[1].files = b.files
      BY DEF Exe
    <3> HIDE DEF b, data
    <3> QED BY <3>1, <3>2 DEF BundleClean
  <2>5. ExesSound(disk')
    <3> HIDE DEF data
    <3> QED BY <1>1, <1>2, <2>4, InPlaceBelow, PutSound DEF DistInv
  <2> QED BY <1>1, <2>1, <2>3, <2>5, CleanKept DEF DistInv
<1>3. CASE cmd' = Idle /\ UNCHANGED disk
  BY <1>1, <1>3, EndsDist
<1>4. CASE Withdraw
  BY <1>1, <1>4, WithdrawDist
<1> QED BY <1>2, <1>3, <1>4 DEF WriteBundle, Ends

LEMMA WriteBesideDist == ASSUME PackingInv, DistInv, DistsApart, WriteBeside PROVE DistInv'
<1> DEFINE dir  == Front(cmd.out)
           with == Put(disk, Append(dir, "manifest"), Asset("manifest"))
<1>1. /\ cmd.at = "beside" /\ disk' = copyProjectIcon(with, cmd.src, dir) /\ UNCHANGED <<kept, fresh>>
      /\ cmd'.at = "tidy" /\ cmd'.out = cmd.out
  BY DEF WriteBeside, GoesOn, PackingInv, PackingTypeOK, historyVars
<1>2. Target = dir /\ dir \in OrderPlaces /\ dir \in Path /\ dir \notin fresh
  BY <1>1, ExeAim DEF DistInv
<1> HIDE DEF dir
<1>3. OnlyBelow(dir, disk, with)
  BY <1>2, NamesAssumption, PutIn
<1>4. OnlyBelow(dir, disk, disk')
  BY <1>1, <1>2, <1>3, IconBelow, OnlyBelowTwice
<1>5. \A old \in fresh' : old \in fresh /\ Fewer(disk, disk', old)
  BY <1>1, <1>2, <1>4, OthersKept
<1>6. ExesSound(disk')
  BY WriteBesideNone, PlacedCalled, PackedFew, SoundKept DEF DistInv
<1> QED BY <1>1, <1>2, <1>5, <1>6, CleanKept DEF DistInv, dir

LEMMA TidyDistDist == ASSUME PackingInv, DistInv, DistsApart, TidyDist PROVE DistInv'
<1> DEFINE dir   == Front(cmd.out)
           loose == Loose(disk, dir)
           all   == InDirs(disk, dir) \cup loose
<1>1. cmd.at = "tidy" /\ cmd' = Idle
  BY DEF TidyDist, Ends
<1>2. Target = dir /\ dir \in OrderPlaces /\ dir \in Path /\ dir \notin fresh /\ IsDisk(disk)
  BY <1>1, ExeAim DEF DistInv, PackingInv, PackingTypeOK
<1>3. ExesSound(disk')
  BY TidyDistNone, PlacedCalled, PackedFew, SoundKept DEF DistInv
<1>4. CASE \E stuck : /\ disk' = PrepareBinaryDist(disk, cmd.src, dir, stuck)
                      /\ kept' = {p \in kept : ~Below(dir, p)} \cup (loose \cap stuck)
                      /\ fresh' = fresh \cup {dir}
  <2> HIDE DEF dir
  <2>1. PICK stuck : /\ disk' = PrepareBinaryDist(disk, cmd.src, dir, stuck)
                     /\ kept' = {p \in kept : ~Below(dir, p)} \cup (loose \cap stuck)
                     /\ fresh' = fresh \cup {dir}
    BY <1>4
  <2>2. OnlyBelow(dir, disk, disk') /\ IsDisk(disk')
    BY <1>2, <2>1, BinaryBelow, OnlyBelowDisk
  <2>3. ASSUME NEW old \in fresh PROVE IsClean(disk', kept', old)
    <3>1. Fewer(disk, disk', old)
      BY <1>1, <1>2, <2>2, OthersKept
    <3>2. ASSUME NEW p \in kept \cap Under(disk', old) PROVE p \in kept'
      <4>1. p \in Path /\ Below(old, p)
        BY <2>2 DEF Under, IsDisk, FilePath
      <4>2. old \in Path /\ old # dir /\ ~Below(dir, old) /\ ~Below(old, dir)
        BY <1>1, <1>2, OrderPlace DEF DistInv, DistsApart
      <4>3. ~Below(dir, p)
        BY <1>2, <4>1, <4>2, Comparable
      <4> QED BY <2>1, <4>3
    <3> QED BY <3>1, <3>2, FewerClean DEF DistInv, CleanDist
  <2>4. Shallow(disk', dir, {}) /\ Tidied(disk', dir, kept')
    <3>1. Shallow(disk', dir, {}) /\ Tidied(disk', dir, loose \cap stuck)
      BY <1>2, <2>1, BinaryShallow
    <3> QED BY <2>1, <3>1 DEF Tidied
  <2>5. ASSUME NEW p \in Under(disk', dir)
        PROVE  /\ NoData(After(dir, p)) /\ Front(p) = dir
               /\ IsPacked(disk'[p]) => BundleClean(disk'[p])
    <3>1. p \in DOMAIN disk' /\ p \in Path /\ Below(dir, p) /\ Len(p) = Len(dir) + 1
      BY <2>2, <2>4 DEF Under, IsDisk, FilePath, Shallow
    <3>2. NoData(After(dir, p))
      BY <1>2, <3>1, ShallowNoData
    <3>3. Front(p) = dir
      BY <1>2, <3>1, BelowParts DEF Front
    <3> QED BY <1>3, <3>1, <3>2, <3>3 DEF ExesSound
  <2>6. IsClean(disk', kept', dir)
    BY <2>4, <2>5 DEF IsClean, Tidied
  <2>7. CleanDist'
    BY <2>1, <2>3, <2>6 DEF CleanDist
  <2> QED BY <1>1, <1>2, <1>3, <2>1, <2>7 DEF DistInv, Idle
<1>5. CASE /\ \E part : disk' = Without(disk, part \cap all) /\ kept' = kept \cup (all \ part)
           /\ UNCHANGED fresh
  <2> HIDE DEF all
  <2>1. \A old \in fresh' : /\ old \in fresh /\ Fewer(disk, disk', old)
                            /\ kept \cap Under(disk', old) \subseteq kept'
    BY <1>5, WithoutFewer
  <2> QED BY <1>1, <1>3, <2>1, CleanStays DEF DistInv, Idle
<1>6. CASE UNCHANGED <<disk, kept, fresh>>
  BY <1>1, <1>6, EndsDist
<1> QED BY <1>4, <1>5, <1>6 DEF TidyDist

\* The place of the folder under way.
LEMMA FolderAim ==
    ASSUME PackingInv, DistInv, cmd.at \in {"app", "sources"}
    PROVE  /\ Target = cmd.out /\ cmd.out \in OrderPlaces /\ cmd.out \in Path /\ cmd.out \notin fresh
           /\ cmd.src \in FilePath /\ IsDisk(disk)
  BY OrderPlace DEF PackingInv, PackingTypeOK, Aimed, Target, DistInv

LEMMA AppDist == ASSUME PackingInv, EngineInv, DistInv, DistsApart, App PROVE DistInv'
<1> DEFINE dir     == cmd.out
           started == Started(disk, cmd.src, dir)
           marked  == copyProjectIcon(started, cmd.src, dir)
<1>1. cmd.at = "app" /\ IsYodSource(cmd.src) /\ UNCHANGED <<kept, fresh>>
  BY DEF App, EngineInv, historyVars
<1>2. Target = dir /\ dir \in OrderPlaces /\ dir \in Path /\ dir \notin fresh /\ cmd.src \in FilePath
      /\ Under(disk, dir) = {}
  BY <1>1, FolderAim DEF DistInv
<1>3. NoNewPacked(disk, disk')
  BY <1>1, <1>2, AppNone, PlacedCalled, PackedFew
<1>4. CASE disk' = Put(marked, Append(dir, "readme"), Asset("readme")) /\ GoesOn("sources")
  <2>1. cmd'.at = "sources" /\ cmd'.out = dir
    BY <1>4 DEF GoesOn, PackingInv, PackingTypeOK
  <2> HIDE DEF dir
  <2>2. OnlyBelow(dir, disk, marked)
    BY <1>2, StartedBelow, IconBelow, OnlyBelowTwice
  <2>3. Shallow(marked, dir, {})
    BY <1>2, StartedShallow, IconShallow
  <2> HIDE DEF marked
  <2>4. OnlyBelow(dir, disk, disk')
    BY <1>2, <1>4, <2>2, NamesAssumption, PutIn, OnlyBelowTwice
  <2>5. Shallow(disk', dir, {})
    BY <1>2, <1>4, <2>3, NamesAssumption, PutShallow
  <2>6. \A p \in Under(disk', dir) : ~IsPacked(disk'[p])
    BY <1>2, <1>3 DEF NoNewPacked, Under
  <2>7. \A old \in fresh' : old \in fresh /\ Fewer(disk, disk', old)
    BY <1>1, <1>2, <2>4, OthersKept
  <2> QED BY <1>1, <1>2, <1>3, <2>1, <2>5, <2>6, <2>7, CleanKept, SoundKept DEF DistInv
<1>5. CASE cmd' = Idle /\ UNCHANGED disk
  BY <1>1, <1>5, EndsDist
<1> QED BY <1>4, <1>5 DEF App, Ends

LEMMA CopySourcesDist ==
    ASSUME EnginesApart, PackingInv, DistInv, DistsApart, CopySources PROVE DistInv'
<1> DEFINE dir   == cmd.out
           clean == PrepareCleanProjectDist(disk, cmd.src, dir)
<1>1. cmd.at = "sources" /\ cmd' = Idle /\ UNCHANGED kept
  BY DEF CopySources, Ends
<1>2. /\ Target = dir /\ dir \in OrderPlaces /\ dir \in Path /\ dir \notin fresh /\ cmd.src \in FilePath
      /\ Shallow(disk, dir, {}) /\ (\A p \in Under(disk, dir) : ~IsPacked(disk[p])) /\ IsDisk(disk)
  BY <1>1, FolderAim DEF DistInv
<1>3. NoNewPacked(disk, disk')
  BY CopySourcesNone, PackedFew
<1>4. CASE (\E data : disk' = Put(clean, Append(dir, "run.bat"), data)) /\ fresh' = fresh \cup {dir}
  <2> HIDE DEF dir
  <2>1. OnlyBelow(dir, disk, clean) /\ NoneOfData(clean, dir)
    BY <1>2, CleanBelow, CleanNoData
  <2> HIDE DEF clean
  <2>2. OnlyBelow(dir, disk, disk')
    BY <1>2, <1>4, <2>1, NamesAssumption, PutIn, OnlyBelowTwice
  <2>3. NoneOfData(disk', dir)
    BY <1>2, <1>4, <2>1, NamesAssumption, PutNoneOfData
  <2>4. \A p \in Under(disk', dir) : ~IsPacked(disk'[p])
    BY <1>2, <1>3 DEF NoNewPacked, Under
  <2>5. IsClean(disk', kept', dir)
    BY <2>3, <2>4 DEF IsClean, NoneOfData
  <2>6. \A old \in fresh : Fewer(disk, disk', old)
    BY <1>1, <1>2, <2>2, OthersKept
  <2>7. \A old \in fresh : IsClean(disk', kept', old)
    BY <1>1, <2>6, FewerClean DEF DistInv, CleanDist
  <2>8. CleanDist'
    BY <1>4, <2>5, <2>7 DEF CleanDist
  <2> QED BY <1>1, <1>2, <1>3, <1>4, <2>8, SoundKept DEF DistInv, Idle
<1>5. CASE UNCHANGED <<disk, fresh>>
  BY <1>1, <1>5, EndsDist
<1> QED BY <1>1, <1>4, <1>5 DEF CopySources

LEMMA CarryDist ==
    ASSUME PackingInv, DistInv, DistsApart, NEW exe \in DOMAIN disk, Carry(exe) PROVE DistInv'
<1> DEFINE to == Append(Elsewhere, Last(exe))
<1>1. /\ disk' = Put(disk, to, disk[exe]) /\ IsPacked(disk[exe])
      /\ UNCHANGED <<cmd, kept, fresh>> /\ cmd.at = "idle"
  BY DEF Carry, Give, Idle
<1>2. Last(exe) \in Names /\ Elsewhere \in Path
  BY FrontOf, PackingAssumption DEF PackingInv, PackingTypeOK, IsDisk
<1>3. Front(to) = Elsewhere /\ Last(to) = Last(exe)
  BY <1>2, BelowAppend, LastOfAppend
<1>4. ASSUME NEW dir \in fresh PROVE Fewer(disk, disk', dir)
  <2>1. ~Below(dir, to)
    BY <1>2, BelowInto, OrderPlace DEF DistsApart, DistInv
  <2> HIDE DEF to
  <2> QED BY <1>1, <2>1 DEF Fewer, Under, Put
<1>5. ExesSound(disk')
  <2>1. Last(exe) \in Range(ExeOf) /\ BundleClean(disk[exe]) /\ Elsewhere \in AllPlaces
    BY <1>1 DEF DistInv, ExesSound, AllPlaces
  <2> HIDE DEF to
  <2> QED BY <1>1, <1>3, <2>1, PutSound DEF DistInv
<1> QED BY <1>1, <1>4, <1>5, CleanKept DEF DistInv

LEMMA EditDist ==
    ASSUME PackingInv, DistInv, NEW path \in DOMAIN mine, NEW text \in Texts, Edit(path, text) PROVE DistInv'
<1>1. disk' = Put(disk, path, text) /\ UNCHANGED <<cmd, kept, fresh>> /\ cmd.at = "idle"
  BY DEF Edit, Give, Idle
<1>2. NoNewPacked(disk, disk')
  BY EditNone, PackedFew
<1>3. ASSUME NEW dir \in fresh PROVE Fewer(disk, disk', dir)
  <2>1. ~Below(dir, path)
    BY OrderPlace DEF DistInv, PackingInv, MineApart
  <2> QED BY <1>1, <2>1 DEF Fewer, Under, Put
<1> QED BY <1>1, <1>2, <1>3, IdleDist

LEMMA PkgAddDist ==
    ASSUME PlacesApart, EnginesApart, PackingInv, DistInv, NEW from \in Parcels, pkgAdd(from[1], from[2])
    PROVE  DistInv'
<1>1. UNCHANGED <<cmd, kept, fresh>> /\ cmd.at = "idle"
  BY DEF pkgAdd, Give, Idle
<1>2. NoNewPacked(disk, disk')
  BY PkgAddNone, PackedFew
<1>3. \A dir \in fresh : Fewer(disk, disk', dir)
  BY PkgAddStep, OrderPlace DEF DistInv
<1> QED BY <1>1, <1>2, <1>3, IdleDist

LEMMA DistStep ==
    ASSUME PlacesApart, EnginesApart, PackingInv, EngineInv, DistInv, DistsApart, ModulesAreSources,
           [Next]_vars, ProgramsLeaveDists
    PROVE  DistInv'
<1>1. ASSUME NEW o \in Orders, NEW folder \in BOOLEAN, packApp(o[1], o[2], folder) PROVE DistInv'
  BY <1>1, PackAppDist
<1>2. CASE Packing
  BY <1>2, WriteEngineDist, ApplyIconDist, WriteBundleDist, WriteBesideDist, TidyDistDist, AppDist,
     CopySourcesDist DEF Packing
<1>3. ASSUME NEW p \in DOMAIN disk, RunExe(p) \/ RunFolder(p) PROVE DistInv'
  <2>1. cmd.at = "idle" /\ UNCHANGED <<cmd, kept>> /\ fresh' \subseteq fresh
    BY <1>3 DEF RunExe, RunFolder, Give, Idle
  <2>2. NoNewPacked(disk, disk') /\ \A dir \in fresh' : Fewer(disk, disk', dir)
    BY <1>3 DEF ProgramsLeaveDists
  <2> QED BY <2>1, <2>2, IdleDist
<1>4. ASSUME NEW p \in DOMAIN disk, Carry(p) PROVE DistInv'
  BY <1>4, CarryDist
<1>5. CASE Close
  BY <1>5 DEF Close, historyVars, DistInv, CleanDist
<1>6. ASSUME NEW p \in DOMAIN mine, NEW text \in Texts, Edit(p, text) PROVE DistInv'
  BY <1>6, EditDist
<1>7. ASSUME NEW from \in Parcels, pkgAdd(from[1], from[2]) PROVE DistInv'
  BY <1>7, PkgAddDist
<1>8. CASE UNCHANGED vars
  BY <1>8 DEF vars, historyVars, DistInv, CleanDist
<1> QED BY <1>1, <1>2, <1>3, <1>4, <1>5, <1>6, <1>7, <1>8 DEF Next

\* Orders whose places are not nested keep distributions apart.
LEMMA OrdersApart ==
    ASSUME PlacesNotNested, PackingInv, DistInv PROVE DistsApart
<1>1. ASSUME cmd.at # "idle" PROVE Target \in OrderPlaces
  <2>1. CASE cmd.at = "engine"
    BY <2>1, ExeInPlace DEF PackingInv, Aimed, Target, InPlace
  <2>2. CASE cmd.at \in {"icon", "bundle", "beside", "tidy"}
    BY <2>2, ExeAim
  <2>3. CASE cmd.at \in {"app", "sources"}
    BY <2>3, FolderAim
  <2> QED BY <1>1, <2>1, <2>2, <2>3 DEF PackingInv, PackingTypeOK, Steps
<1> QED BY <1>1 DEF PlacesNotNested, DistsApart, DistInv

-----------------------------------------------------------------------------
(* The theorems *)

\* The programs the user runs leave files where files can be.
ProgramsLeaveFiles == \A p \in DOMAIN disk : RunExe(p) \/ RunFolder(p) => IsDisk(disk')

LEMMA InvStep ==
    ASSUME PlacesApart, PackingInv, [Next]_vars, ProgramsLeaveFiles
    PROVE  PackingInv'
<1>1. ASSUME NEW o \in Orders, NEW folder \in BOOLEAN, packApp(o[1], o[2], folder) PROVE PackingInv'
  BY <1>1, PackAppStep
<1>2. CASE Packing
  BY <1>2, WriteEngineStep, ApplyIconStep, WriteBundleStep, WriteBesideStep, TidyDistStep, AppStep,
     CopySourcesStep DEF Packing
<1>3. ASSUME NEW p \in DOMAIN disk, RunExe(p) PROVE PackingInv'
  <2>1. IsDisk(disk')
    BY <1>3 DEF ProgramsLeaveFiles
  <2>2. Ran(RunsPacked(disk, p), Expected(p)) /\ UNCHANGED cmd
    BY <1>3 DEF RunExe
  <2> QED BY <2>1, <2>2, RanStep
<1>4. ASSUME NEW p \in DOMAIN disk, RunFolder(p) PROVE PackingInv'
  <2>1. IsDisk(disk')
    BY <1>4 DEF ProgramsLeaveFiles
  <2>2. Ran(Runs(disk, Front(p), disk[p].prog), Expected(p)) /\ UNCHANGED cmd
    BY <1>4 DEF RunFolder
  <2> QED BY <2>1, <2>2, RanStep
<1>5. ASSUME NEW p \in DOMAIN disk, Carry(p) PROVE PackingInv'
  BY <1>5, CarryStep
<1>6. CASE Close
  BY <1>6, KeptSame, IdleAimed DEF Close, historyVars, PackingInv, PackingTypeOK
<1>7. ASSUME NEW p \in DOMAIN mine, NEW text \in Texts, Edit(p, text) PROVE PackingInv'
  BY <1>7, EditStep
<1>8. ASSUME NEW from \in Parcels, pkgAdd(from[1], from[2]) PROVE PackingInv'
  BY <1>8, PkgAddStep
<1>9. CASE UNCHANGED vars
  BY <1>9, KeptSame, IdleAimed DEF vars, historyVars, PackingInv, PackingTypeOK
<1> QED BY <1>1, <1>2, <1>3, <1>4, <1>5, <1>6, <1>7, <1>8, <1>9 DEF Next

\* The disk holds files at paths, and the packing under way is one of the eight
\* steps, with paths for its source and its target (the locals of packApp).
THEOREM PackingTyped ==
    ASSUME PlacesApart
    PROVE  Spec /\ [][ProgramsLeaveFiles]_vars => []PackingTypeOK
<1>1. ASSUME PackingInv, [Next]_vars, [ProgramsLeaveFiles]_vars PROVE PackingInv'
  <2>1. CASE UNCHANGED vars
    BY <1>1, <2>1, KeptSame, IdleAimed DEF vars, historyVars, PackingInv, PackingTypeOK
  <2> QED BY <1>1, <2>1, InvStep
<1>2. PackingInv => PackingTypeOK
  BY DEF PackingInv
<1> QED BY <1>1, <1>2, InvInit, PTL DEF Spec

\* Whatever is packed, however often, and wherever a packing fails: as long as
\* the user keeps nothing in the places packings write to, every file of the
\* user is where it was and holds what it held (clearOldPackDist,
\* PrepareBinaryDist, PrepareCleanProjectDist, App and EXEWithOptions).
THEOREM SourcesStay ==
    ASSUME PlacesApart
    PROVE  Spec /\ [][ProgramsLeaveFiles]_vars => []SourcesKept
<1>1. ASSUME PackingInv, [Next]_vars, [ProgramsLeaveFiles]_vars PROVE PackingInv'
  <2>1. CASE UNCHANGED vars
    BY <1>1, <2>1, KeptSame, IdleAimed DEF vars, historyVars, PackingInv, PackingTypeOK
  <2> QED BY <1>1, <2>1, InvStep
<1>2. PackingInv => SourcesKept
  BY DEF PackingInv
<1> QED BY <1>1, <1>2, InvInit, PTL DEF Spec

\* A packing that fails leaves no executable without its program behind it, but
\* where writing the engine itself failed, where removing it after a later error
\* failed, or where the process ended in between, and a packing that ends well
\* there cures that: as long as no packing writes into a design directory or a
\* package, and programs copy no engine under another name (EXEWithOptions, App,
\* PrepareBinaryDist, PrepareCleanProjectDist).
THEOREM ExesWhole ==
    ASSUME PlacesApart, EnginesApart
    PROVE  Spec /\ [][ProgramsLeaveFiles /\ ProgramsMakeNoEngines]_vars => []WholeExe
<1> DEFINE Inv == PackingInv /\ EngineInv
<1>1. Init => Inv
  BY InvInit, InitEngines
<1>2. ASSUME Inv, [Next]_vars, [ProgramsLeaveFiles /\ ProgramsMakeNoEngines]_vars PROVE Inv'
  <2>1. CASE UNCHANGED vars
    BY <1>2, <2>1, KeptSame, IdleAimed
    DEF vars, historyVars, PackingInv, PackingTypeOK, EngineInv, InPlace, Engines
  <2> QED BY <1>2, <2>1, InvStep, EngineStep
<1>3. Inv => WholeExe
  BY DEF EngineInv, Engines, WholeExe, Idle
<1> HIDE DEF Inv
<1> QED BY <1>1, <1>2, <1>3, PTL DEF Spec

\* Every step keeps the three invariants.
LEMMA DistInvStep ==
    ASSUME PlacesApart, EnginesApart, PackingInv, EngineInv, DistInv, DistsApart, ModulesAreSources,
           [Next]_vars, [ProgramsLeaveFiles /\ ProgramsMakeNoEngines /\ ProgramsLeaveDists]_vars
    PROVE  PackingInv' /\ EngineInv' /\ DistInv'
<1>1. CASE UNCHANGED vars
  BY <1>1, KeptSame, IdleAimed
  DEF vars, historyVars, PackingInv, PackingTypeOK, EngineInv, InPlace, Engines, DistInv, CleanDist
<1> QED BY <1>1, InvStep, EngineStep, DistStep

\* What a packing left carries none of the programs' data, neither beside it nor
\* behind it; beside an executable the only sources are hidden ones, which are kept,
\* and those whose removal failed, which is passed over, none in a directory;
\* whatever was packed there before, wherever a packing failed and whichever part
\* of the files a failing removal got through: as long as programs include sources,
\* nobody packs above or below it or carries an executable into it, and programs
\* put nothing into it but what is theirs (collectAppBundle, PrepareBinaryDist,
\* PrepareCleanProjectDist, RemoveRuntimeData, removePackagedSources).
THEOREM DistsClean ==
    ASSUME PlacesApart, EnginesApart, OldExesSound
    PROVE  /\ Spec
           /\ [][ProgramsLeaveFiles /\ ProgramsMakeNoEngines /\ ProgramsLeaveDists]_vars
           /\ []DistsApart /\ []ModulesAreSources
           => []CleanDist
<1> DEFINE Inv  == PackingInv /\ EngineInv /\ DistInv
           User == ProgramsLeaveFiles /\ ProgramsMakeNoEngines /\ ProgramsLeaveDists
<1>1. Init => Inv
  BY InvInit, InitEngines, DistInit
<1>2. ASSUME Inv, [Next]_vars, [User]_vars, DistsApart, ModulesAreSources PROVE Inv'
  BY <1>2, DistInvStep
<1>3. Inv => CleanDist
  BY DEF DistInv
<1> HIDE DEF Inv, User
<1>4. Spec /\ [][User]_vars /\ []DistsApart /\ []ModulesAreSources => []CleanDist
  BY <1>1, <1>2, <1>3, PTL DEF Spec
<1> QED BY <1>4 DEF User

\* No place of an order in another is enough for that: the user then packs above
\* or below no distribution.
THEOREM DistsCleanApart ==
    ASSUME PlacesApart, EnginesApart, OldExesSound, PlacesNotNested
    PROVE  /\ Spec
           /\ [][ProgramsLeaveFiles /\ ProgramsMakeNoEngines /\ ProgramsLeaveDists]_vars
           /\ []ModulesAreSources
           => []CleanDist
<1> DEFINE Inv  == PackingInv /\ EngineInv /\ DistInv
           User == ProgramsLeaveFiles /\ ProgramsMakeNoEngines /\ ProgramsLeaveDists
<1>1. Init => Inv
  BY InvInit, InitEngines, DistInit
<1>2. ASSUME Inv, [Next]_vars, [User]_vars, ModulesAreSources PROVE Inv'
  BY <1>2, OrdersApart, DistInvStep
<1>3. Inv => CleanDist
  BY DEF DistInv
<1> HIDE DEF Inv, User
<1>4. Spec /\ [][User]_vars /\ []ModulesAreSources => []CleanDist
  BY <1>1, <1>2, <1>3, PTL DEF Spec
<1> QED BY <1>4 DEF User
=============================================================================
