--------------------------- MODULE FreeSpacesProofs --------------------------
(***************************************************************************)
(* Theorems about the search for free space, for disks of any size with    *)
(* any partitions: the append that overwrites an element never has one to  *)
(* overwrite, the gaps found are what no partition uses, and a partition   *)
(* that fills a gap is one the library takes.                              *)
(***************************************************************************)
EXTENDS FreeSpaces, SequenceTheorems, TLAPS

\* Arithmetic: rounding down to a multiple.
LEMMA DivLe ==
  \A a \in Nat, m \in Nat \ {0} : (a \div m) * m \in Nat /\ (a \div m) * m <= a
  OBVIOUS
LEMMA DivMono ==
  \A a, b \in Nat, m \in Nat \ {0} : a <= b => (a \div m) * m <= (b \div m) * m
  OBVIOUS
LEMMA ModType == \A a \in Int, m \in Nat \ {0} : a % m \in Nat /\ a % m < m
  OBVIOUS
LEMMA ModSmall == \A a, m \in Nat : a < m => a % m = a
  OBVIOUS

\* The end of the usable part of a disk.
LEMMA RoundedEndType ==
  ASSUME NEW z \in Nat
  PROVE  RoundedEnd(z) \in 0 .. Word - 1
<1>1. Word \in Nat \ {0} /\ MiB \in Nat \ {0} /\ Reserve \in Nat
  BY SizesAssumption
<1>2. (z - Reserve) % Word \in Nat /\ (z - Reserve) % Word < Word
  BY <1>1, ModType
<1>3. RoundedEnd(z) \in Nat /\ RoundedEnd(z) <= (z - Reserve) % Word
  BY <1>1, <1>2, DivLe DEF RoundedEnd
<1> QED
  BY <1>1, <1>2, <1>3

LEMMA RoundedEndLow ==
  ASSUME NEW z \in Nat, z < Word, Reserve <= z
  PROVE  RoundedEnd(z) <= z
<1>1. Word \in Nat /\ MiB \in Nat \ {0} /\ Reserve \in Nat
  BY SizesAssumption
<1>2. (z - Reserve) % Word = z - Reserve /\ z - Reserve \in Nat
  BY <1>1, ModSmall
<1>3. RoundedEnd(z) <= z - Reserve
  BY <1>1, <1>2, DivLe DEF RoundedEnd
<1>4. RoundedEnd(z) \in Int
  BY RoundedEndType
<1> QED
  BY <1>1, <1>3, <1>4

\* A larger disk does not end earlier.
LEMMA RoundedEndMono ==
  ASSUME NEW y \in Nat, NEW z \in Nat, Reserve <= y, y <= z, z < Word
  PROVE  RoundedEnd(y) <= RoundedEnd(z)
<1>1. Word \in Nat /\ MiB \in Nat \ {0} /\ Reserve \in Nat
  BY SizesAssumption
<1>2. /\ (y - Reserve) % Word = y - Reserve /\ y - Reserve \in Nat
      /\ (z - Reserve) % Word = z - Reserve /\ z - Reserve \in Nat
      /\ y - Reserve <= z - Reserve
  BY <1>1, ModSmall
<1> QED
  BY <1>1, <1>2, DivMono DEF RoundedEnd
-----------------------------------------------------------------------------
(* The used ranges *)

FirstMiB == [start |-> 0, last |-> MiB - 1]
BackupRoom(disk) == [start |-> End(disk), last |-> disk.size]

\* A sequence with two more elements before it.
LEMMA TwoBefore ==
  ASSUME NEW S, NEW a \in S, NEW b \in S, NEW q \in Seq(S)
  PROVE  LET s == <<a, b>> \o q
         IN  /\ s \in Seq(S) /\ s[1] = a /\ s[2] = b /\ Len(s) = Len(q) + 2
             /\ \A n \in DOMAIN q : s[n + 2] = q[n]
<1> DEFINE two == <<a, b>>
           s == two \o q
<1>1. two \in Seq(S) /\ Len(two) = 2 /\ two[1] = a /\ two[2] = b
  OBVIOUS
<1> HIDE DEF two
<1>2. /\ s \in Seq(S) /\ Len(s) = Len(two) + Len(q)
      /\ \A n \in 1 .. Len(two) + Len(q) :
           s[n] = IF n <= Len(two) THEN two[n] ELSE q[n - Len(two)]
  BY <1>1, ConcatProperties
<1>3. Len(q) \in Nat /\ DOMAIN q = 1 .. Len(q)
  OBVIOUS
<1> HIDE DEF s
<1>4. s[1] = a /\ s[2] = b /\ \A n \in DOMAIN q : s[n + 2] = q[n]
  BY <1>1, <1>2, <1>3
<1> QED
  BY <1>1, <1>2, <1>3, <1>4 DEF two, s

LEMMA UsedListFacts ==
  ASSUME NEW disk \in Disks
  PROVE  /\ UsedList(disk) \in Seq(Ranges)
         /\ UsedList(disk)[1] = FirstMiB /\ UsedList(disk)[2] = BackupRoom(disk)
         /\ Len(UsedList(disk)) = Len(disk.parts) + 2
         /\ \A n \in DOMAIN disk.parts : UsedList(disk)[n + 2] = disk.parts[n]
<1>1. /\ disk.size \in 0 .. Word - 2 /\ disk.parts \in Seq(Ranges)
      /\ Word \in Nat /\ MiB \in Nat /\ 0 < MiB /\ MiB < Word
  BY SizesAssumption, DisksAssumption
<1>2. FirstMiB \in Ranges
  BY <1>1 DEF FirstMiB, Ranges
<1>3. BackupRoom(disk) \in Ranges
  BY <1>1, RoundedEndType DEF BackupRoom, End, Ranges
<1>4. UsedList(disk) = <<FirstMiB, BackupRoom(disk)>> \o disk.parts
  BY DEF UsedList, FirstMiB, BackupRoom
<1> QED
  BY <1>1, <1>2, <1>3, <1>4, TwoBefore

\* the used ranges as the loop finds them: in ascending order, each one it has to cut
Listed ==
  /\ d \in Disks
  /\ used \in Seq(Ranges)
  /\ \A m, n \in DOMAIN used : m < n => used[m].start <= used[n].start
  /\ \E n \in DOMAIN used : used[n] = FirstMiB
  /\ \E n \in DOMAIN used : used[n] = BackupRoom(d)
  /\ \A m \in DOMAIN d.parts : \E n \in DOMAIN used : used[n] = d.parts[m]
  /\ \A n \in DOMAIN used :
       \/ used[n] \in {FirstMiB, BackupRoom(d)}
       \/ \E m \in DOMAIN d.parts : used[n] = d.parts[m]

LEMMA ListedInit == Init => Listed
<1> SUFFICES ASSUME Init PROVE Listed
  OBVIOUS
<1> DEFINE s == UsedList(d)
           D == DOMAIN s
<1>1. /\ d \in Disks /\ d.parts \in Seq(Ranges) /\ s \in Seq(Ranges) /\ s[1] = FirstMiB
      /\ s[2] = BackupRoom(d) /\ Len(s) = Len(d.parts) + 2
      /\ \A n \in DOMAIN d.parts : s[n + 2] = d.parts[n]
  BY UsedListFacts, DisksAssumption DEF Init
<1>2. used \in Sorted(s)
  BY DEF Init
<1> HIDE DEF s
<1>3. PICK p \in Bijection(D, D) : used = [n \in D |-> s[p[n]]]
  BY <1>2 DEF Sorted
<1>4. /\ p \in [D -> D] /\ \A w \in D : \E v \in D : p[v] = w
  BY DEF Bijection, Surjection, Injection
<1>5. D = 1 .. Len(s) /\ \A n \in D : s[n] \in Ranges
  BY <1>1
<1>6. used \in Seq(Ranges) /\ DOMAIN used = D
  <2>1. used \in [1 .. Len(s) -> Ranges] /\ Len(s) \in Nat
    BY <1>1, <1>3, <1>4, <1>5
  <2> QED
    BY <1>3, <2>1
<1>7. \A m, n \in DOMAIN used : m < n => used[m].start <= used[n].start
  BY <1>2, <1>6 DEF Sorted
<1>8. \A w \in D : \E n \in DOMAIN used : used[n] = s[w]
  BY <1>3, <1>4, <1>6
<1>9. 1 \in D /\ 2 \in D /\ \A m \in DOMAIN d.parts : m + 2 \in D
  BY <1>1, <1>5
<1>10. \A n \in DOMAIN used : \E w \in D : used[n] = s[w]
  BY <1>3, <1>4, <1>6
<1>11. \A w \in D : w = 1 \/ w = 2 \/ (w - 2 \in DOMAIN d.parts /\ s[w] = d.parts[w - 2])
  <2> SUFFICES ASSUME NEW w \in D, w # 1, w # 2
               PROVE  w - 2 \in DOMAIN d.parts /\ s[w] = d.parts[w - 2]
    OBVIOUS
  <2>1. w - 2 \in 1 .. Len(d.parts) /\ (w - 2) + 2 = w
    BY <1>1, <1>5
  <2> QED
    BY <1>1, <2>1
<1>12. \E n \in DOMAIN used : used[n] = FirstMiB
  BY <1>1, <1>8, <1>9
<1>13. \E n \in DOMAIN used : used[n] = BackupRoom(d)
  BY <1>1, <1>8, <1>9
<1>14. \A m \in DOMAIN d.parts : \E n \in DOMAIN used : used[n] = d.parts[m]
  BY <1>1, <1>8, <1>9
<1>15. \A n \in DOMAIN used : \/ used[n] \in {FirstMiB, BackupRoom(d)}
                             \/ \E m \in DOMAIN d.parts : used[n] = d.parts[m]
  <2> SUFFICES ASSUME NEW n \in DOMAIN used
               PROVE  \/ used[n] \in {FirstMiB, BackupRoom(d)}
                      \/ \E m \in DOMAIN d.parts : used[n] = d.parts[m]
    OBVIOUS
  <2>1. PICK w \in D : used[n] = s[w]
    BY <1>10
  <2>2. CASE w - 2 \in DOMAIN d.parts /\ s[w] = d.parts[w - 2]
    BY <2>1, <2>2
  <2> QED
    BY <1>1, <1>11, <2>1, <2>2
<1> QED
  BY <1>1, <1>6, <1>7, <1>12, <1>13, <1>14, <1>15 DEF Listed
-----------------------------------------------------------------------------
(* The cutting loop *)

GapsIn(z) == {g \in [start : 0 .. z, last : 0 .. z] : g.start <= g.last}
\* the loop's variables
Place ==
  /\ Listed
  /\ k \in 1 .. Len(used) + 1
  /\ ret \in Seq(GapsIn(d.size)) /\ r \in 1 .. Len(ret) + 1
\* every gap but the last one ends before the ranges still to come
Behind ==
  k <= Len(used) => \A n \in DOMAIN ret : n < Len(ret) => ret[n].last < used[k].start
\* the gaps are clear of the ranges so far, those before r of this one, too, ...
Clear ==
  \A n \in DOMAIN ret, m \in DOMAIN used :
    m < k \/ (m = k /\ n < r) => \A x \in ret[n].start .. ret[n].last : ~In(x, used[m])
\* ... and what is in no gap is in one of the ranges so far
Cover ==
  \A x \in 0 .. d.size :
    \/ \E n \in DOMAIN ret : In(x, ret[n])
    \/ \E m \in DOMAIN used : m <= k /\ In(x, used[m])

Inv == Place /\ Behind /\ Clear /\ Cover

\* What is cut is the last gap, into what is left of it: no gap, one or two.
Cuts ==
  /\ k <= Len(used) /\ r = Len(ret) /\ r \in DOMAIN ret
  /\ d' = d /\ used' = used /\ k' = k
  /\ ret' \in Seq(GapsIn(d.size)) /\ r' = Len(ret') + 1
  /\ r - 1 <= Len(ret') /\ Len(ret') <= r + 1
  /\ \A n \in DOMAIN ret : n < r => ret'[n] = ret[n]
  /\ \A n \in DOMAIN ret' : n >= r =>
       /\ gap.start <= ret'[n].start /\ ret'[n].last <= gap.last
       /\ \A x \in ret'[n].start .. ret'[n].last : ~In(x, i)
       /\ n < Len(ret') => ret'[n].last < i.start
       /\ n > r => i.last < ret'[n].start
  /\ \A x \in gap.start .. gap.last : ~In(x, i) => \E n \in DOMAIN ret' : n >= r /\ In(x, ret'[n])

LEMMA Numbers ==
  ASSUME Place, AtWork
  PROVE  /\ i \in Ranges /\ i.start \in Nat /\ i.last \in Nat
         /\ k \in DOMAIN used /\ r \in DOMAIN ret /\ Len(ret) \in Nat
         /\ gap \in GapsIn(d.size) /\ gap.start \in Nat /\ gap.last \in Nat
         /\ gap.start <= gap.last /\ gap.last <= d.size
         /\ d.size \in Nat /\ Word \in Nat /\ d.size < Word - 1
<1>1. Word \in Nat /\ d.size \in 0 .. Word - 2
  BY SizesAssumption, DisksAssumption DEF Place, Listed
<1>2. k \in DOMAIN used /\ r \in DOMAIN ret /\ Len(ret) \in Nat
  BY DEF Place, AtWork, Listed
<1>3. i \in Ranges /\ gap \in GapsIn(d.size)
  BY <1>2 DEF Place, Listed, i, gap
<1>4. i.start \in Nat /\ i.last \in Nat
  BY <1>1, <1>3 DEF Ranges
<1>5. gap.start \in Nat /\ gap.last \in Nat /\ gap.start <= gap.last /\ gap.last <= d.size
  BY <1>1, <1>3 DEF GapsIn
<1> QED
  BY <1>1, <1>2, <1>3, <1>4, <1>5

\* Only the last gap can have something in common with the range.
LEMMA LastOne ==
  ASSUME Place, Behind, AtWork, ~Apart
  PROVE  r = Len(ret)
<1>1. /\ k \in DOMAIN used /\ r \in DOMAIN ret /\ i.start \in Nat /\ gap.last \in Nat
      /\ Len(ret) \in Nat /\ DOMAIN ret = 1 .. Len(ret)
  BY Numbers DEF Place
<1>2. ~(r < Len(ret))
  BY <1>1 DEF Behind, AtWork, Apart, i, gap
<1> QED
  BY <1>1, <1>2

\* A sequence without its last element.
LEMMA WithoutLast ==
  ASSUME NEW S, NEW s \in Seq(S), s # <<>>
  PROVE  /\ Without(s, Len(s)) \in Seq(S) /\ Len(Without(s, Len(s))) = Len(s) - 1
         /\ \A n \in 1 .. Len(s) - 1 : Without(s, Len(s))[n] = s[n]
<1> DEFINE a == SubSeq(s, 1, Len(s) - 1)
           b == SubSeq(s, Len(s) + 1, Len(s))
<1>1. Len(s) \in Nat /\ Len(s) >= 1
  BY EmptySeq
<1>2. b = <<>>
  BY <1>1, SubSeqProperties
<1>3. a \in Seq(S) /\ Len(a) = Len(s) - 1 /\ \A n \in 1 .. Len(s) - 1 : a[n] = s[n]
  <2>1. \A n \in 1 .. Len(s) - 1 : s[n] \in S /\ s[1 + n - 1] = s[n]
    BY <1>1
  <2>2. /\ a \in Seq(S) /\ Len(a) = IF 1 <= Len(s) - 1 THEN Len(s) - 1 - 1 + 1 ELSE 0
        /\ \A n \in 1 .. Len(s) - 1 - 1 + 1 : a[n] = s[1 + n - 1]
    BY <1>1, <2>1, SubSeqProperties
  <2>3. Len(s) - 1 - 1 + 1 = Len(s) - 1 /\ (1 <= Len(s) - 1 \/ Len(s) - 1 = 0)
    <3>1. \A l \in Nat : l >= 1 => l - 1 - 1 + 1 = l - 1 /\ (1 <= l - 1 \/ l - 1 = 0)
      OBVIOUS
    <3> QED
      BY <1>1, <3>1
  <2>4. Len(a) = Len(s) - 1
    BY <2>2, <2>3
  <2> QED
    BY <2>1, <2>2, <2>3, <2>4
<1> HIDE DEF a, b
<1>4. a \o b = a
  BY <1>2, <1>3
<1> QED
  BY <1>3, <1>4 DEF Without, a, b

LEMMA RemoveCuts ==
  ASSUME Place, Behind, Remove
  PROVE  Cuts
<1>1. AtWork /\ ~Apart /\ i.start <= gap.start /\ i.last >= gap.last
  BY DEF Remove, Superset
<1>2. r = Len(ret)
  BY <1>1, LastOne DEF Remove
<1>3. /\ i.start \in Nat /\ i.last \in Nat /\ r \in DOMAIN ret /\ Len(ret) \in Nat
      /\ gap.start \in Nat /\ gap.last \in Nat /\ ret \in Seq(GapsIn(d.size))
  BY <1>1, Numbers DEF Place
<1>4. /\ ret' = Without(ret, Len(ret)) /\ r' = r /\ d' = d /\ used' = used /\ k' = k
      /\ k <= Len(used)
  BY <1>2 DEF Remove, AtWork
<1>5. /\ ret' \in Seq(GapsIn(d.size)) /\ Len(ret') = Len(ret) - 1
      /\ \A n \in 1 .. Len(ret) - 1 : ret'[n] = ret[n]
  BY <1>3, <1>4, WithoutLast
<1>6. \A x \in gap.start .. gap.last : In(x, i)
  BY <1>1, <1>3 DEF In
<1>7. DOMAIN ret = 1 .. Len(ret) /\ DOMAIN ret' = 1 .. Len(ret) - 1
  BY <1>3, <1>5
<1> QED
  BY <1>2, <1>3, <1>4, <1>5, <1>6, <1>7 DEF Cuts

\* The last gap with another start or end.
LEMMA TrimCuts ==
  ASSUME Place, k <= Len(used), r = Len(ret), r \in DOMAIN ret, NEW g \in GapsIn(d.size),
         gap.start <= g.start, g.last <= gap.last,
         \A x \in gap.start .. gap.last : In(x, g) <=> ~In(x, i),
         d' = d, used' = used, k' = k, ret' = [ret EXCEPT ![r] = g], r' = r + 1
  PROVE  Cuts
<1>1. ret \in Seq(GapsIn(d.size)) /\ Len(ret) \in Nat /\ DOMAIN ret = 1 .. Len(ret) /\ d.size \in Nat
  BY SizesAssumption, DisksAssumption DEF Place, Listed
<1>2. /\ ret' \in Seq(GapsIn(d.size)) /\ Len(ret') = Len(ret) /\ DOMAIN ret' = DOMAIN ret
      /\ ret'[r] = g /\ \A n \in DOMAIN ret : n < r => ret'[n] = ret[n]
  BY <1>1
<1>3. g.start \in Int /\ g.last \in Int /\ gap.start \in Int /\ gap.last \in Int
  BY <1>1 DEF GapsIn, gap
<1>4. ASSUME NEW x \in g.start .. g.last PROVE ~In(x, i)
  BY <1>3 DEF In
<1>5. ASSUME NEW n \in DOMAIN ret', n >= r
      PROVE  n = r
  BY <1>1, <1>2, <1>5
<1>6. \A x \in gap.start .. gap.last : ~In(x, i) => In(x, ret'[r])
  BY <1>2
<1> QED
  BY <1>1, <1>2, <1>4, <1>5, <1>6 DEF Cuts

LEMMA CutLeftCuts ==
  ASSUME Place, Behind, CutLeft
  PROVE  Cuts
<1>1. AtWork /\ ~Apart /\ ~Superset /\ i.start <= gap.start
  BY DEF CutLeft, LeftEdge
<1>2. r = Len(ret)
  BY <1>1, LastOne DEF CutLeft
<1>3. /\ i.start \in Nat /\ i.last \in Nat /\ r \in DOMAIN ret /\ Len(ret) \in Nat
      /\ gap \in GapsIn(d.size) /\ gap.start \in Nat /\ gap.last \in Nat
      /\ gap.last <= d.size /\ d.size \in Nat /\ Word \in Nat /\ d.size < Word - 1
  BY <1>1, Numbers
<1>4. gap.start <= i.last /\ i.last < gap.last
  BY <1>1, <1>3 DEF Apart, Superset
<1>5. (i.last + 1) % Word = i.last + 1
  <2>1. i.last + 1 \in Nat /\ i.last + 1 < Word
    BY <1>3, <1>4
  <2> QED
    BY <1>3, <2>1, ModSmall
<1> DEFINE g == [gap EXCEPT !.start = i.last + 1]
<1>6. g \in GapsIn(d.size) /\ g.start = i.last + 1 /\ g.last = gap.last
  BY <1>3, <1>4 DEF GapsIn
<1>7. ret' = [ret EXCEPT ![r] = g] /\ r' = r + 1 /\ d' = d /\ used' = used /\ k' = k
  BY <1>5 DEF CutLeft, gap
<1> HIDE DEF g
<1>8. \A x \in gap.start .. gap.last : In(x, g) <=> ~In(x, i)
  BY <1>1, <1>3, <1>4, <1>6 DEF In
<1>9. gap.start <= g.start /\ g.last <= gap.last
  BY <1>3, <1>4, <1>6
<1> QED
  BY <1>1, <1>2, <1>3, <1>6, <1>7, <1>8, <1>9, TrimCuts DEF AtWork

LEMMA CutRightCuts ==
  ASSUME Place, Behind, CutRight
  PROVE  Cuts
<1>1. AtWork /\ ~Apart /\ ~Superset /\ ~Inside /\ i.start > gap.start
  <2>1. AtWork /\ ~Apart /\ ~Superset /\ ~Inside /\ ~LeftEdge
    BY DEF CutRight, RightEdge
  <2>2. i.start \in Nat /\ gap.start \in Nat
    BY <2>1, Numbers
  <2> QED
    BY <2>1, <2>2 DEF LeftEdge
<1>2. r = Len(ret)
  BY <1>1, LastOne DEF CutRight
<1>3. /\ i.start \in Nat /\ i.last \in Nat /\ r \in DOMAIN ret /\ Len(ret) \in Nat
      /\ gap \in GapsIn(d.size) /\ gap.start \in Nat /\ gap.last \in Nat
      /\ gap.last <= d.size /\ d.size \in Nat /\ Word \in Nat /\ d.size < Word - 1
  BY <1>1, Numbers
<1>4. i.start <= gap.last /\ i.last >= gap.last
  BY <1>1, <1>3 DEF Apart, Superset, Inside
<1> DEFINE g == [gap EXCEPT !.last = i.start - 1]
<1>6. g \in GapsIn(d.size) /\ g.start = gap.start /\ g.last = i.start - 1
  BY <1>1, <1>3, <1>4 DEF GapsIn
<1>7. ret' = [ret EXCEPT ![r] = g] /\ r' = r + 1 /\ d' = d /\ used' = used /\ k' = k
  BY DEF CutRight, gap
<1> HIDE DEF g
<1>8. \A x \in gap.start .. gap.last : In(x, g) <=> ~In(x, i)
  BY <1>1, <1>3, <1>4, <1>6 DEF In
<1>9. gap.start <= g.start /\ g.last <= gap.last
  BY <1>3, <1>4, <1>6
<1> QED
  BY <1>1, <1>2, <1>3, <1>6, <1>7, <1>8, <1>9, TrimCuts DEF AtWork

LEMMA SplitCuts ==
  ASSUME Place, Behind, Split
  PROVE  Cuts
<1>1. AtWork /\ ~Apart /\ i.start > gap.start /\ i.last < gap.last
  BY DEF Split, Inside
<1>2. r = Len(ret)
  BY <1>1, LastOne DEF Split
<1>3. /\ i.start \in Nat /\ i.last \in Nat /\ r \in DOMAIN ret /\ Len(ret) \in Nat
      /\ gap \in GapsIn(d.size) /\ gap.start \in Nat /\ gap.last \in Nat
      /\ gap.last <= d.size /\ d.size \in Nat /\ Word \in Nat /\ d.size < Word - 1
      /\ ret \in Seq(GapsIn(d.size))
  BY <1>1, Numbers DEF Place
<1>4. i.start <= gap.last /\ gap.start <= i.last
  BY <1>1, <1>3 DEF Apart
<1>5. (i.last + 1) % Word = i.last + 1
  BY <1>1, <1>3, ModSmall
<1> DEFINE g == [start |-> gap.start, last |-> i.start - 1]
           h == [start |-> i.last + 1, last |-> gap.last]
<1>6. /\ g \in GapsIn(d.size) /\ g.start = gap.start /\ g.last = i.start - 1
      /\ h \in GapsIn(d.size) /\ h.start = i.last + 1 /\ h.last = gap.last
  <2>1. gap.start \in 0 .. d.size /\ i.start - 1 \in 0 .. d.size /\ gap.start <= i.start - 1
    BY <1>1, <1>3, <1>4
  <2>2. i.last + 1 \in 0 .. d.size /\ gap.last \in 0 .. d.size /\ i.last + 1 <= gap.last
    BY <1>1, <1>3
  <2>3. g \in GapsIn(d.size) /\ h \in GapsIn(d.size)
    BY <2>1, <2>2 DEF GapsIn
  <2> QED
    BY <2>3
<1>7. ret' = [Append(ret, h) EXCEPT ![r] = [Append(ret, h)[r] EXCEPT !.last = i.start - 1]]
  BY <1>2, <1>5 DEF Split, Inserted
<1>8. /\ Append(ret, h) \in Seq(GapsIn(d.size)) /\ Len(Append(ret, h)) = Len(ret) + 1
      /\ Append(ret, h)[r] = gap /\ Append(ret, h)[r + 1] = h
      /\ \A n \in DOMAIN ret : Append(ret, h)[n] = ret[n]
  BY <1>2, <1>3, <1>6 DEF gap
<1>9. ret' = [Append(ret, h) EXCEPT ![r] = g]
  <2>1. [gap EXCEPT !.last = i.start - 1] = g
    BY <1>3 DEF GapsIn
  <2> QED
    BY <1>7, <1>8, <2>1
<1> HIDE DEF g, h
<1>10. DOMAIN Append(ret, h) = 1 .. Len(ret) + 1 /\ DOMAIN ret = 1 .. Len(ret)
  BY <1>3, <1>8
<1>11. /\ ret' \in Seq(GapsIn(d.size)) /\ Len(ret') = Len(ret) + 1 /\ ret'[r] = g /\ ret'[r + 1] = h
       /\ \A n \in DOMAIN ret : n < r => ret'[n] = ret[n]
  <2> DEFINE a == Append(ret, h)
  <2> HIDE DEF a
  <2>1. /\ a \in Seq(GapsIn(d.size)) /\ Len(a) = Len(ret) + 1 /\ a[r + 1] = h
        /\ \A n \in DOMAIN ret : a[n] = ret[n]
        /\ ret' = [a EXCEPT ![r] = g] /\ DOMAIN a = 1 .. Len(ret) + 1
    BY <1>8, <1>9, <1>10 DEF a
  <2>2. r \in 1 .. Len(ret) + 1 /\ r + 1 \in 1 .. Len(ret) + 1 /\ r + 1 # r /\ r \in Nat
    BY <1>2, <1>3, <1>10
  <2>3. ret' \in Seq(GapsIn(d.size)) /\ Len(ret') = Len(ret) + 1
    BY <1>6, <2>1, <2>2
  <2>4. ret'[r] = g /\ ret'[r + 1] = h
    BY <2>1, <2>2
  <2>5. \A n \in DOMAIN ret : n < r => ret'[n] = ret[n]
    BY <1>10, <2>1, <2>2
  <2> QED
    BY <2>3, <2>4, <2>5
<1>12. r' = Len(ret') + 1 /\ d' = d /\ used' = used /\ k' = k
  BY <1>2, <1>3, <1>11 DEF Split
<1>13. \A n \in DOMAIN ret' : n >= r => n = r \/ n = r + 1
  BY <1>2, <1>3, <1>11
<1>14. ASSUME NEW n \in DOMAIN ret', n >= r
       PROVE  /\ gap.start <= ret'[n].start /\ ret'[n].last <= gap.last
              /\ \A x \in ret'[n].start .. ret'[n].last : ~In(x, i)
              /\ n < Len(ret') => ret'[n].last < i.start
              /\ n > r => i.last < ret'[n].start
  <2>1. CASE n = r
    BY <1>1, <1>3, <1>4, <1>6, <1>11, <2>1 DEF In
  <2>2. CASE n = r + 1
    BY <1>1, <1>2, <1>3, <1>4, <1>6, <1>11, <2>2 DEF In
  <2> QED
    BY <1>13, <1>14, <2>1, <2>2
<1>15. ASSUME NEW x \in gap.start .. gap.last, ~In(x, i)
       PROVE  \E n \in DOMAIN ret' : n >= r /\ In(x, ret'[n])
  <2>1. r \in DOMAIN ret' /\ r + 1 \in DOMAIN ret' /\ r \in Nat
    BY <1>2, <1>3, <1>11
  <2>2. x < i.start \/ x > i.last
    BY <1>3, <1>15 DEF In
  <2>3. In(x, g) \/ In(x, h)
    BY <1>3, <1>6, <2>2 DEF In
  <2> QED
    BY <1>11, <2>1, <2>3
<1>16. k <= Len(used)
  BY <1>1 DEF AtWork
<1>17. r - 1 <= Len(ret') /\ Len(ret') <= r + 1
  BY <1>2, <1>3, <1>11
<1> QED
  BY <1>2, <1>3, <1>11, <1>12, <1>14, <1>15, <1>16, <1>17 DEF Cuts

\* A cut keeps the invariant.
LEMMA CutsKeep ==
  ASSUME Inv, Cuts
  PROVE  Inv'
<1>0. /\ Listed /\ k \in Nat /\ Len(ret) \in Nat /\ r \in Nat /\ k \in DOMAIN used
      /\ d' = d /\ used' = used /\ k' = k /\ DOMAIN ret = 1 .. Len(ret)
      /\ ret' \in Seq(GapsIn(d.size)) /\ Len(ret') \in Nat /\ DOMAIN ret' = 1 .. Len(ret')
      /\ r = Len(ret) /\ r \in DOMAIN ret /\ r' = Len(ret') + 1
  BY DEF Inv, Place, Cuts, Listed
<1>1. \A n \in DOMAIN ret' : n < r => n \in DOMAIN ret /\ ret'[n] = ret[n]
  BY <1>0 DEF Cuts
<1>2. Place'
  <2>1. Listed'
    BY <1>0 DEF Listed
  <2>2. k' \in 1 .. Len(used') + 1 /\ r' \in 1 .. Len(ret') + 1 /\ ret' \in Seq(GapsIn(d'.size))
    BY <1>0 DEF Inv, Place
  <2> QED
    BY <2>1, <2>2 DEF Place
<1>3. Behind'
  <2> SUFFICES ASSUME NEW n \in DOMAIN ret', n < Len(ret')
               PROVE  ret'[n].last < used[k].start
    BY <1>0 DEF Behind
  <2>1. CASE n < r
    <3>1. n \in DOMAIN ret /\ n < Len(ret) /\ ret'[n] = ret[n] /\ k <= Len(used)
      BY <1>0, <1>1, <2>1 DEF Cuts
    <3> QED
      BY <3>1 DEF Inv, Behind
  <2>2. CASE n >= r
    BY <2>2 DEF Cuts, i
  <2> QED
    BY <1>0, <2>1, <2>2
<1>4. Clear'
  <2> SUFFICES ASSUME NEW n \in DOMAIN ret', NEW m \in DOMAIN used, m < k \/ (m = k /\ n < r'),
                      NEW x \in ret'[n].start .. ret'[n].last
               PROVE  ~In(x, used[m])
    BY <1>0 DEF Clear
  <2>1. CASE n < r
    <3>1. n \in DOMAIN ret /\ ret'[n] = ret[n]
      BY <1>1, <2>1
    <3> QED
      BY <2>1, <3>1 DEF Inv, Clear
  <2>2. CASE n >= r /\ m = k
    BY <2>2 DEF Cuts, i
  <2>3. CASE n >= r /\ m < k
    <3>1. gap.start <= ret'[n].start /\ ret'[n].last <= gap.last
      BY <2>3 DEF Cuts
    <3>2. /\ ret'[n] \in GapsIn(d.size) /\ gap \in GapsIn(d.size) /\ d.size \in Nat
      BY <1>0, SizesAssumption, DisksAssumption DEF Inv, Place, Listed, gap
    <3>3. x \in gap.start .. gap.last
      BY <3>1, <3>2 DEF GapsIn
    <3> QED
      BY <1>0, <2>3, <3>3 DEF Inv, Clear, gap
  <2>4. m \in Nat /\ n \in Nat
    BY <1>0 DEF Listed
  <2> QED
    BY <1>0, <2>1, <2>2, <2>3, <2>4
<1>5. Cover'
  <2> SUFFICES ASSUME NEW x \in 0 .. d.size
               PROVE  \/ \E n \in DOMAIN ret' : In(x, ret'[n])
                      \/ \E m \in DOMAIN used : m <= k /\ In(x, used[m])
    BY <1>0 DEF Cover
  <2>1. CASE \E m \in DOMAIN used : m <= k /\ In(x, used[m])
    BY <2>1
  <2>2. ASSUME NEW n \in DOMAIN ret, In(x, ret[n]), ~In(x, i)
        PROVE  \E q \in DOMAIN ret' : In(x, ret'[q])
    <3>1. CASE n < r
      <4>1. n \in DOMAIN ret' /\ ret'[n] = ret[n]
        BY <1>0, <3>1 DEF Cuts
      <4> QED
        BY <2>2, <4>1
    <3>2. CASE n = r
      <4>1. gap \in GapsIn(d.size) /\ d.size \in Nat
        BY <1>0, SizesAssumption, DisksAssumption DEF Inv, Place, Listed, gap
      <4>2. x \in gap.start .. gap.last
        BY <2>2, <3>2, <4>1 DEF GapsIn, In, gap
      <4> QED
        BY <2>2, <4>2 DEF Cuts
    <3> QED
      BY <1>0, <3>1, <3>2
  <2>3. In(x, i) => \E m \in DOMAIN used : m <= k /\ In(x, used[m])
    BY <1>0 DEF i
  <2> QED
    BY <2>1, <2>2, <2>3 DEF Inv, Cover
<1> QED
  BY <1>2, <1>3, <1>4, <1>5 DEF Inv

LEMMA SkipKeeps ==
  ASSUME Inv, Skip
  PROVE  Inv'
<1>0. /\ AtWork /\ Apart /\ r' = r + 1 /\ d' = d /\ used' = used /\ k' = k /\ ret' = ret
      /\ Listed /\ k \in DOMAIN used /\ r \in DOMAIN ret /\ DOMAIN ret = 1 .. Len(ret)
      /\ i.start \in Nat /\ i.last \in Nat /\ gap.start \in Nat /\ gap.last \in Nat
      /\ Len(ret) \in Nat
  BY Numbers DEF Skip, Inv, Place
<1>1. Place'
  BY <1>0 DEF Inv, Place, Listed
<1>2. Behind'
  BY <1>0 DEF Inv, Behind
<1>3. \A x \in gap.start .. gap.last : ~In(x, i)
  BY <1>0 DEF Apart, In
<1>4. Clear'
  <2> SUFFICES ASSUME NEW n \in DOMAIN ret, NEW m \in DOMAIN used, m < k \/ (m = k /\ n < r + 1),
                      NEW x \in ret[n].start .. ret[n].last
               PROVE  ~In(x, used[m])
    BY <1>0 DEF Clear
  <2>1. CASE m = k /\ n = r
    BY <1>3, <2>1 DEF i, gap
  <2>2. CASE ~(m = k /\ n = r)
    <3>1. m < k \/ (m = k /\ n < r)
      BY <1>0, <2>2
    <3> QED
      BY <3>1 DEF Inv, Clear
  <2> QED
    BY <2>1, <2>2
<1>5. Cover'
  BY <1>0 DEF Inv, Cover
<1> QED
  BY <1>1, <1>2, <1>4, <1>5 DEF Inv

LEMMA NextKeeps ==
  ASSUME Inv, NextRange
  PROVE  Inv'
<1>0. /\ k <= Len(used) /\ r > Len(ret) /\ k' = k + 1 /\ r' = 1 /\ d' = d /\ used' = used /\ ret' = ret
      /\ Listed /\ k \in DOMAIN used /\ k \in Nat /\ DOMAIN used = 1 .. Len(used) /\ Len(used) \in Nat
      /\ DOMAIN ret = 1 .. Len(ret) /\ Len(ret) \in Nat /\ r \in Nat
  BY DEF NextRange, Inv, Place, Listed
<1>1. Place'
  BY <1>0 DEF Inv, Place, Listed
<1>2. Behind'
  <2> SUFFICES ASSUME k + 1 <= Len(used), NEW n \in DOMAIN ret, n < Len(ret)
               PROVE  ret[n].last < used[k + 1].start
    BY <1>0 DEF Behind
  <2>1. ret[n].last < used[k].start
    BY <1>0 DEF Inv, Behind
  <2>2. k + 1 \in DOMAIN used /\ used[k].start <= used[k + 1].start
    BY <1>0 DEF Listed
  <2>3. /\ ret[n] \in GapsIn(d.size) /\ d.size \in Nat /\ Word \in Nat
        /\ used[k] \in Ranges /\ used[k + 1] \in Ranges
    BY <1>0, <2>2, SizesAssumption, DisksAssumption DEF Inv, Place, Listed
  <2>4. ret[n].last \in Nat /\ used[k].start \in Nat /\ used[k + 1].start \in Nat
    BY <2>3 DEF GapsIn, Ranges
  <2> QED
    BY <2>1, <2>2, <2>4
<1>3. Clear'
  <2> SUFFICES ASSUME NEW n \in DOMAIN ret, NEW m \in DOMAIN used, m < k + 1 \/ (m = k + 1 /\ n < 1),
                      NEW x \in ret[n].start .. ret[n].last
               PROVE  ~In(x, used[m])
    BY <1>0 DEF Clear
  <2>1. m < k \/ (m = k /\ n < r)
    BY <1>0
  <2> QED
    BY <2>1 DEF Inv, Clear
<1>4. Cover'
  <2>1. \A m \in DOMAIN used : m <= k => m <= k + 1
    BY <1>0
  <2> QED
    BY <1>0, <2>1 DEF Inv, Cover
<1> QED
  BY <1>1, <1>2, <1>3, <1>4 DEF Inv

LEMMA InvInit == Init => Inv
<1> SUFFICES ASSUME Init PROVE Inv
  OBVIOUS
<1>1. Listed /\ d.size \in Nat
  BY ListedInit, SizesAssumption, DisksAssumption DEF Init
<1> DEFINE all == [start |-> 0, last |-> d.size]
<1>2. all \in GapsIn(d.size) /\ all.start = 0 /\ all.last = d.size
  BY <1>1 DEF GapsIn
<1>3. ret = <<all>> /\ k = 1 /\ r = 1
  BY DEF Init
<1> HIDE DEF all
<1>4. ret \in Seq(GapsIn(d.size)) /\ Len(ret) = 1 /\ DOMAIN ret = {1} /\ ret[1] = all
  BY <1>2, <1>3
<1>5. Place
  BY <1>1, <1>3, <1>4 DEF Place, Listed
<1>6. Behind /\ Clear
  BY <1>1, <1>3, <1>4 DEF Behind, Clear, Listed
<1>7. Cover
  BY <1>1, <1>2, <1>4 DEF Cover, In
<1> QED
  BY <1>5, <1>6, <1>7 DEF Inv

LEMMA InvStep == Inv /\ [Next]_vars => Inv'
<1> SUFFICES ASSUME Inv, [Next]_vars PROVE Inv'
  OBVIOUS
<1>1. CASE Remove \/ Split \/ CutLeft \/ CutRight
  BY <1>1, RemoveCuts, SplitCuts, CutLeftCuts, CutRightCuts, CutsKeep DEF Inv
<1>2. CASE UNCHANGED vars
  BY <1>2 DEF vars, Inv, Place, Listed, Behind, Clear, Cover
<1> QED
  BY <1>1, <1>2, SkipKeeps, NextKeeps DEF Next

THEOREM InvCorrect == Spec => []Inv
<1> QED
  BY InvInit, InvStep, PTL DEF Spec

\* Only the last gap is ever cut or removed, whatever the partitions are: the append that
\* would overwrite a later gap never has one to overwrite.
THEOREM OnlyLastCutCorrect == Spec => OnlyLastCut
<1>1. Inv /\ [Next]_vars => [ret' # ret => r = Len(ret)]_vars
  <2> SUFFICES ASSUME Inv, Next, ret' # ret PROVE r = Len(ret)
    OBVIOUS
  <2>1. CASE Remove \/ Split \/ CutLeft \/ CutRight
    BY <2>1, RemoveCuts, SplitCuts, CutLeftCuts, CutRightCuts DEF Inv, Cuts
  <2> QED
    BY <2>1 DEF Next, Skip, NextRange
<1> QED
  BY <1>1, InvCorrect, PTL DEF Spec, OnlyLastCut
-----------------------------------------------------------------------------
(* What the gaps are *)

\* no partition ends more than a byte before it starts: those of no length do not
Even == \A disk \in Disks : \A n \in DOMAIN disk.parts : disk.parts[n].start <= disk.parts[n].last + 1

\* Then no range does that there is a gap to cut with: the room for the backup GPT starts
\* behind the end of a disk that is smaller, but there the first MiB has left no gap.
LEMMA EvenRange ==
  ASSUME Even, Inv, AtWork
  PROVE  i.start <= i.last + 1
<1>0. /\ Place /\ Listed /\ d \in Disks /\ k \in DOMAIN used /\ r \in DOMAIN ret /\ i = used[k]
      /\ gap.start \in Nat /\ gap.last \in Nat /\ gap.start <= gap.last /\ gap.last <= d.size
      /\ d.size \in Nat /\ d.size < Word /\ DOMAIN used = 1 .. Len(used) /\ Len(used) \in Nat
      /\ MiB \in Nat /\ Reserve \in Nat /\ Reserve < MiB
  BY Numbers, SizesAssumption DEF Inv, Place, Listed, i
<1>1. CASE i = FirstMiB
  BY <1>0, <1>1 DEF FirstMiB
<1>2. CASE \E m \in DOMAIN d.parts : i = d.parts[m]
  BY <1>0, <1>2 DEF Even
<1>3. CASE i = BackupRoom(d)
  <2>1. i.start = End(d) /\ i.last = d.size /\ End(d) \in Nat
    <3>1. BackupRoom(d).start = End(d) /\ BackupRoom(d).last = d.size
      BY DEF BackupRoom
    <3>2. End(d) \in Nat
      <4>1. RoundedEnd(d.size) \in 0 .. Word - 1
        BY <1>0, RoundedEndType
      <4> QED
        BY <4>1, SizesAssumption DEF End
    <3> QED
      BY <1>3, <3>1, <3>2
  <2>2. CASE Reserve <= d.size
    <3>1. End(d) <= d.size
      BY <1>0, <2>2, RoundedEndLow DEF End
    <3> QED
      BY <1>0, <2>1, <3>1
  <2>3. CASE d.size < Reserve /\ 0 < End(d)
    <3>1. PICK n \in DOMAIN used : used[n] = FirstMiB
      BY <1>0 DEF Listed
    <3>2. used[n].start = 0 /\ used[n].last = MiB - 1
      BY <3>1 DEF FirstMiB
    <3>3. n < k
      <4>1. ~(k < n) /\ k # n
        BY <1>0, <2>1, <2>3, <3>2 DEF Listed
      <4> QED
        BY <1>0, <4>1
    <3>4. ~In(gap.start, used[n])
      BY <1>0, <3>3 DEF Inv, Clear, gap
    <3>5. In(gap.start, used[n])
      BY <1>0, <2>3, <3>2 DEF In
    <3> QED
      BY <3>4, <3>5
  <2> QED
    BY <1>0, <2>1, <2>2, <2>3
<1> QED
  BY <1>0, <1>1, <1>2, <1>3 DEF Listed

Ascending == \A m, n \in DOMAIN ret : m < n => ret[m].last < ret[n].start

LEMMA AscendingStep ==
  ASSUME Even, Inv, Ascending, [Next]_vars
  PROVE  Ascending'
<1>1. ASSUME Cuts PROVE Ascending'
  <2>0. /\ i.start <= i.last + 1 /\ i.start \in Nat /\ i.last \in Nat /\ r = Len(ret)
        /\ DOMAIN ret = 1 .. Len(ret) /\ Len(ret) \in Nat /\ r \in Nat /\ r \in DOMAIN ret
        /\ gap.start \in Nat /\ DOMAIN ret' = 1 .. Len(ret') /\ Len(ret') \in Nat
        /\ d.size \in Nat
    <3>1. AtWork
      BY <1>1 DEF Cuts, AtWork, Inv, Place
    <3> QED
      BY <1>1, <3>1, EvenRange, Numbers DEF Inv, Place, Cuts
  <2> SUFFICES ASSUME NEW m \in DOMAIN ret', NEW n \in DOMAIN ret', m < n
               PROVE  ret'[m].last < ret'[n].start
    BY DEF Ascending
  <2>1. /\ ret'[m] \in GapsIn(d.size) /\ ret'[n] \in GapsIn(d.size)
        /\ ret'[m].last \in Nat /\ ret'[n].start \in Nat
    BY <1>1, <2>0 DEF Cuts, GapsIn
  <2>2. CASE n < r
    <3>1. m \in DOMAIN ret /\ n \in DOMAIN ret /\ ret'[m] = ret[m] /\ ret'[n] = ret[n]
      BY <1>1, <2>0, <2>2 DEF Cuts
    <3> QED
      BY <3>1 DEF Ascending
  <2>3. CASE m < r /\ n >= r
    <3>1. m \in DOMAIN ret /\ ret'[m] = ret[m] /\ gap.start <= ret'[n].start
      BY <1>1, <2>0, <2>3 DEF Cuts
    <3>2. ret[m].last < gap.start
      BY <2>0, <2>3, <3>1 DEF Ascending, gap
    <3> QED
      BY <2>0, <2>1, <3>1, <3>2
  <2>4. CASE m >= r
    <3>1. n > r /\ n >= r /\ m < Len(ret')
      BY <2>0, <2>4
    <3>2. ret'[m].last < i.start /\ i.last < ret'[n].start
      BY <1>1, <2>4, <3>1 DEF Cuts
    <3> QED
      BY <2>0, <2>1, <3>2
  <2> QED
    BY <2>0, <2>2, <2>3, <2>4
<1>2. CASE ret' = ret
  BY <1>2 DEF Ascending
<1>3. CASE Remove \/ Split \/ CutLeft \/ CutRight
  BY <1>1, <1>3, RemoveCuts, SplitCuts, CutLeftCuts, CutRightCuts DEF Inv
<1> QED
  BY <1>2, <1>3 DEF Next, Skip, NextRange, vars

LEMMA AscendingCorrect == ASSUME Even PROVE Spec => []Ascending
<1>1. Init => Ascending
  BY DEF Init, Ascending
<1>2. Inv /\ Ascending /\ [Next]_vars => Ascending'
  BY AscendingStep
<1> QED
  BY <1>1, <1>2, InvCorrect, PTL DEF Spec

\* The gaps are never empty and in ascending order, and a byte is in one of them exactly
\* when no range gone over so far has it, whatever overlaps, repeats or has no length.
THEOREM GapsExactCorrect == ASSUME Even PROVE Spec => []GapsExact
<1>1. Inv /\ Ascending => GapsExact
  <2> SUFFICES ASSUME Inv, Ascending PROVE GapsExact
    OBVIOUS
  <2>1. /\ ret \in Seq(GapsIn(d.size)) /\ DOMAIN ret = 1 .. Len(ret) /\ d.size \in Nat
        /\ DOMAIN used = 1 .. Len(used) /\ Len(ret) \in Nat /\ Len(used) \in Nat
        /\ k \in 1 .. Len(used) + 1 /\ r \in 1 .. Len(ret) + 1
    BY SizesAssumption, DisksAssumption DEF Inv, Place, Listed
  <2>2. \A n \in DOMAIN ret : ret[n].start <= ret[n].last
    BY <2>1 DEF GapsIn
  <2>3. ASSUME k <= Len(used), r > Len(ret), NEW x \in 0 .. d.size
        PROVE  (\E n \in DOMAIN ret : In(x, ret[n])) <=> (\A m \in 1 .. k : ~In(x, used[m]))
    <3>1. ASSUME NEW n \in DOMAIN ret, In(x, ret[n]), NEW m \in 1 .. k
          PROVE  ~In(x, used[m])
      <4>1. m \in DOMAIN used /\ (m < k \/ (m = k /\ n < r))
        BY <2>1, <2>3
      <4>2. ret[n].start \in Int /\ ret[n].last \in Int
        BY <2>1 DEF GapsIn
      <4>3. x \in ret[n].start .. ret[n].last
        BY <3>1, <4>2 DEF In
      <4> QED
        BY <4>1, <4>3 DEF Inv, Clear
    <3>2. ASSUME \A m \in 1 .. k : ~In(x, used[m])
          PROVE  \E n \in DOMAIN ret : In(x, ret[n])
      <4>1. \A m \in DOMAIN used : m <= k => m \in 1 .. k
        BY <2>1
      <4> QED
        BY <3>2, <4>1 DEF Inv, Cover
    <3> QED
      BY <3>1, <3>2
  <2> QED
    BY <2>2, <2>3 DEF GapsExact, Ascending
<1> QED
  BY <1>1, InvCorrect, AscendingCorrect, PTL

\* A partition that fills a free space is one the library takes, and touches no other
\* and nothing the table needs, as long as an MBR can address the whole of its disk.
THEOREM FreeUsableCorrect ==
  ASSUME \A disk \in Disks : disk.table = "mbr" => disk.size <= MBRBytes
  PROVE  Spec => []FreeUsable
<1>1. Inv => FreeUsable
  <2> SUFFICES ASSUME Inv, Finished, NEW g \in Free
               PROVE  /\ Accepted(d, g)
                      /\ g.start >= MiB /\ g.last < End(d)
                      /\ \A n \in DOMAIN d.parts : \A x \in g.start .. g.last : ~In(x, d.parts[n])
    BY DEF FreeUsable
  <2>0. /\ d \in Disks /\ d.size \in Nat /\ d.size < Word - 1 /\ Word \in Nat /\ MiB \in Nat
        /\ Reserve \in Nat /\ Reserve < MiB /\ MBRBytes \in Nat /\ MBRBytes < Word
        /\ d.table \in {"gpt", "mbr"} /\ Listed
    BY SizesAssumption, DisksAssumption DEF Inv, Place, Listed
  <2>1. PICK n \in DOMAIN ret : g = ret[n]
    BY DEF Free
  <2>2. /\ g \in GapsIn(d.size) /\ g.start \in Nat /\ g.last \in Nat /\ g.start <= g.last
        /\ g.last <= d.size
    BY <2>0, <2>1 DEF Inv, Place, GapsIn
  <2>3. ASSUME NEW m \in DOMAIN used, NEW x \in g.start .. g.last
        PROVE  ~In(x, used[m])
    <3>1. m < k
      BY <2>0 DEF Finished, Inv, Place, Listed
    <3> QED
      BY <2>1, <3>1 DEF Inv, Clear
  <2>4. g.start \in g.start .. g.last /\ g.last \in g.start .. g.last
    BY <2>2
  <2>5. g.start >= MiB
    <3>1. PICK m \in DOMAIN used : used[m] = FirstMiB
      BY <2>0 DEF Listed
    <3>2. ~In(g.start, FirstMiB)
      BY <2>3, <2>4, <3>1
    <3> QED
      BY <2>0, <2>2, <3>2 DEF In, FirstMiB
  <2>6. g.last < End(d)
    <3>1. PICK m \in DOMAIN used : used[m] = BackupRoom(d)
      BY <2>0 DEF Listed
    <3>2. ~In(g.last, BackupRoom(d))
      BY <2>3, <2>4, <3>1
    <3>3. End(d) \in Nat
      BY <2>0, RoundedEndType DEF End
    <3> QED
      BY <2>0, <2>2, <3>2, <3>3 DEF In, BackupRoom
  <2>7. ASSUME NEW m \in DOMAIN d.parts, NEW x \in g.start .. g.last
        PROVE  ~In(x, d.parts[m])
    BY <2>0, <2>3 DEF Listed
  <2>8. g.last < RoundedEnd(IF d.table = "mbr" THEN MBRBytes ELSE d.size)
    <3>1. CASE d.table = "mbr"
      <4>1. d.size <= MBRBytes /\ Reserve <= d.size
        BY <2>0, <2>2, <2>5, <3>1
      <4>2. RoundedEnd(d.size) <= RoundedEnd(MBRBytes)
        BY <2>0, <4>1, RoundedEndMono
      <4>3. RoundedEnd(d.size) \in Nat /\ RoundedEnd(MBRBytes) \in Nat
        BY <2>0, RoundedEndType
      <4>4. g.last < RoundedEnd(d.size)
        BY <2>6 DEF End
      <4> QED
        BY <2>2, <3>1, <4>2, <4>3, <4>4
    <3>2. CASE d.table # "mbr"
      BY <2>6, <3>2 DEF End
    <3> QED
      BY <3>1, <3>2
  <2> QED
    BY <2>5, <2>6, <2>7, <2>8 DEF Accepted
<1> QED
  BY <1>1, InvCorrect, PTL
=============================================================================
