--------------------------- MODULE WipeDiskProofs ---------------------------
(***************************************************************************)
(* Theorems about WipeDisk, for every size of the disk, every table the    *)
(* scan may have found, however bad, and every length of a MiB: what a     *)
(* Wipe zeroes, what it leaves alone, and in which order.                  *)
(***************************************************************************)
EXTENDS WipeDisk, SequenceTheorems, TLAPS

Spans == [start : Nat, size : Nat]
PartRanges == [start : Uint64, last : Uint64]

\* The smaller and the larger of two numbers.
LEMMA MinMaxOfTwo ==
  ASSUME NEW a \in Int, NEW b \in Int
  PROVE  /\ Min({a, b}) = IF a <= b THEN a ELSE b
         /\ Max({a, b}) = IF a <= b THEN b ELSE a
<1> DEFINE m == IF a <= b THEN a ELSE b
           x == IF a <= b THEN b ELSE a
<1>1. m \in {a, b} /\ \A y \in {a, b} : m <= y
  OBVIOUS
<1>2. \A n \in {a, b} : (\A y \in {a, b} : n <= y) => n = m
  OBVIOUS
<1>3. x \in {a, b} /\ \A y \in {a, b} : x >= y
  OBVIOUS
<1>4. \A n \in {a, b} : (\A y \in {a, b} : n >= y) => n = x
  OBVIOUS
<1> HIDE DEF m, x
<1>5. Min({a, b}) = m
  BY <1>1, <1>2 DEF Min
<1>6. Max({a, b}) = x
  BY <1>3, <1>4 DEF Max
<1> QED
  BY <1>5, <1>6 DEF m, x

\* The elements of a sequence of one, of two sequences together, and of a sequence's
\* first element and the others.
LEMMA RangeOne ==
  ASSUME NEW S, NEW e \in S
  PROVE  <<e>> \in Seq(S) /\ Range(<<e>>) = {e}
BY DEF Range

LEMMA RangeNone == \A S : <<>> \in Seq(S) /\ Range(<<>>) = {}
BY DEF Range

LEMMA RangeBoth ==
  ASSUME NEW S, NEW s \in Seq(S), NEW t \in Seq(S)
  PROVE  s \o t \in Seq(S) /\ Range(s \o t) = Range(s) \union Range(t)
<1>2. s \o t \in Seq(S)
  BY ConcatProperties
<1>3. Range(s \o t) = Range(s) \union Range(t)
  <2>1. /\ Len(s) \in Nat /\ Len(t) \in Nat /\ DOMAIN s = 1 .. Len(s) /\ DOMAIN t = 1 .. Len(t)
        /\ DOMAIN (s \o t) = 1 .. Len(s) + Len(t)
    BY <1>2, LenProperties, ConcatProperties
  <2>2. \A n \in 1 .. Len(s) + Len(t) : (s \o t)[n] = IF n <= Len(s) THEN s[n] ELSE t[n - Len(s)]
    BY ConcatProperties
  <2>3. ASSUME NEW n \in 1 .. Len(s) + Len(t) PROVE (s \o t)[n] \in Range(s) \union Range(t)
    <3>1. CASE n <= Len(s)
      BY <2>1, <2>2, <3>1 DEF Range
    <3>2. CASE ~(n <= Len(s))
      <4>1. n - Len(s) \in 1 .. Len(t) /\ (s \o t)[n] = t[n - Len(s)]
        BY <2>1, <2>2, <3>2
      <4> QED
        BY <2>1, <4>1 DEF Range
    <3> QED
      BY <3>1, <3>2
  <2>4. ASSUME NEW n \in 1 .. Len(s) PROVE s[n] \in Range(s \o t)
    BY <2>1, <2>2 DEF Range
  <2>5. ASSUME NEW n \in 1 .. Len(t) PROVE t[n] \in Range(s \o t)
    <3>1. n + Len(s) \in 1 .. Len(s) + Len(t) /\ (s \o t)[n + Len(s)] = t[n]
      BY <2>1, <2>2
    <3> QED
      BY <2>1, <3>1 DEF Range
  <2> QED
    BY <2>1, <2>3, <2>4, <2>5 DEF Range
<1> QED
  BY <1>2, <1>3

LEMMA RangeHeadTail ==
  ASSUME NEW S, NEW s \in Seq(S), s # <<>>
  PROVE  /\ Head(s) \in S /\ Tail(s) \in Seq(S)
         /\ Range(s) = {Head(s)} \union Range(Tail(s))
<1>1. /\ Head(s) \in S /\ Tail(s) \in Seq(S) /\ Len(Tail(s)) = Len(s) - 1
      /\ \A n \in 1 .. Len(Tail(s)) : Tail(s)[n] = s[n + 1]
  BY HeadTailProperties
<1>2. Head(s) = s[1] /\ Len(s) \in Nat /\ Len(s) >= 1 /\ DOMAIN s = 1 .. Len(s)
      /\ DOMAIN Tail(s) = 1 .. Len(Tail(s))
  BY <1>1, EmptySeq, LenProperties
<1>3. ASSUME NEW n \in 1 .. Len(s) PROVE s[n] \in {Head(s)} \union Range(Tail(s))
  <2>1. CASE n = 1
    BY <1>2, <2>1
  <2>2. CASE n # 1
    <3>1. n - 1 \in 1 .. Len(Tail(s)) /\ Tail(s)[n - 1] = s[n]
      BY <1>1, <1>2, <2>2
    <3> QED
      BY <1>2, <3>1 DEF Range
  <2> QED
    BY <2>1, <2>2
<1>4. ASSUME NEW n \in 1 .. Len(Tail(s)) PROVE Tail(s)[n] \in Range(s)
  <2>1. n + 1 \in 1 .. Len(s) /\ Tail(s)[n] = s[n + 1]
    BY <1>1, <1>2
  <2> QED
    BY <1>2, <2>1 DEF Range
<1>5. Range(s) \subseteq {Head(s)} \union Range(Tail(s))
  BY <1>2, <1>3 DEF Range
<1>6. Range(Tail(s)) \subseteq Range(s)
  BY <1>2, <1>4 DEF Range
<1>7. Head(s) \in Range(s)
  BY <1>2 DEF Range
<1> QED
  BY <1>1, <1>5, <1>6, <1>7
-----------------------------------------------------------------------------
(* zeroStartEnd *)

\* the VMFS mark at m, when the disk has room for it
Mark(m, last) == IF last > m + Magic THEN {[start |-> m, size |-> Magic]} ELSE {}

\* The writes of the three cases, as a set.
LEMMA PlannedWrites ==
  ASSUME NEW start \in Nat, NEW last \in Nat, start < last
  PROVE  /\ Planned(start, last) \in Seq(Spans)
         /\ start + MiB >= last =>
              Range(Planned(start, last)) = {[start |-> start, size |-> last - start]}
         /\ start + MiB < last /\ start + MiB >= last - MiB =>
              Range(Planned(start, last)) =
                {[start |-> start, size |-> MiB],
                 [start |-> start + MiB, size |-> last - (start + MiB)]}
         /\ start + MiB < last - MiB =>
              Range(Planned(start, last)) =
                {[start |-> start, size |-> MiB], [start |-> last - MiB, size |-> MiB]}
                  \union Mark(MiB, last) \union Mark(2 * MiB, last)
<1>0. MiB \in Nat /\ Magic \in Nat /\ 0 < Magic /\ Magic < MiB
  BY BytesAssumption
<1>1. CASE start + MiB >= last
  <2> DEFINE w == [start |-> start, size |-> last - start]
  <2>1. w \in Spans /\ Planned(start, last) = <<w>>
    BY <1>0, <1>1 DEF Planned, Spans
  <2> QED
    BY <1>0, <1>1, <2>1, RangeOne
<1>2. CASE start + MiB < last /\ start + MiB >= last - MiB
  <2> DEFINE v == [start |-> start, size |-> MiB]
             w == [start |-> start + MiB, size |-> last - (start + MiB)]
  <2>1. v \in Spans /\ w \in Spans /\ Planned(start, last) = <<v, w>>
    BY <1>0, <1>2 DEF Planned, Spans
  <2>2. <<v, w>> \in Seq(Spans) /\ Range(<<v, w>>) = {v, w}
    BY <2>1 DEF Range
  <2> QED
    BY <1>0, <1>2, <2>1, <2>2
<1>3. CASE start + MiB < last - MiB
  <2> DEFINE v == [start |-> start, size |-> MiB]
             w == [start |-> last - MiB, size |-> MiB]
             a == IF last > MiB + Magic THEN <<[start |-> MiB, size |-> Magic]>> ELSE <<>>
             b == IF last > 2 * MiB + Magic THEN <<[start |-> 2 * MiB, size |-> Magic]>> ELSE <<>>
  <2>1. v \in Spans /\ w \in Spans
    BY <1>0, <1>3 DEF Spans
  <2>2. Planned(start, last) = <<v>> \o a \o b \o <<w>>
    BY <1>0, <1>3 DEF Planned
  <2>3. a \in Seq(Spans) /\ Range(a) = Mark(MiB, last)
    <3>1. [start |-> MiB, size |-> Magic] \in Spans
      BY <1>0 DEF Spans
    <3> QED
      BY <3>1, RangeOne, RangeNone DEF Mark
  <2>4. b \in Seq(Spans) /\ Range(b) = Mark(2 * MiB, last)
    <3>1. [start |-> 2 * MiB, size |-> Magic] \in Spans
      BY <1>0 DEF Spans
    <3> QED
      BY <3>1, RangeOne, RangeNone DEF Mark
  <2> DEFINE p == <<v>>
             q == <<w>>
  <2>5. p \in Seq(Spans) /\ Range(p) = {v} /\ q \in Seq(Spans) /\ Range(q) = {w}
    BY <2>1, RangeOne
  <2> HIDE DEF a, b, p, q
  <2> DEFINE x == p \o a
             y == x \o b
             z == y \o q
  <2>6. x \in Seq(Spans) /\ Range(x) = {v} \union Mark(MiB, last)
    BY <2>3, <2>5, RangeBoth
  <2> HIDE DEF x, v, w
  <2>7. y \in Seq(Spans) /\ Range(y) = Range(x) \union Range(b)
    BY <2>4, <2>6, RangeBoth
  <2> HIDE DEF y
  <2>8. z \in Seq(Spans) /\ Range(z) = Range(y) \union Range(q)
    BY <2>5, <2>7, RangeBoth
  <2>9. /\ Planned(start, last) \in Seq(Spans)
        /\ Range(Planned(start, last)) = {v, w} \union Mark(MiB, last) \union Mark(2 * MiB, last)
    BY <2>2, <2>4, <2>5, <2>6, <2>7, <2>8 DEF p, q, v, w, x, y
  <2> QED
    BY <1>0, <1>3, <2>9 DEF v, w
<1> QED
  BY <1>0, <1>1, <1>2, <1>3

\* The bytes of the ends.
LEMMA EndsBytes ==
  ASSUME NEW start \in Nat, NEW last \in Nat
  PROVE  \A x : x \in Ends(start, last) <=>
           x \in Int /\ start <= x /\ x < last /\ (x < start + MiB \/ x >= last - MiB)
<1>1. MiB \in Nat /\ start + MiB \in Int /\ last - MiB \in Int
  BY BytesAssumption
<1> DEFINE p == start + MiB
           q == last - MiB
<1>3. p \in Int /\ q \in Int /\ start \in Int /\ last \in Int
  BY <1>1
<1> HIDE DEF p, q
<1>2. /\ Min({p, last}) = IF p <= last THEN p ELSE last
      /\ Max({start, q}) = IF start <= q THEN q ELSE start
  BY <1>3, MinMaxOfTwo
<1> QED
  BY <1>1, <1>2 DEF Ends, p, q

\* A write that has room in the first m bytes.
LEMMA BytesInside ==
  ASSUME NEW w \in Spans, NEW m \in Nat, 0 < w.size, w.start + w.size <= m
  PROVE  Bytes(w) # {} /\ Bytes(w) \subseteq 0 .. m - 1
<1>1. w.start \in Nat /\ w.size \in Nat
  BY DEF Spans
<1>2. w.start \in Bytes(w)
  BY <1>1 DEF Bytes
<1>3. Bytes(w) \subseteq 0 .. m - 1
  BY <1>1 DEF Bytes
<1> QED
  BY <1>2, <1>3

Covered(ws) == UNION {Bytes(w) : w \in Range(ws)}

\* What the planned writes stay within, and what they reach.
LEMMA PlannedBytes ==
  ASSUME NEW start \in Nat, NEW last \in Nat, start < last
  PROVE  /\ Planned(start, last) \in Seq(Spans)
         /\ \A w \in Range(Planned(start, last)) :
              /\ Bytes(w) # {}
              /\ Bytes(w) \subseteq 0 .. last - 1
              /\ Bytes(w) \subseteq Ends(start, last) \union VMFS
         /\ Ends(start, last) \subseteq Covered(Planned(start, last))
         /\ start = 0 /\ last > 2 * MiB + Magic => VMFS \subseteq Covered(Planned(start, last))
<1> DEFINE ws == Planned(start, last)
<1>0. MiB \in Nat /\ Magic \in Nat /\ 0 < Magic /\ Magic < MiB
  BY BytesAssumption
<1>1. ws \in Seq(Spans)
  BY PlannedWrites
<1>2. CASE start + MiB >= last
  <2> DEFINE w == [start |-> start, size |-> last - start]
  <2>1. Range(ws) = {w}
    BY <1>2, PlannedWrites
  <2>2. Bytes(w) = start .. last - 1
    BY DEF Bytes
  <2>3. Covered(ws) = start .. last - 1
    BY <2>1, <2>2 DEF Covered
  <2> HIDE DEF w, ws
  <2>4. Bytes(w) # {} /\ Bytes(w) \subseteq 0 .. last - 1
    BY <2>2
  <2>5. Bytes(w) \subseteq Ends(start, last) /\ Ends(start, last) \subseteq start .. last - 1
    BY <1>0, <1>2, <2>2, EndsBytes
  <2> QED
    BY <1>0, <1>1, <1>2, <2>1, <2>3, <2>4, <2>5 DEF ws
<1>3. CASE start + MiB < last /\ start + MiB >= last - MiB
  <2> DEFINE v == [start |-> start, size |-> MiB]
             w == [start |-> start + MiB, size |-> last - (start + MiB)]
  <2>1. Range(ws) = {v, w}
    BY <1>3, PlannedWrites
  <2>2. Bytes(v) = start .. start + MiB - 1 /\ Bytes(w) = start + MiB .. last - 1
    BY <1>0 DEF Bytes
  <2>3. Covered(ws) = start .. last - 1
    <3>1. Covered(ws) = Bytes(v) \union Bytes(w)
      BY <2>1 DEF Covered
    <3> QED
      BY <1>0, <1>3, <2>2, <3>1
  <2>4. /\ Bytes(v) # {} /\ Bytes(v) \subseteq 0 .. last - 1
        /\ Bytes(w) # {} /\ Bytes(w) \subseteq 0 .. last - 1
    <3>1. v \in Spans /\ 0 < v.size /\ v.start + v.size <= last
      BY <1>0, <1>3 DEF Spans
    <3>2. w \in Spans /\ 0 < w.size /\ w.start + w.size <= last
      BY <1>0, <1>3 DEF Spans
    <3> QED
      BY <3>1, <3>2, BytesInside
  <2> HIDE DEF v, w, ws
  <2>5. Bytes(v) \subseteq Ends(start, last) /\ Bytes(w) \subseteq Ends(start, last)
    BY <1>0, <1>3, <2>2, EndsBytes
  <2>6. Ends(start, last) \subseteq start .. last - 1
    BY EndsBytes
  <2>7. \A x \in Range(ws) : x = v \/ x = w
    BY <2>1
  <2>8. ~(start = 0 /\ last > 2 * MiB + Magic)
    BY <1>0, <1>3
  <2>9. \A x \in Range(ws) : Bytes(x) # {} /\ Bytes(x) \subseteq 0 .. last - 1
                             /\ Bytes(x) \subseteq Ends(start, last)
    BY <2>4, <2>5, <2>7
  <2> QED
    BY <1>1, <2>3, <2>6, <2>8, <2>9 DEF ws
<1>4. CASE start + MiB < last - MiB
  <2> DEFINE v == [start |-> start, size |-> MiB]
             w == [start |-> last - MiB, size |-> MiB]
             a == [start |-> MiB, size |-> Magic]
             b == [start |-> 2 * MiB, size |-> Magic]
  <2>1. Range(ws) = {v, w} \union Mark(MiB, last) \union Mark(2 * MiB, last)
    BY <1>4, PlannedWrites
  <2>2. /\ Bytes(v) = start .. start + MiB - 1 /\ Bytes(w) = last - MiB .. last - 1
        /\ Bytes(a) = MiB .. MiB + Magic - 1 /\ Bytes(b) = 2 * MiB .. 2 * MiB + Magic - 1
    BY <1>0 DEF Bytes
  <2>3. Mark(MiB, last) = IF last > MiB + Magic THEN {a} ELSE {}
    BY DEF Mark
  <2>4. Mark(2 * MiB, last) = IF last > 2 * MiB + Magic THEN {b} ELSE {}
    BY DEF Mark
  <2>5. /\ Bytes(v) # {} /\ Bytes(v) \subseteq 0 .. last - 1
        /\ Bytes(w) # {} /\ Bytes(w) \subseteq 0 .. last - 1
    <3>1. v \in Spans /\ 0 < v.size /\ v.start + v.size <= last
      BY <1>0, <1>4 DEF Spans
    <3>2. w \in Spans /\ 0 < w.size /\ w.start + w.size <= last
      BY <1>0, <1>4 DEF Spans
    <3> QED
      BY <3>1, <3>2, BytesInside
  <2>6. last > MiB + Magic => Bytes(a) # {} /\ Bytes(a) \subseteq 0 .. last - 1
    <3>1. a \in Spans /\ 0 < a.size /\ a.start + a.size = MiB + Magic
      BY <1>0 DEF Spans
    <3> QED
      BY <1>0, <3>1, BytesInside
  <2>7. last > 2 * MiB + Magic => Bytes(b) # {} /\ Bytes(b) \subseteq 0 .. last - 1
    <3>1. b \in Spans /\ 0 < b.size /\ b.start + b.size = 2 * MiB + Magic
      BY <1>0 DEF Spans
    <3> QED
      BY <1>0, <3>1, BytesInside
  <2> HIDE DEF v, w, a, b, ws
  <2>8. Bytes(v) \subseteq Ends(start, last) /\ Bytes(w) \subseteq Ends(start, last)
    BY <1>0, <1>4, <2>2, EndsBytes
  <2>9. Ends(start, last) \subseteq Bytes(v) \union Bytes(w)
    BY <1>0, <1>4, <2>2, EndsBytes
  <2>10. VMFS = Bytes(a) \union Bytes(b)
    BY <2>2 DEF VMFS
  <2>11. \A x \in Range(ws) : \/ x = v \/ x = w
                              \/ x = a /\ last > MiB + Magic
                              \/ x = b /\ last > 2 * MiB + Magic
    BY <2>1, <2>3, <2>4
  <2>12. \A x \in Range(ws) : /\ Bytes(x) # {} /\ Bytes(x) \subseteq 0 .. last - 1
                              /\ Bytes(x) \subseteq Ends(start, last) \union VMFS
    BY <2>5, <2>6, <2>7, <2>8, <2>10, <2>11
  <2>13. v \in Range(ws) /\ w \in Range(ws)
    BY <2>1
  <2>14. Ends(start, last) \subseteq Covered(ws)
    BY <2>9, <2>13 DEF Covered
  <2>15. last > 2 * MiB + Magic => a \in Range(ws) /\ b \in Range(ws)
    BY <1>0, <2>1, <2>3, <2>4
  <2>16. last > 2 * MiB + Magic => VMFS \subseteq Covered(ws)
    BY <2>10, <2>15 DEF Covered
  <2> QED
    BY <1>1, <2>12, <2>14, <2>16 DEF ws
<1> QED
  BY <1>0, <1>2, <1>3, <1>4
-----------------------------------------------------------------------------
(* The inductive invariant *)

Own(n) == Ends(disk.parts[n].start, Min({disk.parts[n].last, disk.size}))
Allowed == Ends(0, disk.size) \union VMFS \union UNION {Own(n) : n \in DOMAIN disk.parts}
Taken == Len(disk.parts) - Len(todo)

\* what is left to do are the last of the scan's partitions, in the scan's order
TypeInv ==
  /\ disk \in Disks
  /\ writes \in Seq(Spans)
  /\ todo \in Seq(PartRanges)
  /\ Len(todo) <= Len(disk.parts)
  /\ \A n \in 1 .. Len(todo) : todo[n] = disk.parts[Taken + n]

\* what is zeroed or will be belongs to the ends
WithinInv ==
  /\ \A w \in Range(writes) :
       Bytes(w) # {} /\ Bytes(w) \subseteq 0 .. disk.size - 1 /\ Bytes(w) \subseteq Allowed
  /\ zeroed \subseteq Allowed

\* as long as nothing has failed, what should be zeroed by now is, or is planned
ReachInv ==
  /\ outcome \in {"running", "ok"} =>
       LET sure == zeroed \union Covered(writes)
       IN  /\ Ends(0, disk.size) \subseteq sure
           /\ disk.size > 2 * MiB + Magic => VMFS \subseteq sure
           /\ \A n \in 1 .. Taken : Own(n) \subseteq sure
  /\ outcome = "ok" => writes = <<>> /\ todo = <<>>

Inv == TypeInv /\ WithinInv /\ ReachInv

LEMMA DiskShape ==
  ASSUME TypeInv
  PROVE  /\ disk.size \in Nat /\ disk.size < Int63 /\ Int63 \in Nat
         /\ disk.parts \in Seq(PartRanges)
         /\ Len(disk.parts) \in Nat /\ DOMAIN disk.parts = 1 .. Len(disk.parts)
         /\ Len(todo) \in Nat /\ Taken \in Nat
<1>1. /\ disk.size \in Nat /\ disk.size < Int63 /\ Int63 \in Nat
      /\ disk.parts \in Seq(PartRanges)
  BY DisksAssumption DEF TypeInv, PartRanges
<1>2. /\ Len(disk.parts) \in Nat /\ DOMAIN disk.parts = 1 .. Len(disk.parts)
      /\ Len(todo) \in Nat
  BY <1>1, LenProperties DEF TypeInv
<1> QED
  BY <1>1, <1>2 DEF TypeInv, Taken

LEMMA InitInv == Init => Inv
<1> SUFFICES ASSUME Init PROVE Inv
  OBVIOUS
<1>1. disk \in Disks /\ disk.size \in Nat /\ disk.parts \in Seq(PartRanges) /\ todo = disk.parts
  BY DisksAssumption DEF Init, PartRanges
<1>2. Len(todo) \in Nat /\ Taken = 0
  BY <1>1, LenProperties DEF Taken
<1>3. CASE disk.size <= 0
  <2>1. outcome = "range" /\ writes = <<>> /\ zeroed = {}
    BY <1>3 DEF Init
  <2>2. writes \in Seq(Spans) /\ Range(writes) = {}
    BY <2>1, RangeNone
  <2>3. TypeInv
    BY <1>1, <1>2, <2>2 DEF TypeInv
  <2> QED
    BY <2>1, <2>2, <2>3 DEF Inv, WithinInv, ReachInv
<1>4. CASE 0 < disk.size
  <2>1. outcome = "running" /\ writes = Planned(0, disk.size) /\ zeroed = {}
    BY <1>1, <1>4 DEF Init
  <2>2. /\ writes \in Seq(Spans)
        /\ \A w \in Range(writes) :
             /\ Bytes(w) # {}
             /\ Bytes(w) \subseteq 0 .. disk.size - 1
             /\ Bytes(w) \subseteq Ends(0, disk.size) \union VMFS
        /\ Ends(0, disk.size) \subseteq Covered(writes)
        /\ disk.size > 2 * MiB + Magic => VMFS \subseteq Covered(writes)
    BY <1>1, <1>4, <2>1, PlannedBytes
  <2>3. TypeInv
    BY <1>1, <1>2, <2>2 DEF TypeInv
  <2>4. WithinInv
    BY <2>1, <2>2 DEF WithinInv, Allowed
  <2>5. ReachInv
    BY <1>2, <2>1, <2>2 DEF ReachInv
  <2> QED
    BY <2>3, <2>4, <2>5 DEF Inv
<1> QED
  BY <1>1, <1>3, <1>4

LEMMA WriteInv == Inv /\ Write => Inv'
<1> SUFFICES ASSUME Inv, Write PROVE Inv'
  OBVIOUS
<1>1. /\ writes \in Seq(Spans) /\ writes # <<>> /\ writes' = Tail(writes)
      /\ outcome = "running" /\ UNCHANGED <<disk, todo>>
  BY DEF Inv, TypeInv, Write
<1> DEFINE h == Head(writes)
<1>2. /\ h \in Spans /\ writes' \in Seq(Spans)
      /\ Range(writes) = {h} \union Range(writes')
  BY <1>1, RangeHeadTail
<1>3. zeroed' \subseteq zeroed \union Bytes(h)
  BY DEF Write
<1>4. /\ outcome' \in {"running", "failed"}
      /\ outcome' = "running" => zeroed' = zeroed \union Bytes(h)
  BY <1>1 DEF Write
<1> HIDE DEF h
<1>5. TypeInv'
  BY <1>1, <1>2 DEF Inv, TypeInv, Taken
<1>6. Allowed' = Allowed
  BY <1>1 DEF Allowed, Own
<1>7. WithinInv'
  <2>1. \A w \in Range(writes') : w \in Range(writes)
    BY <1>2
  <2>2. Bytes(h) \subseteq Allowed
    BY <1>2 DEF Inv, WithinInv
  <2> QED
    BY <1>1, <1>3, <1>6, <2>1, <2>2 DEF Inv, WithinInv
<1>8. ReachInv'
  <2>1. Covered(writes) = Bytes(h) \union Covered(writes')
    BY <1>2 DEF Covered
  <2>2. outcome' = "running" =>
          zeroed' \union Covered(writes') = zeroed \union Covered(writes)
    BY <1>4, <2>1
  <2> QED
    BY <1>1, <1>4, <2>2 DEF Inv, ReachInv, Taken, Own
<1> QED
  BY <1>5, <1>7, <1>8 DEF Inv

LEMMA NextPartInv == Inv /\ NextPart => Inv'
<1> SUFFICES ASSUME Inv, NextPart PROVE Inv'
  OBVIOUS
<1> DEFINE p == Head(todo)
           end == IF p.last > disk.size THEN disk.size ELSE p.last
<1>1. /\ writes = <<>> /\ todo # <<>> /\ todo' = Tail(todo) /\ outcome = "running"
      /\ todo \in Seq(PartRanges) /\ UNCHANGED <<disk, zeroed>>
  BY DEF Inv, TypeInv, NextPart
<1>2. /\ p \in PartRanges /\ todo' \in Seq(PartRanges) /\ Len(todo') = Len(todo) - 1
      /\ \A n \in 1 .. Len(todo') : todo'[n] = todo[n + 1]
      /\ p = todo[1] /\ Len(todo) >= 1
  BY <1>1, HeadTailProperties, EmptySeq, LenProperties
<1>3. ZeroStartEnd(Signed(p.start), Signed(end))
  BY DEF NextPart
<1>4. /\ disk.size \in Nat /\ disk.size < Int63 /\ Int63 \in Nat
      /\ disk.parts \in Seq(PartRanges)
      /\ Len(disk.parts) \in Nat /\ DOMAIN disk.parts = 1 .. Len(disk.parts)
      /\ Len(todo) \in Nat /\ Taken \in Nat
  BY DiskShape DEF Inv
<1>5. Taken + 1 \in DOMAIN disk.parts /\ p = disk.parts[Taken + 1] /\ Taken' = Taken + 1
  BY <1>1, <1>2, <1>4 DEF Inv, TypeInv, Taken
<1>6. /\ p.start \in Nat /\ p.last \in Nat /\ end \in Nat /\ end <= disk.size
      /\ p.start < 2 * Int63
  BY <1>2, <1>4 DEF PartRanges, Uint64
<1>7. end = Min({p.last, disk.size})
  BY <1>4, <1>6, MinMaxOfTwo
<1>8. Own(Taken + 1) = Ends(p.start, end)
  BY <1>5, <1>7 DEF Own
<1> HIDE DEF p, end
<1>9. Allowed' = Allowed /\ \A n : Own(n)' = Own(n)
  BY <1>1 DEF Allowed, Own
<1>10. Ends(p.start, end) \subseteq Allowed /\ VMFS \subseteq Allowed
  BY <1>5, <1>8 DEF Allowed
<1>11. \A n \in 1 .. Len(todo') : todo'[n] = disk.parts[Taken' + n]
  <2> SUFFICES ASSUME NEW n \in 1 .. Len(todo') PROVE todo'[n] = disk.parts[Taken' + n]
    OBVIOUS
  <2>1. todo'[n] = todo[n + 1] /\ n + 1 \in 1 .. Len(todo)
    BY <1>2, <1>4
  <2>2. todo[n + 1] = disk.parts[Taken + (n + 1)]
    BY <2>1 DEF Inv, TypeInv
  <2> QED
    BY <1>4, <1>5, <2>1, <2>2
<1>12. Range(writes) = {} /\ Covered(writes) = {}
  BY <1>1, RangeNone DEF Covered
<1> DEFINE start == Signed(p.start)
<1>15. Signed(end) = end /\ start \in Int /\ (0 <= start => start = p.start)
  BY <1>4, <1>6 DEF Signed
<1> HIDE DEF start
<1>16. ZeroStartEnd(start, end)
  BY <1>3, <1>15 DEF start
<1>13. CASE end <= start \/ start < 0
  <2>1. outcome' \in {"range", "failed"} /\ writes' = writes
    BY <1>6, <1>13, <1>15, <1>16 DEF ZeroStartEnd
  <2>2. TypeInv'
    BY <1>1, <1>2, <1>4, <1>11, <2>1 DEF Inv, TypeInv
  <2>3. WithinInv' /\ ReachInv'
    BY <1>1, <1>9, <1>12, <2>1 DEF Inv, WithinInv, ReachInv
  <2> QED
    BY <2>2, <2>3 DEF Inv
<1>14. CASE start < end /\ 0 <= start
  <2>0. start = p.start /\ p.start < end
    BY <1>14, <1>15
  <2>1. outcome' = outcome /\ writes' = Planned(p.start, end)
    BY <1>6, <1>14, <1>15, <1>16, <2>0 DEF ZeroStartEnd
  <2>2. /\ writes' \in Seq(Spans)
        /\ \A w \in Range(writes') :
             /\ Bytes(w) # {}
             /\ Bytes(w) \subseteq 0 .. end - 1
             /\ Bytes(w) \subseteq Ends(p.start, end) \union VMFS
        /\ Ends(p.start, end) \subseteq Covered(writes')
    BY <1>6, <2>0, <2>1, PlannedBytes
  <2>3. TypeInv'
    BY <1>1, <1>2, <1>4, <1>11, <2>2 DEF Inv, TypeInv
  <2>4. 0 .. end - 1 \subseteq 0 .. disk.size - 1
    BY <1>4, <1>6
  <2>5. WithinInv'
    BY <1>1, <1>9, <1>10, <2>2, <2>4 DEF Inv, WithinInv
  <2>6. \A n \in 1 .. Taken' : Own(n) \subseteq zeroed \union Covered(writes')
    <3> SUFFICES ASSUME NEW n \in 1 .. Taken' PROVE Own(n) \subseteq zeroed \union Covered(writes')
      OBVIOUS
    <3>1. CASE n = Taken + 1
      BY <1>8, <2>2, <3>1
    <3>2. CASE n # Taken + 1
      <4>1. n \in 1 .. Taken
        BY <1>4, <1>5, <3>2
      <4> QED
        BY <1>1, <1>12, <4>1 DEF Inv, ReachInv
    <3> QED
      BY <3>1, <3>2
  <2>7. /\ Ends(0, disk.size) \subseteq zeroed
        /\ disk.size > 2 * MiB + Magic => VMFS \subseteq zeroed
    BY <1>1, <1>12 DEF Inv, ReachInv
  <2>8. ReachInv'
    BY <1>1, <1>9, <2>1, <2>6, <2>7 DEF ReachInv
  <2> QED
    BY <2>3, <2>5, <2>8 DEF Inv
<1> QED
  BY <1>6, <1>13, <1>14, <1>15

\* The first two parts of the invariant say nothing of the outcome.
LEMMA FrameInv ==
  ASSUME TypeInv, WithinInv, UNCHANGED <<disk, todo, writes, zeroed>>
  PROVE  TypeInv' /\ WithinInv'
<1>1. TypeInv'
  BY DEF TypeInv, Taken
<1>2. Allowed' = Allowed
  BY DEF Allowed, Own
<1>3. WithinInv'
  BY <1>2 DEF WithinInv
<1> QED
  BY <1>1, <1>3

LEMMA StepInv == Inv /\ [Next]_vars => Inv'
<1> SUFFICES ASSUME Inv, [Next]_vars PROVE Inv'
  OBVIOUS
<1>1. CASE Write
  BY <1>1, WriteInv
<1>2. CASE NextPart
  BY <1>2, NextPartInv
<1>3. CASE Finish
  <2>1. UNCHANGED <<disk, todo, writes, zeroed>> /\ outcome = "running" /\ outcome' = "ok"
        /\ writes = <<>> /\ todo = <<>>
    BY <1>3 DEF Finish
  <2>2. TypeInv' /\ WithinInv'
    BY <2>1, FrameInv DEF Inv
  <2>3. ReachInv'
    BY <2>1 DEF Inv, ReachInv, Taken, Own
  <2> QED
    BY <2>2, <2>3 DEF Inv
<1>4. CASE UNCHANGED vars
  <2>1. UNCHANGED <<disk, todo, writes, zeroed, outcome>>
    BY <1>4 DEF vars
  <2>2. TypeInv' /\ WithinInv'
    BY <2>1, FrameInv DEF Inv
  <2>3. ReachInv'
    BY <2>1 DEF Inv, ReachInv, Taken, Own
  <2> QED
    BY <2>2, <2>3 DEF Inv
<1> QED
  BY <1>1, <1>2, <1>3, <1>4 DEF Next

THEOREM InvHolds == Spec => []Inv
<1>1. Init => Inv
  BY InitInv
<1>2. Inv /\ [Next]_vars => Inv'
  BY StepInv
<1> QED
  BY <1>1, <1>2, PTL DEF Spec
-----------------------------------------------------------------------------
(* The theorems *)

\* Every write that zeroStartEnd plans has something to write and lies inside the
\* disk, whatever the table says of the partitions' ends (disk.go:497-512).
THEOREM InsideDiskCorrect == Spec => []InsideDisk
<1>1. Inv => InsideDisk
  <2> SUFFICES ASSUME Inv, NEW n \in DOMAIN writes
               PROVE  Bytes(writes[n]) # {} /\ Bytes(writes[n]) \subseteq 0 .. disk.size - 1
    BY DEF InsideDisk
  <2>1. writes[n] \in Range(writes)
    BY DEF Range
  <2> QED
    BY <2>1 DEF Inv, WithinInv
<1> QED
  BY <1>1, InvHolds, PTL

\* Nothing but the ends of the disk and of its partitions and the places of the VMFS
\* marks is zeroed, in a Wipe that goes through and in one that fails anywhere.
THEOREM OnlyEndsCorrect == Spec => []OnlyEnds
<1>1. Inv => OnlyEnds
  BY DEF Inv, WithinInv, Allowed, Own, OnlyEnds
<1> QED
  BY <1>1, InvHolds, PTL

\* A Wipe that returns no error has zeroed the tables, the VMFS marks and the ends of
\* every partition of the scan.
THEOREM EndsGoneCorrect == Spec => []EndsGone
<1>1. Inv => EndsGone
  <2> SUFFICES ASSUME Inv, outcome = "ok" PROVE EndsGone
    BY DEF EndsGone
  <2>1. writes = <<>> /\ todo = <<>>
    BY DEF Inv, ReachInv
  <2>2. Covered(writes) = {}
    BY <2>1, RangeNone DEF Covered
  <2>3. DOMAIN disk.parts = 1 .. Taken
    <3>1. Len(todo) = 0
      BY <2>1
    <3>2. Len(disk.parts) \in Nat /\ DOMAIN disk.parts = 1 .. Len(disk.parts)
      BY DiskShape DEF Inv
    <3> QED
      BY <3>1, <3>2 DEF Taken
  <2> QED
    BY <2>2, <2>3 DEF Inv, ReachInv, Own, EndsGone
<1> QED
  BY <1>1, InvHolds, PTL

\* No partition is taken up before the disk's own ends are zeroed: a Wipe that stops
\* half way leaves no table for the partitions it has destroyed.
THEOREM TableFirstCorrect == Spec => TableFirst
<1>1. Inv /\ [Next]_vars => [todo' # todo => Ends(0, disk.size) \subseteq zeroed]_vars
  <2> SUFFICES ASSUME Inv, [Next]_vars, todo' # todo PROVE Ends(0, disk.size) \subseteq zeroed
    OBVIOUS
  <2>1. NextPart
    BY DEF Next, Write, Finish, vars
  <2>2. outcome = "running" /\ writes = <<>>
    BY <2>1 DEF NextPart
  <2>3. Covered(writes) = {}
    BY <2>2, RangeNone DEF Covered
  <2> QED
    BY <2>2, <2>3 DEF Inv, ReachInv
<1> QED
  BY <1>1, InvHolds, PTL DEF Spec, TableFirst
=============================================================================
