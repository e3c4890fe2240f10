--------------------------- MODULE PageTableProofs ---------------------------
(***************************************************************************)
(* Proofs about PageTable: types and the count of frames, and, below the   *)
(* third directory, that alloc_vm's search tells the truth: it leaves no   *)
(* free page behind, hands no page out twice, and faults at the end of a   *)
(* table only.  The search is a walk over positions (IsWalk), which ends   *)
(* because what it finds in use lies below Limit; the positions it comes   *)
(* to are Standing, where a probe finds a page free exactly if it is.      *)
(* ShapeInv is what makes it so.                                           *)
(***************************************************************************)
EXTENDS PageTable, NaturalLemmas

(* Quotient and remainder by FANOUT. *)
LEMMA Division ==
  ASSUME NEW n \in Nat
  PROVE  /\ n \div FANOUT \in Nat /\ n % FANOUT \in 0..FANOUT - 1
         /\ n = (n \div FANOUT) * FANOUT + (n % FANOUT)
  BY PageTableAssumption

LEMMA Quotient ==
  ASSUME NEW a \in Nat, NEW r \in 0..FANOUT - 1
  PROVE  (a * FANOUT + r) \div FANOUT = a /\ (a * FANOUT + r) % FANOUT = r
<1> DEFINE m == a * FANOUT + r
           k == m \div FANOUT
           s == m % FANOUT
<1>1. m \in Nat
  BY PageTableAssumption
<1>2. k \in Nat /\ s \in 0..FANOUT - 1 /\ m = k * FANOUT + s
  BY <1>1, Division
<1>3. a = k
  <2> HIDE DEF k, s
  <2>1. a * FANOUT + r = k * FANOUT + s
    BY <1>2
  <2>2. (a - k) * FANOUT = s - r
    BY <1>2, <2>1, PageTableAssumption
  <2>3. a - k < 1 /\ a - k > -1
    BY <1>2, <2>2, PageTableAssumption
  <2>4. QED
    BY <1>2, <2>3
<1>4. QED
  BY <1>2, <1>3, PageTableAssumption
-----------------------------------------------------------------------------
(* The page a position of the search stands for. *)
Val(p) == (p[1] * FANOUT + p[2]) * FANOUT + p[3]

LEMMA ValType ==
  ASSUME NEW p \in Positions
  PROVE  /\ p[1] \in Nat /\ p[2] \in 0..FANOUT /\ p[3] \in 0..FANOUT
         /\ Val(p) \in Nat
<1>1. p[1] \in Nat /\ p[2] \in 0..FANOUT /\ p[3] \in 0..FANOUT
  BY DEF Positions
<1>2. p[1] * FANOUT \in Nat
  BY <1>1, PageTableAssumption
<1>3. (p[1] * FANOUT + p[2]) * FANOUT \in Nat
  BY <1>1, <1>2, PageTableAssumption
<1>4. QED
  BY <1>1, <1>3, PageTableAssumption DEF Val

LEMMA ValPlus ==
  ASSUME NEW p \in Positions, NEW i \in Nat
  PROVE  Val(p) + i = (p[1] * FANOUT + p[2]) * FANOUT + (p[3] + i)
<1>1. p[1] \in Nat /\ p[2] \in 0..FANOUT /\ p[3] \in 0..FANOUT
  BY DEF Positions
<1>2. p[1] * FANOUT \in Nat
  BY <1>1, PageTableAssumption
<1>3. (p[1] * FANOUT + p[2]) * FANOUT \in Nat
  BY <1>1, <1>2, PageTableAssumption
<1>4. QED
  BY <1>1, <1>3, PageTableAssumption DEF Val

(* Carrying whole tables, and whole directories, leaves the page alone. *)
LEMMA CarryUp ==
  ASSUME NEW a \in Nat, NEW y \in Nat, NEW k \in Nat, NEW r \in Nat, y = k * FANOUT + r
  PROVE  (a + k) * FANOUT + r = a * FANOUT + y
  BY PageTableAssumption

LEMMA Carry ==
  ASSUME NEW a \in Nat, NEW b \in Nat, NEW x \in Nat, NEW k \in Nat, NEW r \in Nat,
         x = k * FANOUT + r
  PROVE  (a * FANOUT + (b + k)) * FANOUT + r = (a * FANOUT + b) * FANOUT + x
  BY PageTableAssumption

(* A later page of a candidate is at its index, and its indices are reduced. *)
LEMMA AtPlace ==
  ASSUME NEW p \in Positions, NEW i \in Nat, i # 0
  PROVE  /\ At(p, i) \in Nat \X (0..FANOUT - 1) \X (0..FANOUT - 1)
         /\ Val(At(p, i)) = Val(p) + i
<1> DEFINE x == p[3] + i
           k == x \div FANOUT
           r == x % FANOUT
           y == p[2] + k
           z == p[1] + (y \div FANOUT)
<1>1. p[1] \in Nat /\ p[2] \in 0..FANOUT /\ p[3] \in 0..FANOUT /\ x \in Nat
  BY ValType
<1>2. k \in Nat /\ r \in 0..FANOUT - 1 /\ x = k * FANOUT + r
  BY <1>1, Division
<1>3. y \in Nat
  BY <1>1, <1>2
<1>4. /\ y \div FANOUT \in Nat /\ y % FANOUT \in 0..FANOUT - 1
      /\ y = (y \div FANOUT) * FANOUT + (y % FANOUT)
  BY <1>3, Division
<1>5. At(p, i) = <<z, y % FANOUT, r>>
  BY DEF At
<1>6. z * FANOUT + (y % FANOUT) = p[1] * FANOUT + y
  <2> HIDE DEF y
  <2>1. QED
    BY <1>1, <1>3, <1>4, CarryUp
<1>7. (p[1] * FANOUT + y) * FANOUT + r = Val(p) + i
  <2> HIDE DEF x, k, r
  <2> DEFINE a == p[1]
             b == p[2]
  <2>1. (a * FANOUT + (b + k)) * FANOUT + r = (a * FANOUT + b) * FANOUT + x
    <3>1. a \in Nat /\ b \in Nat /\ r \in Nat
      BY <1>1, <1>2, PageTableAssumption
    <3> HIDE DEF a, b
    <3>2. QED
      BY <1>1, <1>2, <3>1, Carry
  <2>2. QED
    BY <2>1, <1>1, <1>2, ValPlus DEF x
<1>8. z \in Nat
  BY <1>1, <1>4
<1>9. QED
  <2> HIDE DEF x, k, r, y, z
  <2>1. QED
    BY <1>2, <1>4, <1>5, <1>6, <1>7, <1>8 DEF Val

(* Advancing moves by that many pages. *)
LEMMA AdvancePlace ==
  ASSUME NEW p \in Positions, NEW i \in Nat
  PROVE  Advance(p, i) \in Positions /\ Val(Advance(p, i)) = Val(p) + i
<1> DEFINE x == p[3] + i
           k == x \div FANOUT
           r == x % FANOUT
           y == p[2] + k
           z == p[1] + (y \div FANOUT)
<1>1. p[1] \in Nat /\ p[2] \in 0..FANOUT /\ p[3] \in 0..FANOUT /\ x \in Nat
  BY ValType
<1>2. k \in Nat /\ r \in 0..FANOUT - 1 /\ x = k * FANOUT + r
  BY <1>1, Division
<1>3. y \in Nat
  BY <1>1, <1>2
<1>4. /\ y \div FANOUT \in Nat /\ y % FANOUT \in 0..FANOUT - 1
      /\ y = (y \div FANOUT) * FANOUT + (y % FANOUT)
  BY <1>3, Division
<1>5. (p[1] * FANOUT + y) * FANOUT + r = Val(p) + i
  <2> HIDE DEF x, k, r
  <2> DEFINE a == p[1]
             b == p[2]
  <2>1. (a * FANOUT + (b + k)) * FANOUT + r = (a * FANOUT + b) * FANOUT + x
    <3>1. a \in Nat /\ b \in Nat /\ r \in Nat
      BY <1>1, <1>2, PageTableAssumption
    <3> HIDE DEF a, b
    <3>2. QED
      BY <1>1, <1>2, <3>1, Carry
  <2>2. QED
    BY <2>1, <1>1, <1>2, ValPlus DEF x
<1>6. z * FANOUT + (y % FANOUT) = p[1] * FANOUT + y
  <2> HIDE DEF y
  <2>1. QED
    BY <1>1, <1>3, <1>4, CarryUp
<1>7. Advance(p, i) = IF x <= FANOUT THEN <<p[1], p[2], x>>
                      ELSE IF y <= FANOUT THEN <<p[1], y, r>>
                      ELSE <<z, y % FANOUT, r>>
  BY DEF Advance
<1>8. z \in Nat
  BY <1>1, <1>4
<1>9. CASE x <= FANOUT
  <2>1. Advance(p, i) = <<p[1], p[2], x>>
    BY <1>7, <1>9
  <2>2. QED
    BY <1>1, <1>9, <2>1, ValType, PageTableAssumption DEF Positions, Val
<1>10. CASE ~ (x <= FANOUT) /\ y <= FANOUT
  <2>1. Advance(p, i) = <<p[1], y, r>>
    BY <1>7, <1>10
  <2> HIDE DEF x, k, r, y
  <2>2. QED
    BY <1>1, <1>2, <1>3, <1>5, <1>10, <2>1, PageTableAssumption DEF Positions, Val
<1>11. CASE ~ (x <= FANOUT) /\ ~ (y <= FANOUT)
  <2>1. Advance(p, i) = <<z, y % FANOUT, r>>
    BY <1>7, <1>11
  <2> HIDE DEF x, k, r, y, z
  <2>2. QED
    BY <1>2, <1>4, <1>5, <1>6, <1>8, <2>1, PageTableAssumption DEF Positions, Val
<1>12. QED
  BY <1>9, <1>10, <1>11
-----------------------------------------------------------------------------
(* The entries there are at all, and the frames that are in them.          *)
Entries == (0..3) \X (0..WindowPages - 1)

Outcomes == {"no", "no frames", "alloc fault", "self lock"}

(* The top table has one entry for the window.                             *)
Rooted == \A e \in present : e[1] = 3 => e[2] = 0

(* Until unmap has not returned, every block has its first page.           *)
Backed ==
  stopped # "self lock" => taken = 0 /\ \A b \in held : <<0, b.at>> \in present

EntryInv == TypeOK /\ FramesCounted /\ Rooted /\ Backed

LEMMA WindowSize == WindowPages \in Nat /\ WindowPages > 0 /\ FANOUT <= WindowPages
<1>1. FANOUT * FANOUT \in Nat /\ FANOUT * FANOUT > 0
  BY PageTableAssumption
<1>2. QED
  BY <1>1, PageTableAssumption DEF WindowPages

LEMMA EntriesFinite ==
  ASSUME NEW S, S \subseteq Entries
  PROVE  IsFiniteSet(S) /\ Cardinality(S) \in Nat
<1> DEFINE m == WindowPages - 1
           top == 3
<1>1. IsFiniteSet(0..3) /\ IsFiniteSet(0..m)
  <2>1. m \in Int
    BY WindowSize
  <2> HIDE DEF m
  <2>2. IsFiniteSet(0..m)
    BY <2>1, FS_Interval
  <2>3. IsFiniteSet(0..top)
    <3>1. top \in Int
      OBVIOUS
    <3> HIDE DEF top
    <3>2. QED
      BY <3>1, FS_Interval
  <2>4. QED
    BY <2>2, <2>3
<1>2. IsFiniteSet(Entries)
  <2> HIDE DEF m
  <2>1. IsFiniteSet((0..3) \X (0..m))
    BY <1>1, FS_Product
  <2>2. QED
    BY <2>1 DEF Entries, m
<1>3. QED
  BY <1>2, FS_Subset, FS_CardinalityType

(* Dividing by FANOUT takes a level away.                                  *)
LEMMA Quotients ==
  ASSUME NEW n \in Nat
  PROVE  /\ n \div FANOUT \in Nat /\ n \div FANOUT <= n
         /\ \A a \in Nat : n < a * FANOUT => n \div FANOUT < a
         /\ \A a \in Nat : a * FANOUT <= n => a <= n \div FANOUT
<1> DEFINE k == n \div FANOUT
           r == n % FANOUT
<1>1. k \in Nat /\ r \in 0..FANOUT - 1 /\ n = k * FANOUT + r
  BY Division
<1> HIDE DEF k, r
<1>2. k <= n
  BY <1>1, PageTableAssumption
<1>3. ASSUME NEW a \in Nat, n < a * FANOUT, a <= k
      PROVE  FALSE
  <2>1. a * FANOUT <= k * FANOUT
    BY <1>1, <1>3, PageTableAssumption
  <2>2. a * FANOUT \in Nat /\ k * FANOUT \in Nat
    BY <1>1, PageTableAssumption
  <2>3. QED
    BY <1>1, <1>3, <2>1, <2>2
<1>4. ASSUME NEW a \in Nat, a * FANOUT <= n, k + 1 <= a
      PROVE  FALSE
  <2>1. (k + 1) * FANOUT <= a * FANOUT /\ (k + 1) * FANOUT = k * FANOUT + FANOUT
    BY <1>1, <1>4, PageTableAssumption
  <2>2. a * FANOUT \in Nat /\ k * FANOUT \in Nat
    BY <1>1, PageTableAssumption
  <2>3. QED
    BY <1>1, <1>4, <2>1, <2>2, PageTableAssumption
<1>5. QED
  <2>1. \A a \in Nat : n < a * FANOUT => k < a
    BY <1>1, <1>3
  <2>2. \A a \in Nat : a * FANOUT <= n => a <= k
    BY <1>1, <1>4
  <2>3. QED
    BY <1>1, <1>2, <2>1, <2>2 DEF k

(* The way to a page of the window: one entry of each level, each in the   *)
(* table of the next.                                                      *)
LEMMA PathFacts ==
  ASSUME NEW q \in 0..WindowPages - 1
  PROVE  /\ Path(q) = {<<0, q>>, <<1, q \div FANOUT>>, <<2, (q \div FANOUT) \div FANOUT>>,
                       <<3, 0>>}
         /\ Path(q) \subseteq Entries
         /\ \A e \in Path(q) : e[1] < 3 => Above(e) \in Path(q)
         /\ \A e, f \in Path(q) : e[1] = f[1] => e = f
<1> DEFINE t == q \div FANOUT
           d == t \div FANOUT
           r == d \div FANOUT
<1>1. q \in Nat /\ q < (FANOUT * FANOUT) * FANOUT
  BY WindowSize DEF WindowPages
<1>2. FANOUT * FANOUT \in Nat /\ FANOUT \in Nat /\ 1 * FANOUT = FANOUT
  BY PageTableAssumption
<1>3. t \in Nat /\ t <= q /\ t < FANOUT * FANOUT
  BY <1>1, <1>2, Quotients
<1>4. d \in Nat /\ d <= t /\ d < FANOUT
  <2> HIDE DEF t
  <2>1. QED
    BY <1>2, <1>3, Quotients
<1>5. r = 0
  <2> HIDE DEF d
  <2>1. r \in Nat /\ r < 1
    BY <1>2, <1>4, Quotients
  <2>2. QED
    BY <2>1
<1>6. Path(q) = {<<0, q>>, <<1, t>>, <<2, d>>, <<3, 0>>}
  <2>1. Path(q) = {<<0, q>>, <<1, t>>, <<2, d>>, <<3, r>>}
    BY DEF Path, Above
  <2>2. QED
    BY <1>5, <2>1
<1>7. Above(<<0, q>>) = <<1, t>> /\ Above(<<1, t>>) = <<2, d>> /\ Above(<<2, d>>) = <<3, 0>>
  BY <1>5 DEF Above
<1> HIDE DEF t, d, r
<1>8. Path(q) \subseteq Entries
  BY <1>1, <1>3, <1>4, <1>6, WindowSize DEF Entries
<1>9. \A e \in Path(q) : e[1] < 3 => Above(e) \in Path(q)
  BY <1>6, <1>7
<1>10. \A e, f \in Path(q) : e[1] = f[1] => e = f
  BY <1>6
<1>11. QED
  BY <1>6, <1>8, <1>9, <1>10 DEF t, d

(* What is present hangs together: the tables above a page are there.      *)
LEMMA PathPresent ==
  ASSUME EntryInv
  PROVE  /\ Mapped \subseteq 0..WindowPages - 1
         /\ \A q \in Mapped : Path(q) \subseteq present
         /\ \A q : q \in Mapped <=> <<0, q>> \in present
         /\ \A z \in Nat : <<2, z>> \in present => <<3, 0>> \in present
<1>1. present \subseteq Entries /\ \A e \in present : e[1] < 3 => Above(e) \in present
  BY DEF EntryInv, TypeOK, Entries
<1>2. \A q : q \in Mapped <=> <<0, q>> \in present
  <2>1. ASSUME NEW e \in present, e[1] = 0
        PROVE  e = <<0, e[2]>>
    BY <1>1, <2>1 DEF Entries
  <2>2. QED
    BY <2>1 DEF Mapped
<1>3. Mapped \subseteq 0..WindowPages - 1
  <2>1. \A q : <<0, q>> \in Entries => q \in 0..WindowPages - 1
    BY DEF Entries
  <2>2. QED
    BY <1>1, <1>2, <2>1
<1>4. ASSUME NEW q \in Mapped
      PROVE  Path(q) \subseteq present
  <2>1. <<0, q>> \in present /\ <<0, q>>[1] < 3
    BY <1>2
  <2>2. Above(<<0, q>>) \in present /\ Above(<<0, q>>)[1] = 1
    BY <1>1, <2>1 DEF Above
  <2>3. Above(Above(<<0, q>>)) \in present /\ Above(Above(<<0, q>>))[1] = 2
    BY <1>1, <2>2 DEF Above
  <2>4. Above(Above(Above(<<0, q>>))) \in present
    BY <1>1, <2>3
  <2>5. QED
    BY <2>1, <2>2, <2>3, <2>4 DEF Path
<1>5. ASSUME NEW z \in Nat, <<2, z>> \in present
      PROVE  <<3, 0>> \in present
  <2>1. Above(<<2, z>>) \in present /\ Above(<<2, z>>) = <<3, z \div FANOUT>>
    BY <1>1, <1>5 DEF Above
  <2>2. QED
    BY <2>1 DEF EntryInv, Rooted
<1>6. QED
  BY <1>2, <1>3, <1>4, <1>5
-----------------------------------------------------------------------------
(* alloc_vm's search as a walk over positions.                             *)
FirstHit(p, n) == Min(Hits(p, n))

Stops(n) == {p \in Positions : \/ Hits(p, n) = {}
                               \/ Probed(p, FirstHit(p, n)) = "fault"}

Ends(n) == [p \in Positions |-> IF Hits(p, n) = {} THEN AddressOf(p) ELSE -1]

Onward(n) ==
  [p \in Positions |-> IF p \in Stops(n) THEN p ELSE Advance(p, FirstHit(p, n) + 1)]

(* No page is found in use past this.                                      *)
Limit == WindowPages * FANOUT + 1

Remaining == [p \in Positions |-> IF Val(p) <= Limit THEN Limit - Val(p) ELSE 0]

LEMMA FirstHitFacts ==
  ASSUME NEW p, NEW n \in Nat, Hits(p, n) # {}
  PROVE  /\ FirstHit(p, n) \in 0..n - 1
         /\ Probed(p, FirstHit(p, n)) # "null"
         /\ \A i \in 0..n - 1 : i < FirstHit(p, n) => Probed(p, i) = "null"
<1> DEFINE S == Hits(p, n)
<1>1. S \subseteq 0..n - 1 /\ S \subseteq Nat
  BY DEF Hits
<1>2. \E m \in S : \A k \in S : m <= k
  <2> HIDE DEF S
  <2>1. S # {}
    BY DEF S
  <2>2. QED
    BY <1>1, <2>1, LeastMember
<1>3. FirstHit(p, n) \in S /\ \A k \in S : FirstHit(p, n) <= k
  <2>1. FirstHit(p, n) = CHOOSE m \in S : \A k \in S : m <= k
    BY DEF FirstHit, Min
  <2> HIDE DEF S
  <2>2. QED
    BY <1>2, <2>1
<1>4. FirstHit(p, n) \in 0..n - 1 /\ Probed(p, FirstHit(p, n)) # "null"
  BY <1>3 DEF Hits
<1>5. ASSUME NEW i \in 0..n - 1, i < FirstHit(p, n)
      PROVE  Probed(p, i) = "null"
  <2>1. i \notin S
    BY <1>3, <1>4, <1>5
  <2>2. QED
    BY <2>1 DEF Hits
<1>6. QED
  BY <1>4, <1>5

LEMMA ProbeRange ==
  ASSUME NEW z, NEW y, NEW x
  PROVE  /\ Probe(z, y, x) \in {"page", "null", "fault"}
         /\ Probe(z, y, x) = "page" => \A k \in 1..4 : Chain(z, y, x)[k] \in present
  BY DEF Probe

LEMMA AtIsPosition ==
  ASSUME NEW p \in Positions, NEW i \in Nat
  PROVE  At(p, i) \in Positions /\ Val(At(p, i)) = Val(p) + i
<1>1. CASE i = 0
  BY <1>1, ValType DEF At
<1>2. CASE i # 0
  <2>1. At(p, i) \in Positions
    BY <1>2, AtPlace, PageTableAssumption DEF Positions
  <2>2. QED
    BY <1>2, <2>1, AtPlace
<1>3. QED
  BY <1>1, <1>2

LEMMA PageLimit ==
  ASSUME EntryInv, NEW p \in Positions, Probe(p[1], p[2], p[3]) = "page"
  PROVE  Val(p) < Limit
<1>1. p[1] \in Nat /\ p[2] \in 0..FANOUT /\ p[3] \in 0..FANOUT
  BY ValType
<1> DEFINE t == p[1] * FANOUT + p[2]
<1>2. Chain(p[1], p[2], p[3])[3] \in present
  BY ProbeRange
<1>3. <<1, t>> \in present
  BY <1>2 DEF Chain
<1>4. t \in 0..WindowPages - 1
  <2> HIDE DEF t
  <2>1. <<1, t>> \in (0..3) \X (0..WindowPages - 1)
    BY <1>3 DEF EntryInv, TypeOK
  <2>2. QED
    BY <2>1
<1>5. Val(p) = t * FANOUT + p[3]
  BY DEF Val
<1> HIDE DEF t
<1>6. t + 1 <= WindowPages /\ t \in Nat /\ t + 1 \in Nat
  BY <1>4, WindowSize
<1>7. (t + 1) * FANOUT <= WindowPages * FANOUT
  BY <1>6, WindowSize, PageTableAssumption
<1>8. (t + 1) * FANOUT = t * FANOUT + FANOUT
  BY <1>6, PageTableAssumption
<1>9. t * FANOUT \in Nat /\ WindowPages * FANOUT \in Nat
  BY <1>6, WindowSize, PageTableAssumption
<1>10. QED
  BY <1>1, <1>5, <1>7, <1>8, <1>9, PageTableAssumption DEF Limit

LEMMA SearchWalks ==
  ASSUME EntryInv, NEW n \in Sizes
  PROVE  IsWalk(Positions, Stops(n), Onward(n), Remaining, Limit)
<1>1. n \in Nat /\ n # 0
  BY PageTableAssumption
<1>2. Limit \in Nat
  BY WindowSize, PageTableAssumption DEF Limit
<1>3. ASSUME NEW p \in Positions \ Stops(n)
      PROVE  /\ Onward(n)[p] = Advance(p, FirstHit(p, n) + 1)
             /\ Onward(n)[p] \in Positions
             /\ Remaining[Onward(n)[p]] < Remaining[p]
  <2> DEFINE i == FirstHit(p, n)
             r == Advance(p, i + 1)
  <2>1. Hits(p, n) # {} /\ Probed(p, i) # "fault"
    BY DEF Stops
  <2>2. i \in Nat /\ Probed(p, i) # "null"
    BY <1>1, <2>1, FirstHitFacts
  <2>3. Probed(p, i) = "page"
    BY <2>1, <2>2, ProbeRange DEF Probed
  <2>4. At(p, i) \in Positions /\ Val(At(p, i)) = Val(p) + i
    BY <2>2, AtIsPosition
  <2>5. Val(p) + i < Limit
    BY <2>3, <2>4, PageLimit DEF Probed
  <2>6. r \in Positions /\ Val(r) = Val(p) + (i + 1)
    BY <2>2, AdvancePlace
  <2>7. Onward(n)[p] = r
    BY DEF Onward
  <2> HIDE DEF i, r
  <2>8. Val(p) \in Nat
    BY ValType
  <2>9. Val(p) <= Limit /\ Val(r) <= Limit /\ Val(p) < Val(r)
    BY <1>2, <2>2, <2>5, <2>6, <2>8
  <2>10. Remaining[p] = Limit - Val(p) /\ Remaining[r] = Limit - Val(r)
    BY <2>6, <2>9 DEF Remaining
  <2>11. QED
    BY <1>2, <2>2, <2>6, <2>7, <2>8, <2>9, <2>10 DEF i, r
<1>4. Onward(n) \in [Positions -> Positions]
  BY <1>3 DEF Onward
<1>5. Remaining \in [Positions -> 0..Limit]
  <2>1. \A p \in Positions : Val(p) \in Nat
    BY ValType
  <2>2. QED
    BY <1>2, <2>1 DEF Remaining
<1>6. QED
  BY <1>2, <1>3, <1>4, <1>5 DEF IsWalk

LEMMA SearchFollows ==
  ASSUME EntryInv, NEW n \in Sizes
  PROVE  Follows(Search(n), Positions, Stops(n), Onward(n), Ends(n))
<1> DEFINE Body(g, p) ==
             IF Hits(p, n) = {} THEN AddressOf(p)
             ELSE IF Probed(p, FirstHit(p, n)) = "fault" THEN -1
             ELSE g[Advance(p, FirstHit(p, n) + 1)]
           Step(g, p) == IF p \in Stops(n) THEN Ends(n)[p] ELSE g[Onward(n)[p]]
           F == Search(n)
<1>1. ASSUME NEW g, NEW p \in Positions
      PROVE  Body(g, p) = Step(g, p)
  BY DEF Stops, Ends, Onward
<1>2. PICK g : Follows(g, Positions, Stops(n), Onward(n), Ends(n))
  BY SearchWalks, WalkFunctionExists
<1>3. g = [p \in Positions |-> Step(g, p)]
  BY <1>2 DEF Follows
<1>4. g = [p \in Positions |-> Body(g, p)]
  <2> HIDE DEF Body, Step
  <2>1. [p \in Positions |-> Step(g, p)] = [p \in Positions |-> Body(g, p)]
    BY <1>1
  <2>2. QED
    BY <1>3, <2>1
<1>5. F = [p \in Positions |-> Body(F, p)]
  BY <1>4 DEF Search, FirstHit
<1>6. F = [p \in Positions |-> Step(F, p)]
  <2> HIDE DEF Body, Step, F
  <2>1. [p \in Positions |-> Step(F, p)] = [p \in Positions |-> Body(F, p)]
    BY <1>1
  <2>2. QED
    BY <1>5, <2>1
<1>7. DOMAIN F = Positions
  <2> HIDE DEF Step, F
  <2>1. QED
    BY <1>6
<1>8. QED
  BY <1>6, <1>7 DEF Follows
LEMMA FoundRange ==
  ASSUME EntryInv, NEW n \in Sizes
  PROVE  Found(n) \in Nat \/ Found(n) = -1
<1>1. <<0, 0, 0>> \in Positions
  BY PageTableAssumption DEF Positions
<1>2. \A p \in Positions \ Stops(n) : Onward(n)[p] \in Positions
  BY SearchWalks DEF IsWalk
<1>3. PICK r \in Positions \cap Stops(n) : Search(n)[<<0, 0, 0>>] = Ends(n)[r]
  BY <1>1, <1>2, SearchWalks, SearchFollows, WalkStops
<1>4. AddressOf(r) \in Nat
  <2>1. \A hi, lo \in Nat : Shl(hi, lo) \in Nat
    BY PageTableAssumption DEF Shl
  <2>2. r[1] \in Nat /\ r[2] \in Nat /\ r[3] \in Nat
    BY ValType, PageTableAssumption
  <2>3. QED
    BY <2>1, <2>2 DEF AddressOf
<1>5. QED
  BY <1>3, <1>4 DEF Found, Ends

-----------------------------------------------------------------------------
(* map(): the entries a block needs, and those created before another.     *)
Blocks == [at : Nat, pages : Sizes]

FitsWindow(b) == b \in Blocks /\ b.at + b.pages <= WindowPages

FirstUse(b, e) == Min({q \in BlockPages(b) : e \in Path(q)})
Turn(b, e) == 4 * FirstUse(b, e) + 3 - e[1]
Before(b, e) == {f \in Missing(b) : Turn(b, f) < Turn(b, e)}

LEMMA CreatedIs ==
  ASSUME NEW b
  PROVE  Created(b) = {e \in Missing(b) : Cardinality(Before(b, e)) < free}
  BY DEF Created, Before, Turn, FirstUse

LEMMA BlockFacts ==
  ASSUME NEW b, FitsWindow(b)
  PROVE  /\ b.at \in Nat /\ b.pages \in Nat /\ b.pages > 0
         /\ BlockPages(b) \subseteq 0..WindowPages - 1
         /\ b.at \in BlockPages(b)
         /\ \A q : q \in BlockPages(b) <=> q \in Nat /\ b.at <= q /\ q < b.at + b.pages
<1>1. b.at \in Nat /\ b.pages \in Nat /\ b.pages > 0 /\ b.at + b.pages <= WindowPages
  <2>1. b.at \in Nat /\ b.pages \in Sizes /\ b.at + b.pages <= WindowPages
    BY DEF FitsWindow, Blocks
  <2>2. \A n \in Sizes : n \in Nat /\ n > 0
    BY PageTableAssumption
  <2>3. QED
    BY <2>1, <2>2
<1>2. QED
  BY <1>1, WindowSize DEF BlockPages

LEMMA MissingFacts ==
  ASSUME NEW b, FitsWindow(b)
  PROVE  /\ Missing(b) \subseteq Entries
         /\ Missing(b) \cap present = {}
         /\ \A e \in Missing(b) : \E q \in BlockPages(b) : e \in Path(q)
         /\ \A q \in BlockPages(b) : Path(q) \subseteq present \cup Missing(b)
<1>1. \A q \in BlockPages(b) : Path(q) \subseteq Entries
  BY BlockFacts, PathFacts
<1> DEFINE All == UNION {Path(q) : q \in BlockPages(b)}
<1>2. /\ \A e \in All : \E q \in BlockPages(b) : e \in Path(q)
      /\ \A q \in BlockPages(b) : Path(q) \subseteq All
  OBVIOUS
<1>3. Missing(b) = All \ present
  BY DEF Missing
<1> HIDE DEF All
<1>4. QED
  BY <1>1, <1>2, <1>3

LEMMA FirstUseFacts ==
  ASSUME NEW b, FitsWindow(b), NEW q \in BlockPages(b), NEW e \in Path(q)
  PROVE  /\ FirstUse(b, e) \in BlockPages(b)
         /\ e \in Path(FirstUse(b, e))
         /\ FirstUse(b, e) <= q
<1> DEFINE S == {r \in BlockPages(b) : e \in Path(r)}
<1>1. S \subseteq Nat /\ q \in S
  BY BlockFacts
<1>2. \E m \in S : \A k \in S : m <= k
  <2> HIDE DEF S
  <2>1. QED
    BY <1>1, LeastMember
<1>3. FirstUse(b, e) \in S /\ \A k \in S : FirstUse(b, e) <= k
  <2>1. FirstUse(b, e) = CHOOSE m \in S : \A k \in S : m <= k
    BY DEF FirstUse, Min
  <2> HIDE DEF S
  <2>2. QED
    BY <1>2, <2>1
<1>4. QED
  BY <1>1, <1>3

(* Every entry has a turn of its own, after the table it lies in.          *)
LEMMA TurnFacts ==
  ASSUME NEW b, FitsWindow(b)
  PROVE  /\ \A e \in Missing(b) : Turn(b, e) \in Int
         /\ \A e, f \in Missing(b) : Turn(b, e) = Turn(b, f) => e = f
         /\ \A e, f \in Missing(b) : e[1] < 3 /\ f = Above(e) => Turn(b, f) < Turn(b, e)
<1>1. ASSUME NEW e \in Missing(b)
      PROVE  /\ FirstUse(b, e) \in BlockPages(b) /\ FirstUse(b, e) \in Nat
             /\ e \in Path(FirstUse(b, e)) /\ e[1] \in 0..3
             /\ Turn(b, e) = 4 * FirstUse(b, e) + 3 - e[1]
  <2>1. PICK q \in BlockPages(b) : e \in Path(q)
    BY MissingFacts
  <2>2. FirstUse(b, e) \in BlockPages(b) /\ e \in Path(FirstUse(b, e))
    BY <2>1, FirstUseFacts
  <2>3. e[1] \in 0..3
    BY MissingFacts DEF Entries
  <2>4. QED
    BY <2>2, <2>3, BlockFacts DEF Turn
<1>2. ASSUME NEW e \in Missing(b), NEW f \in Missing(b), Turn(b, e) = Turn(b, f)
      PROVE  e = f
  <2>1. FirstUse(b, e) = FirstUse(b, f) /\ e[1] = f[1]
    <3> DEFINE m == FirstUse(b, e)
               k == FirstUse(b, f)
    <3>1. m \in Nat /\ k \in Nat /\ e[1] \in 0..3 /\ f[1] \in 0..3
          /\ 4 * m + 3 - e[1] = 4 * k + 3 - f[1]
      BY <1>1, <1>2
    <3> HIDE DEF m, k
    <3>2. m = k
      BY <3>1
    <3>3. QED
      BY <3>1, <3>2 DEF m, k
  <2>2. FirstUse(b, e) \in 0..WindowPages - 1
    BY <1>1, BlockFacts
  <2>3. QED
    BY <1>1, <2>1, <2>2, PathFacts
<1>3. ASSUME NEW e \in Missing(b), NEW f \in Missing(b), e[1] < 3, f = Above(e)
      PROVE  Turn(b, f) < Turn(b, e)
  <2> DEFINE m == FirstUse(b, e)
             k == FirstUse(b, f)
  <2>1. m \in 0..WindowPages - 1
    BY <1>1, BlockFacts
  <2>2. f \in Path(m)
    BY <1>1, <1>3, <2>1, PathFacts
  <2>3. k <= m
    BY <1>1, <2>2, FirstUseFacts
  <2>4. f[1] = e[1] + 1
    BY <1>3 DEF Above
  <2>5. m \in Nat /\ k \in Nat /\ e[1] \in 0..3
    BY <1>1
  <2>6. Turn(b, f) = 4 * k + 3 - f[1] /\ Turn(b, e) = 4 * m + 3 - e[1]
    BY <1>1
  <2> HIDE DEF m, k
  <2>7. QED
    BY <2>3, <2>4, <2>5, <2>6
<1>4. \A e \in Missing(b) : Turn(b, e) \in Int
  BY <1>1
<1>5. QED
  BY <1>2, <1>3, <1>4

LEMMA BeforeGrows ==
  ASSUME NEW b, FitsWindow(b), NEW e \in Missing(b), NEW f \in Missing(b),
         Turn(b, e) < Turn(b, f)
  PROVE  /\ Cardinality(Before(b, e)) \in Nat /\ Cardinality(Before(b, f)) \in Nat
         /\ Cardinality(Before(b, e)) < Cardinality(Before(b, f))
<1>1. Before(b, e) \subseteq Before(b, f)
  BY TurnFacts DEF Before
<1>2. e \in Before(b, f) /\ e \notin Before(b, e)
  BY TurnFacts DEF Before
<1>3. Before(b, e) \subseteq Entries /\ Before(b, f) \subseteq Entries
  BY MissingFacts DEF Before
<1>4. /\ IsFiniteSet(Before(b, f)) /\ Cardinality(Before(b, f)) \in Nat
      /\ Cardinality(Before(b, e)) \in Nat
  BY <1>3, EntriesFinite
<1>5. Before(b, e) \in SUBSET Before(b, f) /\ Before(b, e) # Before(b, f)
  BY <1>1, <1>2
<1>6. /\ Cardinality(Before(b, e)) <= Cardinality(Before(b, f))
      /\ Cardinality(Before(b, f)) # Cardinality(Before(b, e))
  BY <1>4, <1>5, FS_Subset
<1>7. QED
  BY <1>4, <1>6

(* No more entries are created than there are frames, and each lies in a   *)
(* table that exists or is created before it.                              *)
LEMMA CreatedFacts ==
  ASSUME EntryInv, NEW b, FitsWindow(b)
  PROVE  /\ Created(b) \subseteq Missing(b)
         /\ Cardinality(Created(b)) <= free
         /\ \A e \in Created(b) : e[1] < 3 => Above(e) \in present \cup Created(b)
<1>1. Created(b) \subseteq Missing(b)
  BY CreatedIs
<1>2. Created(b) \subseteq Entries /\ Missing(b) \subseteq Entries
  BY <1>1, MissingFacts
<1>3. \A e \in Missing(b) : Cardinality(Before(b, e)) \in Nat
  <2>1. \A e \in Missing(b) : Before(b, e) \subseteq Entries
    BY <1>2 DEF Before
  <2>2. QED
    BY <2>1, EntriesFinite
<1>4. free \in Nat
  <2>1. free \in 0..FrameCount
    BY DEF EntryInv, TypeOK
  <2>2. QED
    BY <2>1, PageTableAssumption
<1>5. Cardinality(Created(b)) <= free
  <2> DEFINE C == Created(b)
             T == 0..free - 1
             g == [e \in C |-> Cardinality(Before(b, e))]
  <2>1. IsFiniteSet(C) /\ Cardinality(C) \in Nat
    BY <1>2, EntriesFinite
  <2>2. IsFiniteSet(T) /\ Cardinality(T) = free
    <3> DEFINE m == free - 1
               o == 0
    <3>1. m \in Int /\ o \in Int /\ m = free - 1 /\ o = 0
      BY <1>4
    <3>2. IsFiniteSet(o..m) /\ Cardinality(o..m) = IF o > m THEN 0 ELSE m - o + 1
      <4> HIDE DEF m, o
      <4>1. QED
        BY <3>1, FS_Interval
    <3>3. QED
      BY <1>4, <3>1, <3>2
  <2>3. g \in [C -> T]
    BY <1>1, <1>3, <1>4, CreatedIs
  <2>4. ASSUME NEW e \in C, NEW f \in C, e # f
        PROVE  g[e] # g[f]
    <3>1. e \in Missing(b) /\ f \in Missing(b)
      BY <1>1
    <3>2. Turn(b, e) < Turn(b, f) \/ Turn(b, f) < Turn(b, e)
      BY <2>4, <3>1, TurnFacts
    <3>3. QED
      BY <3>1, <3>2, BeforeGrows
  <2> HIDE DEF C, T, g
  <2>5. ~ (Cardinality(T) < Cardinality(C))
    BY <2>1, <2>2, <2>3, <2>4, FS_PigeonHole
  <2>6. QED
    BY <1>4, <2>1, <2>2, <2>5 DEF C
<1>6. ASSUME NEW e \in Created(b), e[1] < 3
      PROVE  Above(e) \in present \cup Created(b)
  <2>1. PICK q \in BlockPages(b) : e \in Path(q)
    BY <1>1, MissingFacts
  <2>2. Above(e) \in Path(q)
    BY <1>6, <2>1, BlockFacts, PathFacts
  <2>3. Above(e) \in present \cup Missing(b)
    BY <2>2, MissingFacts
  <2>4. CASE Above(e) \in Missing(b)
    <3>1. Turn(b, Above(e)) < Turn(b, e)
      BY <1>1, <1>6, <2>4, TurnFacts
    <3>2. Cardinality(Before(b, Above(e))) < Cardinality(Before(b, e))
      BY <1>1, <2>4, <3>1, BeforeGrows
    <3>3. Cardinality(Before(b, e)) < free
      BY CreatedIs
    <3>4. Cardinality(Before(b, Above(e))) < free
      BY <1>1, <1>3, <1>4, <2>4, <3>2, <3>3
    <3>5. QED
      BY <2>4, <3>4, CreatedIs
  <2>5. QED
    BY <2>3, <2>4
<1>7. QED
  BY <1>1, <1>5, <1>6
LEMMA EntryInvAlloc ==
  ASSUME EntryInv, NEW n \in Sizes, AllocVm(n),
         stopped = "no"
  PROVE  EntryInv'
<1> DEFINE b == [at |-> Found(n), pages |-> n]
           C == Created(b)
<1>0. taken = 0 /\ taken' = 0 /\ taken' \in 0..1
  <2>1. taken = 0 /\ taken' = 0
    BY DEF EntryInv, Backed, AllocVm
  <2>2. QED
    BY <2>1
<1>1. free \in 0..FrameCount /\ FrameCount \in Nat /\ free + Cardinality(present) + 0 = FrameCount
  <2>1. free \in 0..FrameCount /\ free + Cardinality(present) + taken = FrameCount
    BY DEF EntryInv, TypeOK, FramesCounted
  <2>2. QED
    BY <1>0, <2>1, PageTableAssumption
<1>2. present \subseteq Entries /\ \A e \in present : e[1] < 3 => Above(e) \in present
  BY DEF EntryInv, TypeOK, Entries
<1>3. held \subseteq Blocks /\ stopped \in Outcomes
  BY DEF EntryInv, TypeOK, Blocks, Outcomes
<1>4. CASE Found(n) = -1
  <2>1. stopped' = "alloc fault" /\ UNCHANGED <<present, free, held>>
    BY <1>4 DEF AllocVm
  <2>2. TypeOK'
    <3>1. free' \in 0..FrameCount
      BY <1>1, <2>1
    <3>2. present' \subseteq Entries /\ \A e \in present' : e[1] < 3 => Above(e) \in present'
      BY <1>2, <2>1
    <3>3. held' \subseteq Blocks /\ stopped' \in Outcomes
      BY <1>3, <2>1 DEF Outcomes
    <3>4. QED
      BY <1>0, <3>1, <3>2, <3>3 DEF TypeOK, Entries, Blocks, Outcomes
  <2>3. QED
    BY <1>0, <2>1, <2>2 DEF EntryInv, FramesCounted, Rooted, Backed
<1>5. CASE Found(n) # -1
  <2>1. FitsWindow(b)
    <3>1. Found(n) \in Nat /\ Found(n) + n <= WindowPages
      BY <1>5, FoundRange DEF AllocVm
    <3>2. QED
      BY <3>1 DEF FitsWindow, Blocks
  <2>2. /\ present' = present \cup C
        /\ free' = free - Cardinality(C)
        /\ \/ held' = held \cup {b} /\ UNCHANGED stopped
           \/ stopped' = "no frames" /\ UNCHANGED held
    BY <1>5 DEF AllocVm
  <2>3. /\ C \subseteq Missing(b)
        /\ Cardinality(C) <= free
        /\ \A e \in C : e[1] < 3 => Above(e) \in present \cup C
    BY <2>1, CreatedFacts
  <2>4. C \subseteq Entries /\ C \cap present = {}
    BY <2>1, <2>3, MissingFacts
  <2>5. /\ IsFiniteSet(C) /\ Cardinality(C) \in Nat
        /\ IsFiniteSet(present) /\ Cardinality(present) \in Nat
    BY <1>2, <2>4, EntriesFinite
  <2>6. Cardinality(present \cup C) = Cardinality(present) + Cardinality(C)
    <3>1. present \cap C = {}
      BY <2>4
    <3>2. Cardinality(present \cap C) = 0
      BY <3>1, FS_EmptySet
    <3>3. Cardinality(present \cup C)
            = Cardinality(present) + Cardinality(C) - Cardinality(present \cap C)
      BY <2>5, FS_Union
    <3>4. QED
      BY <2>5, <3>2, <3>3
  <2>7. Rooted'
    <3>1. ASSUME NEW e \in C, e[1] = 3
          PROVE  e[2] = 0
      <4>1. PICK q \in BlockPages(b) : e \in Path(q)
        BY <2>1, <2>3, MissingFacts
      <4>2. q \in 0..WindowPages - 1
        BY <2>1, BlockFacts
      <4>3. Path(q) = {<<0, q>>, <<1, q \div FANOUT>>, <<2, (q \div FANOUT) \div FANOUT>>, <<3, 0>>}
        BY <4>2, PathFacts
      <4>4. QED
        BY <3>1, <4>1, <4>3
    <3> HIDE DEF C
    <3>2. QED
      BY <2>2, <3>1 DEF EntryInv, Rooted
  <2>8. b \in Blocks
    BY <2>1 DEF FitsWindow
  <2>15. held' = held \cup {b} => <<0, b.at>> \in present'
    <3> SUFFICES ASSUME held' = held \cup {b}
                 PROVE  <<0, b.at>> \in present'
      OBVIOUS
    <3>1. C = Missing(b) \/ b \in held
      BY <1>5 DEF AllocVm
    <3>2. CASE C = Missing(b)
      <4>1. b.at \in BlockPages(b)
        BY <2>1, BlockFacts
      <4>2. Path(b.at) \subseteq present \cup Missing(b)
        BY <2>1, <4>1, MissingFacts
      <4>3. <<0, b.at>> \in Path(b.at)
        BY DEF Path
      <4>4. QED
        BY <2>2, <3>2, <4>2, <4>3
    <3>3. CASE b \in held
      BY <2>2, <3>3 DEF EntryInv, Backed
    <3>4. QED
      BY <3>1, <3>2, <3>3
  <2> HIDE DEF b, C
  <2>9. FramesCounted'
    <3>1. Cardinality(present') = Cardinality(present) + Cardinality(C)
      BY <2>2, <2>6
    <3>2. free' = free - Cardinality(C)
      BY <2>2
    <3>3. free' + Cardinality(present') + 0 = FrameCount
      BY <1>1, <2>5, <3>1, <3>2
    <3>4. QED
      BY <1>0, <3>3 DEF FramesCounted
  <2>10. free' \in 0..FrameCount
    <3>1. free' = free - Cardinality(C)
      BY <2>2
    <3>2. QED
      BY <1>1, <2>3, <2>5, <3>1
  <2>11. present' \subseteq Entries /\ \A e \in present' : e[1] < 3 => Above(e) \in present'
    BY <1>2, <2>2, <2>3, <2>4
  <2>12. held' \subseteq Blocks /\ stopped' \in Outcomes
    BY <1>3, <2>2, <2>8 DEF Outcomes
  <2>13. TypeOK'
    BY <1>0, <2>10, <2>11, <2>12 DEF TypeOK, Entries, Blocks, Outcomes
  <2>16. Backed'
    BY <1>0, <2>2, <2>15 DEF EntryInv, Backed
  <2>14. QED
    BY <2>7, <2>9, <2>13, <2>16 DEF EntryInv
<1>6. QED
  BY <1>4, <1>5

LEMMA EntryInvFree ==
  ASSUME EntryInv, NEW b \in held, FreeVm(b), stopped = "no"
  PROVE  EntryInv'
<1> DEFINE e0 == <<0, b.at>>
<1>0. taken = 0 /\ taken' = 1 /\ taken' \in 0..1
  <2>1. taken = 0 /\ taken' = taken + 1
    BY DEF EntryInv, Backed, FreeVm
  <2>2. QED
    BY <2>1
<1>1. /\ free \in 0..FrameCount /\ free + Cardinality(present) + 0 = FrameCount
      /\ e0 \in present
  <2>1. free \in 0..FrameCount /\ free + Cardinality(present) + taken = FrameCount
    BY DEF EntryInv, TypeOK, FramesCounted
  <2>2. e0 \in present
    BY DEF EntryInv, Backed
  <2>3. QED
    BY <1>0, <2>1, <2>2
<1>2. present \subseteq Entries /\ \A e \in present : e[1] < 3 => Above(e) \in present
  BY DEF EntryInv, TypeOK, Entries
<1>3. /\ held' = held
      /\ present' = present \ {e0}
      /\ free' = free
      /\ stopped' = "self lock"
  BY DEF FreeVm
<1>4. IsFiniteSet(present) /\ Cardinality(present) \in Nat
  BY <1>2, EntriesFinite
<1>5. Cardinality(present \ {e0}) = Cardinality(present) - 1
  BY <1>1, <1>4, FS_RemoveElement
<1>6. \A e \in present : e[1] < 3 => Above(e) # e0
  <2>1. \A e \in present : e[1] \in 0..3
    BY <1>2 DEF Entries
  <2>2. QED
    BY <2>1 DEF Above
<1> HIDE DEF e0
<1>7. present' \subseteq Entries /\ \A e \in present' : e[1] < 3 => Above(e) \in present'
  BY <1>2, <1>3, <1>6
<1>8. FramesCounted'
  <2>1. free + Cardinality(present \ {e0}) + 1 = FrameCount
    BY <1>1, <1>4, <1>5, PageTableAssumption
  <2>2. QED
    BY <1>0, <1>3, <2>1 DEF FramesCounted
<1>9. held' \subseteq Blocks
  BY <1>3 DEF EntryInv, TypeOK, Blocks
<1>10. TypeOK'
  <2>1. free' \in 0..FrameCount /\ stopped' \in Outcomes
    BY <1>1, <1>3 DEF Outcomes
  <2>2. QED
    BY <1>0, <1>7, <1>9, <2>1 DEF TypeOK, Entries, Blocks, Outcomes
<1>11. Rooted' /\ Backed'
  BY <1>3 DEF EntryInv, Rooted, Backed
<1>12. QED
  BY <1>8, <1>10, <1>11 DEF EntryInv

LEMMA EntryInvInit == Init => EntryInv
<1> SUFFICES ASSUME Init
             PROVE  EntryInv
  OBVIOUS
<1>1. FrameCount \in Nat /\ Cardinality({}) = 0
  BY PageTableAssumption, FS_EmptySet
<1>2. QED
  BY <1>1 DEF Init, EntryInv, TypeOK, FramesCounted, Rooted, Backed

LEMMA EntryInvStep == EntryInv /\ [Next]_vars => EntryInv'
<1> SUFFICES ASSUME EntryInv, [Next]_vars
             PROVE  EntryInv'
  OBVIOUS
<1>1. CASE stopped = "no" /\ \E n \in Sizes : AllocVm(n)
  BY <1>1, EntryInvAlloc
<1>2. CASE stopped = "no" /\ \E b \in held : FreeVm(b)
  BY <1>2, EntryInvFree
<1>3. CASE UNCHANGED vars
  BY <1>3 DEF vars, EntryInv, TypeOK, FramesCounted, Rooted, Backed
<1>4. QED
  BY <1>1, <1>2, <1>3 DEF Next

LEMMA EntryInvariant == Spec => []EntryInv
  BY EntryInvInit, EntryInvStep, PTL DEF Spec

(* Every variable of the page tables keeps its type, and an entry is only  *)
(* ever present in a table that exists (PageTable.cpp:6-29, 97-120).       *)
THEOREM PageTableTypeCorrect == Spec => []TypeOK
  BY EntryInvariant, PTL DEF EntryInv

(* For tables of any size, any number of frames and any requests: no frame *)
(* is lost or in two places, not even when map() runs out of frames in the *)
(* middle of a block, or unmap() cannot give back the frame of its first   *)
(* page (PageTable.cpp:22, 117-120).                                       *)
THEOREM FramesAlwaysCounted == Spec => []FramesCounted
  BY EntryInvariant, PTL DEF EntryInv
-----------------------------------------------------------------------------
(* What the search relies on: tables and directories without gaps in front *)
(* of what is mapped.                                                      *)
Regular ==
  /\ present = {} \/ <<2, 0>> \in present
  /\ <<2, 2>> \notin present
  /\ \A d \in Nat : <<2, d>> \in present => d < 2
  /\ \A t \in Nat : <<1, t>> \in present => t * FANOUT \in Mapped

(* The positions the search comes to: the page before is in use, and no n  *)
(* free pages begin before.                                                *)
Standing(p, n) ==
  /\ p \in Positions
  /\ p = <<0, 0, 0>> \/ (Val(p) > 0 /\ Val(p) - 1 \in Mapped)
  /\ \A q \in 0..Val(p) - 1 : Mapped \cap q..q + n - 1 # {}

(* The k-th entry of a chain is the first that is not present, and its     *)
(* table exists.                                                           *)
FirstAbsent(z, y, x, k) ==
  /\ Chain(z, y, x)[k] \notin present
  /\ \A j \in 1..k - 1 : Chain(z, y, x)[j] \in present
  /\ k > 1 => Above(Chain(z, y, x)[k]) \in present

LEMMA NullProbe ==
  ASSUME NEW z, NEW y, NEW x
  PROVE  /\ (\A k \in 1..4 : Chain(z, y, x)[k] \in present) => Probe(z, y, x) = "page"
         /\ Probe(z, y, x) = "null" =>
              \E k \in 1..4 : FirstAbsent(z, y, x, k)
<1> DEFINE chain == Chain(z, y, x)
           A == {k \in 1..4 : chain[k] \notin present}
           m == Min(A)
<1>1. Probe(z, y, x) = IF A = {} THEN "page"
                       ELSE IF chain[m][1] < 3 /\ Above(chain[m]) \notin present THEN "fault"
                       ELSE "null"
  BY DEF Probe
<1>2. CASE A = {}
  BY <1>1, <1>2
<1>3. CASE A # {}
  <2>1. A \subseteq Nat /\ A \subseteq 1..4
    OBVIOUS
  <2>2. \E k \in A : \A j \in A : k <= j
    <3> HIDE DEF A
    <3>1. QED
      BY <1>3, <2>1, LeastMember
  <2>3. m \in A /\ \A j \in A : m <= j
    <3>1. m = CHOOSE k \in A : \A j \in A : k <= j
      BY DEF Min
    <3> HIDE DEF A, m
    <3>2. QED
      BY <2>2, <3>1
  <2>4. m \in 1..4 /\ chain[m] \notin present
    <3> HIDE DEF m
    <3>1. QED
      BY <2>3
  <2>5. \A j \in 1..m - 1 : chain[j] \in present
    <3>1. ASSUME NEW j \in 1..m - 1
          PROVE  j \in 1..4 /\ ~ (m <= j)
      <4> HIDE DEF m
      <4>1. QED
        BY <2>4, <3>1
    <3> HIDE DEF m
    <3>2. QED
      BY <2>3, <3>1
  <2>6. m > 1 => chain[m][1] < 3
    <3> HIDE DEF m
    <3>1. m \in {1, 2, 3, 4}
      BY <2>4
    <3>2. chain[2][1] = 2 /\ chain[3][1] = 1 /\ chain[4][1] = 0
      BY DEF Chain
    <3>3. QED
      BY <3>1, <3>2
  <2>7. ~ (\A k \in 1..4 : chain[k] \in present)
    <3> HIDE DEF m
    <3>1. QED
      BY <2>4
  <2>8. Probe(z, y, x) = "null" => (m > 1 => Above(chain[m]) \in present)
    <3> HIDE DEF chain, m
    <3>1. QED
      BY <1>1, <1>3, <2>6
  <2> HIDE DEF m
  <2>9. Probe(z, y, x) = "null" => FirstAbsent(z, y, x, m)
    BY <2>4, <2>5, <2>8 DEF FirstAbsent
  <2>10. QED
    BY <2>4, <2>7, <2>9
<1>4. QED
  BY <1>2, <1>3

(* The k-th entry of a chain is the first that is not present, and its     *)
(* table does not exist.                                                   *)
FirstBroken(z, y, x, k) ==
  /\ Chain(z, y, x)[k] \notin present
  /\ \A j \in 1..k - 1 : Chain(z, y, x)[j] \in present
  /\ k # 1 /\ Above(Chain(z, y, x)[k]) \notin present

LEMMA FaultProbe ==
  ASSUME NEW z, NEW y, NEW x, Probe(z, y, x) = "fault"
  PROVE  \E k \in 1..4 : FirstBroken(z, y, x, k)
<1> DEFINE chain == Chain(z, y, x)
           A == {k \in 1..4 : chain[k] \notin present}
           m == Min(A)
<1>1. A # {} /\ chain[m][1] < 3 /\ Above(chain[m]) \notin present
  BY DEF Probe
<1>2. A \subseteq Nat /\ A \subseteq 1..4
  OBVIOUS
<1>3. \E k \in A : \A j \in A : k <= j
  <2> HIDE DEF A
  <2>1. QED
    BY <1>1, <1>2, LeastMember
<1>4. m \in A /\ \A j \in A : m <= j
  <2>1. m = CHOOSE k \in A : \A j \in A : k <= j
    BY DEF Min
  <2> HIDE DEF A, m
  <2>2. QED
    BY <1>3, <2>1
<1>5. m \in 1..4 /\ chain[m] \notin present
  <2> HIDE DEF m
  <2>1. QED
    BY <1>4
<1>6. \A j \in 1..m - 1 : chain[j] \in present
  <2>1. ASSUME NEW j \in 1..m - 1
        PROVE  j \in 1..4 /\ ~ (m <= j)
    <3> HIDE DEF m
    <3>1. QED
      BY <1>5, <2>1
  <2> HIDE DEF m
  <2>2. QED
    BY <1>4, <2>1
<1>7. m # 1
  <2>1. chain[1][1] = 3
    BY DEF Chain
  <2> HIDE DEF chain, m
  <2>2. QED
    BY <1>1, <2>1
<1> HIDE DEF m
<1>8. FirstBroken(z, y, x, m)
  BY <1>1, <1>5, <1>6, <1>7 DEF FirstBroken
<1>9. QED
  BY <1>5, <1>8

LEMMA NormalProbe ==
  ASSUME EntryInv, NEW p \in Nat \X (0..FANOUT - 1) \X (0..FANOUT - 1)
  PROVE  /\ Probe(p[1], p[2], p[3]) = "page" => Val(p) \in Mapped
         /\ Probe(p[1], p[2], p[3]) = "null" => Val(p) \notin Mapped
         /\ AddressOf(p) = Val(p)
         /\ Val(p) < WindowPages => Probe(p[1], p[2], p[3]) # "fault"
<1> DEFINE z == p[1]
           y == p[2]
           x == p[3]
           t == z * FANOUT + y
           v == t * FANOUT + x
<1>1. z \in Nat /\ y \in 0..FANOUT - 1 /\ x \in 0..FANOUT - 1
  OBVIOUS
<1>2. Shl(z, y) = t /\ Shl(t, x) = v
  BY <1>1, PageTableAssumption DEF Shl
<1>3. Chain(z, y, x) = <<<<3, 0>>, <<2, z>>, <<1, t>>, <<0, v>>>>
  BY <1>2 DEF Chain
<1>4. AddressOf(p) = v /\ Val(p) = v
  BY <1>2 DEF AddressOf, Val
<1>5. t \in Nat
  <2> HIDE DEF z, y, x
  <2>1. z * FANOUT \in Nat
    BY <1>1, PageTableAssumption
  <2>2. QED
    BY <1>1, <2>1, PageTableAssumption
<1>6. t \div FANOUT = z
  <2> HIDE DEF z, y, x
  <2>1. QED
    BY <1>1, Quotient
<1>7. v \div FANOUT = t
  <2> HIDE DEF z, y, x, t
  <2>1. QED
    BY <1>1, <1>5, Quotient
<1>11. v \in Nat
  <2> HIDE DEF z, y, x, t
  <2>1. t * FANOUT \in Nat
    BY <1>5, PageTableAssumption
  <2>2. QED
    BY <1>1, <2>1
<1> HIDE DEF z, y, x, t, v
<1>8. ASSUME Probe(z, y, x) = "page"
      PROVE  v \in Mapped
  <2>1. Chain(z, y, x)[4] \in present
    BY <1>8, ProbeRange
  <2>2. QED
    BY <1>3, <2>1, PathPresent
<1>9. ASSUME v \in Mapped
      PROVE  Probe(z, y, x) = "page"
  <2>1. Path(v) \subseteq present /\ v \in 0..WindowPages - 1
    BY <1>9, PathPresent
  <2>2. Path(v) = {<<0, v>>, <<1, t>>, <<2, z>>, <<3, 0>>}
    BY <1>6, <1>7, <2>1, PathFacts
  <2>3. \A k \in 1..4 : Chain(z, y, x)[k] \in present
    <3>1. \A k \in 1..4 : k \in {1, 2, 3, 4}
      OBVIOUS
    <3>2. QED
      BY <1>3, <2>1, <2>2, <3>1
  <2>4. QED
    BY <2>3, NullProbe
<1>10. ASSUME v < WindowPages, Probe(z, y, x) = "fault"
       PROVE  FALSE
  <2>1. v \in 0..WindowPages - 1
    BY <1>10, <1>11, WindowSize
  <2>2. /\ Path(v) = {<<0, v>>, <<1, t>>, <<2, z>>, <<3, 0>>}
        /\ \A e \in Path(v) : e[1] < 3 => Above(e) \in Path(v)
    BY <1>6, <1>7, <2>1, PathFacts
  <2>3. PICK k \in 1..4 : FirstBroken(z, y, x, k)
    BY <1>10, FaultProbe
  <2>4. k \in {2, 3, 4}
    <3>1. k \in {1, 2, 3, 4}
      OBVIOUS
    <3>2. QED
      BY <2>3, <3>1 DEF FirstBroken
  <2>5. /\ Above(<<2, z>>) = <<3, 0>>
        /\ Above(<<1, t>>) = <<2, z>>
        /\ Above(<<0, v>>) = <<1, t>>
    BY <2>2 DEF Above
  <2>6. \A j \in 1..k - 1 : Chain(z, y, x)[j] \in present
    BY <2>3 DEF FirstBroken
  <2>7. Above(Chain(z, y, x)[k]) \in present
    <3>1. CASE k = 2
      BY <1>3, <2>5, <2>6, <3>1
    <3>2. CASE k = 3
      BY <1>3, <2>5, <2>6, <3>2
    <3>3. CASE k = 4
      BY <1>3, <2>5, <2>6, <3>3
    <3>4. QED
      BY <2>4, <3>1, <3>2, <3>3
  <2>8. QED
    BY <2>3, <2>7 DEF FirstBroken
<1>12. QED
  BY <1>4, <1>8, <1>9, <1>10 DEF z, y, x
(* One past a table: there is no room in the next one if it exists, for    *)
(* its first entry is in use.                                              *)
LEMMA PastTable ==
  ASSUME EntryInv, Regular, NEW n, NEW p, Standing(p, n), p[2] # FANOUT, p[3] = FANOUT
  PROVE  /\ Probe(p[1], p[2], p[3]) = "page" => Val(p) \in Mapped
         /\ Probe(p[1], p[2], p[3]) # "null"
         /\ Probe(p[1], p[2], p[3]) = "fault" =>
              Val(p) \notin Mapped /\ Val(p) % FANOUT = 0
<1> DEFINE z == p[1]
           y == p[2]
           t == z * FANOUT + y
<1>1. z \in Nat /\ y \in 0..FANOUT - 1 /\ FANOUT \in Nat /\ FANOUT > 1
  BY ValType, PageTableAssumption DEF Standing
<1>2. t \in Nat
  <2> HIDE DEF z, y
  <2>1. z * FANOUT \in Nat
    BY <1>1
  <2>2. QED
    BY <1>1, <2>1
<1>3. Val(p) = t * FANOUT + FANOUT
  BY DEF Val
<1>4. t * FANOUT + FANOUT = (t + 1) * FANOUT /\ t * FANOUT \in Nat
  <2> HIDE DEF t
  <2>1. QED
    BY <1>1, <1>2
<1>5. Val(p) - 1 = t * FANOUT + (FANOUT - 1) /\ FANOUT - 1 \in 0..FANOUT - 1
  <2> HIDE DEF t
  <2>1. QED
    BY <1>1, <1>3, <1>4
<1>6. Val(p) - 1 \in Mapped
  BY <1>1 DEF Standing
<1>7. (Val(p) - 1) \div FANOUT = t
  <2> HIDE DEF t
  <2>1. QED
    BY <1>2, <1>5, Quotient
<1>8. t \div FANOUT = z
  <2> HIDE DEF z, y
  <2>1. QED
    BY <1>1, Quotient
<1>9. <<1, t>> \in present /\ <<2, z>> \in present /\ <<3, 0>> \in present
  <2>1. Val(p) - 1 \in 0..WindowPages - 1 /\ Path(Val(p) - 1) \subseteq present
    BY <1>6, PathPresent
  <2>2. Path(Val(p) - 1) = {<<0, Val(p) - 1>>, <<1, t>>, <<2, z>>, <<3, 0>>}
    BY <1>7, <1>8, <2>1, PathFacts
  <2>3. QED
    BY <2>1, <2>2
<1>10. Chain(z, y, FANOUT) = <<<<3, 0>>, <<2, z>>, <<1, t>>, <<0, Val(p)>>>>
  BY <1>1, <1>3 DEF Chain, Shl
<1>11. ASSUME Probe(z, y, FANOUT) = "page"
       PROVE  Val(p) \in Mapped
  <2>1. Chain(z, y, FANOUT)[4] \in present
    BY <1>11, ProbeRange
  <2>2. QED
    BY <1>10, <2>1, PathPresent
<1>12. ASSUME Probe(z, y, FANOUT) = "null"
       PROVE  FALSE
  <2> HIDE DEF z, y, t
  <2>1. PICK k \in 1..4 : FirstAbsent(z, y, FANOUT, k)
    BY <1>12, NullProbe
  <2>2. k = 4 /\ <<0, Val(p)>> \notin present /\ Above(<<0, Val(p)>>) \in present
    <3>1. k \in {1, 2, 3, 4}
      OBVIOUS
    <3>2. QED
      BY <1>9, <1>10, <2>1, <3>1 DEF FirstAbsent
  <2>3. Above(<<0, Val(p)>>) = <<1, t + 1>>
    <3>1. Val(p) = (t + 1) * FANOUT + 0 /\ 0 \in 0..FANOUT - 1 /\ t + 1 \in Nat
      BY <1>1, <1>2, <1>3, <1>4
    <3>2. Val(p) \div FANOUT = t + 1
      BY <3>1, Quotient
    <3>3. QED
      BY <3>2 DEF Above
  <2>4. (t + 1) * FANOUT \in Mapped
    BY <1>2, <2>2, <2>3 DEF Regular
  <2>5. QED
    BY <1>3, <1>4, <2>2, <2>4, PathPresent
<1>13. ASSUME Val(p) \in Mapped
       PROVE  Probe(z, y, FANOUT) = "page"
  <2> HIDE DEF z, y, t
  <2>1. <<0, Val(p)>> \in present
    BY <1>13, PathPresent
  <2>2. \A k \in 1..4 : Chain(z, y, FANOUT)[k] \in present
    <3>1. \A k \in 1..4 : k \in {1, 2, 3, 4}
      OBVIOUS
    <3>2. QED
      BY <1>9, <1>10, <2>1, <3>1
  <2>3. QED
    BY <2>2, NullProbe
<1>14. Val(p) % FANOUT = 0
  <2> HIDE DEF t
  <2>1. Val(p) = (t + 1) * FANOUT + 0 /\ 0 \in 0..FANOUT - 1 /\ t + 1 \in Nat
    BY <1>1, <1>2, <1>3, <1>4
  <2>2. QED
    BY <2>1, Quotient
<1>15. QED
  BY <1>11, <1>12, <1>13, <1>14 DEF z, y

(* One past a directory, and pages on.                                     *)
LEMMA PastDirectory ==
  ASSUME EntryInv, Regular, NEW n, NEW p, Standing(p, n), p[2] = FANOUT, p[3] # 0
  PROVE  /\ Probe(p[1], p[2], p[3]) = "page" => Val(p) \in Mapped
         /\ Probe(p[1], p[2], p[3]) = "null" => Val(p) \notin Mapped /\ AddressOf(p) = Val(p)
         /\ Probe(p[1], p[2], p[3]) = "fault" =>
              Val(p) \notin Mapped /\ Val(p) % FANOUT = 0
<1> DEFINE z == p[1]
           x == p[3]
           w == x - 1
<1>1. z \in Nat /\ x \in 1..FANOUT /\ FANOUT \in Nat /\ FANOUT > 1 /\ w \in 0..FANOUT - 1
  BY ValType, PageTableAssumption DEF Standing
<1>2. Val(p) - 1 = ((z + 1) * FANOUT) * FANOUT + w
  <2>1. Val(p) = (z * FANOUT + FANOUT) * FANOUT + x
    BY DEF Val
  <2> HIDE DEF z, x
  <2>2. (z + 1) * FANOUT = z * FANOUT + FANOUT /\ (z * FANOUT + FANOUT) * FANOUT \in Nat
    BY <1>1
  <2>3. QED
    BY <1>1, <2>1, <2>2
<1> HIDE DEF z, x, w
<1>3. Val(p) - 1 \in Mapped
  BY <1>1 DEF Standing, x
<1>4. /\ (Val(p) - 1) \div FANOUT = (z + 1) * FANOUT
      /\ ((z + 1) * FANOUT) \div FANOUT = z + 1
  <2> DEFINE t == (z + 1) * FANOUT
  <2>1. t \in Nat /\ z + 1 \in Nat /\ t = (z + 1) * FANOUT + 0 /\ 0 \in 0..FANOUT - 1
    BY <1>1
  <2>2. t \div FANOUT = z + 1
    BY <2>1, Quotient
  <2>3. (Val(p) - 1) \div FANOUT = t
    <3>1. Val(p) - 1 = t * FANOUT + w
      BY <1>2 DEF t
    <3>2. t \in Nat /\ w \in 0..FANOUT - 1
      BY <1>1, <2>1
    <3> HIDE DEF t
    <3>3. (t * FANOUT + w) \div FANOUT = t
      BY <3>2, Quotient
    <3>4. QED
      BY <3>1, <3>3
  <2>4. QED
    BY <2>2, <2>3
<1>5. /\ <<1, (z + 1) * FANOUT>> \in present
      /\ <<2, z + 1>> \in present /\ <<3, 0>> \in present
  <2>1. Val(p) - 1 \in 0..WindowPages - 1 /\ Path(Val(p) - 1) \subseteq present
    BY <1>3, PathPresent
  <2>2. Path(Val(p) - 1) = {<<0, Val(p) - 1>>, <<1, (z + 1) * FANOUT>>, <<2, z + 1>>, <<3, 0>>}
    BY <1>4, <2>1, PathFacts
  <2>3. QED
    BY <2>1, <2>2
<1>6. z = 0
  <2>1. z + 1 \in Nat /\ z + 1 < 2
    BY <1>1, <1>5 DEF Regular
  <2>2. QED
    BY <1>1, <2>1
<1>7. <<1, FANOUT>> \in present /\ <<2, 0>> \in present
  BY <1>1, <1>5, <1>6 DEF Regular
<1>8. Val(p) = FANOUT * FANOUT + x
  BY <1>1, <1>6 DEF Val, z, x
<1>9. Shl(0, FANOUT) = FANOUT
  BY <1>1 DEF Shl
<1>10. Chain(0, FANOUT, x) = <<<<3, 0>>, <<2, 0>>, <<1, FANOUT>>, <<0, Val(p)>>>>
  BY <1>1, <1>8, <1>9 DEF Chain
<1>11. ASSUME Probe(0, FANOUT, x) = "page"
       PROVE  Val(p) \in Mapped
  <2>1. Chain(0, FANOUT, x)[4] \in present
    BY <1>11, ProbeRange
  <2>2. QED
    BY <1>10, <2>1, PathPresent
<1>12. ASSUME Probe(0, FANOUT, x) = "null"
       PROVE  Val(p) \notin Mapped /\ AddressOf(p) = Val(p)
  <2>1. PICK k \in 1..4 : FirstAbsent(0, FANOUT, x, k)
    BY <1>12, NullProbe
  <2>2. k = 4 /\ <<0, Val(p)>> \notin present /\ Above(<<0, Val(p)>>) \in present
    <3>1. k \in {1, 2, 3, 4}
      OBVIOUS
    <3>2. QED
      BY <1>5, <1>7, <1>10, <2>1, <3>1 DEF FirstAbsent
  <2>3. Val(p) \notin Mapped
    BY <2>2, PathPresent
  <2>4. x # FANOUT
    <3> SUFFICES ASSUME x = FANOUT
                 PROVE  FALSE
      OBVIOUS
    <3>1. /\ Val(p) = (FANOUT + 1) * FANOUT + 0 /\ 0 \in 0..FANOUT - 1 /\ FANOUT + 1 \in Nat
          /\ Val(p) = (FANOUT + 1) * FANOUT
      BY <1>1, <1>8
    <3>2. Val(p) \div FANOUT = FANOUT + 1
      BY <3>1, Quotient
    <3>3. <<1, FANOUT + 1>> \in present
      BY <2>2, <3>2 DEF Above
    <3>4. (FANOUT + 1) * FANOUT \in Mapped
      BY <3>1, <3>3 DEF Regular
    <3>5. QED
      BY <2>3, <3>1, <3>4
  <2>5. AddressOf(p) = Shl(FANOUT, x)
    BY <1>6, <1>9 DEF AddressOf, z, x
  <2>6. Shl(FANOUT, x) = FANOUT * FANOUT + x
    BY <2>4 DEF Shl
  <2>7. QED
    BY <1>8, <2>3, <2>5, <2>6
<1>13. ASSUME Val(p) \in Mapped
       PROVE  Probe(0, FANOUT, x) = "page"
  <2>1. <<0, Val(p)>> \in present
    BY <1>13, PathPresent
  <2>2. \A k \in 1..4 : Chain(0, FANOUT, x)[k] \in present
    <3>1. \A k \in 1..4 : k \in {1, 2, 3, 4}
      OBVIOUS
    <3>2. QED
      BY <1>5, <1>7, <1>10, <2>1, <3>1
  <2>3. QED
    BY <2>2, NullProbe
<1>14. ASSUME Probe(0, FANOUT, x) = "fault"
       PROVE  Val(p) % FANOUT = 0
  <2>1. PICK k \in 1..4 : FirstBroken(0, FANOUT, x, k)
    BY <1>14, FaultProbe
  <2>2. k = 4 /\ Above(<<0, Val(p)>>) \notin present
    <3>1. k \in {1, 2, 3, 4}
      OBVIOUS
    <3>2. QED
      BY <1>5, <1>7, <1>10, <2>1, <3>1 DEF FirstBroken
  <2>3. x = FANOUT
    <3> SUFFICES ASSUME x # FANOUT
                 PROVE  FALSE
      OBVIOUS
    <3>1. x \in 0..FANOUT - 1
      BY <1>1
    <3>2. (FANOUT * FANOUT + x) \div FANOUT = FANOUT
      BY <1>1, <3>1, Quotient
    <3>3. Above(<<0, Val(p)>>) = <<1, FANOUT>>
      BY <1>8, <3>2 DEF Above
    <3>4. QED
      BY <1>7, <2>2, <3>3
  <2>4. Val(p) = (FANOUT + 1) * FANOUT + 0 /\ 0 \in 0..FANOUT - 1 /\ FANOUT + 1 \in Nat
    BY <1>1, <1>8, <2>3
  <2>5. QED
    BY <2>4, Quotient
<1>15. QED
  BY <1>6, <1>11, <1>12, <1>13, <1>14 DEF z, x
(* Just past a directory.  Past the second, where the bit of y is already  *)
(* in z, the third would have to exist for the probe to return.            *)
LEMMA AtDirectory ==
  ASSUME EntryInv, Regular, NEW n, NEW p, Standing(p, n), p[2] = FANOUT, p[3] = 0
  PROVE  /\ Probe(p[1], p[2], p[3]) = "page" => Val(p) \in Mapped
         /\ Probe(p[1], p[2], p[3]) = "null" => Val(p) \notin Mapped /\ AddressOf(p) = Val(p)
         /\ Probe(p[1], p[2], p[3]) = "fault" =>
              Val(p) \notin Mapped /\ Val(p) % FANOUT = 0
<1> DEFINE z == p[1]
           f == FANOUT - 1
           t == z * FANOUT + f
<1>1. z \in Nat /\ FANOUT \in Nat /\ FANOUT > 1 /\ f \in 0..FANOUT - 1
  BY ValType, PageTableAssumption DEF Standing
<1>2. Val(p) = (z * FANOUT + FANOUT) * FANOUT
  <2>1. Val(p) = (z * FANOUT + FANOUT) * FANOUT + 0
    BY DEF Val
  <2> HIDE DEF z
  <2>2. (z * FANOUT + FANOUT) * FANOUT \in Nat
    BY <1>1
  <2>3. QED
    BY <2>1, <2>2
<1> HIDE DEF z
<1>3. Val(p) - 1 = t * FANOUT + f /\ t \in Nat
  BY <1>1, <1>2
<1>4. Val(p) - 1 \in Mapped
  BY <1>1 DEF Standing
<1>5. (Val(p) - 1) \div FANOUT = t
  <2> HIDE DEF t, f
  <2>1. (t * FANOUT + f) \div FANOUT = t
    BY <1>1, <1>3, Quotient
  <2>2. QED
    BY <1>3, <2>1
<1>6. t \div FANOUT = z
  <2> HIDE DEF f
  <2>1. QED
    BY <1>1, Quotient
<1> HIDE DEF t, f
<1>7. <<2, z>> \in present /\ <<3, 0>> \in present
  <2>1. Val(p) - 1 \in 0..WindowPages - 1 /\ Path(Val(p) - 1) \subseteq present
    BY <1>4, PathPresent
  <2>2. Path(Val(p) - 1) = {<<0, Val(p) - 1>>, <<1, t>>, <<2, z>>, <<3, 0>>}
    BY <1>5, <1>6, <2>1, PathFacts
  <2>3. QED
    BY <2>1, <2>2
<1>8. z < 2
  BY <1>1, <1>7 DEF Regular
<1>12. Val(p) % FANOUT = 0
  <2> DEFINE r == z * FANOUT + FANOUT
             nil == 0
  <2>1. z * FANOUT \in Nat
    BY <1>1
  <2>2. r \in Nat /\ nil \in 0..FANOUT - 1
    BY <1>1, <2>1
  <2>3. Val(p) = r * FANOUT + nil
    <3>1. r * FANOUT \in Nat
      <4> HIDE DEF r
      <4>1. QED
        BY <1>1, <2>2
    <3>2. QED
      BY <1>2, <3>1
  <2>4. (r * FANOUT + nil) % FANOUT = nil
    <3> HIDE DEF r, nil
    <3>1. QED
      BY <2>2, Quotient
  <2>5. QED
    BY <2>3, <2>4
<1>9. CASE z = 0
  <2>1. Shl(0, FANOUT) = FANOUT
    BY <1>1 DEF Shl
  <2>2. Val(p) = FANOUT * FANOUT /\ FANOUT * FANOUT \in Nat
    BY <1>1, <1>2, <1>9
  <2>3. Chain(0, FANOUT, 0) = <<<<3, 0>>, <<2, 0>>, <<1, FANOUT>>, <<0, Val(p)>>>>
    BY <1>1, <2>1, <2>2 DEF Chain
  <2>4. ASSUME Probe(0, FANOUT, 0) = "page"
        PROVE  Val(p) \in Mapped
    <3>1. Chain(0, FANOUT, 0)[4] \in present
      BY <2>4, ProbeRange
    <3>2. QED
      BY <2>3, <3>1, PathPresent
  <2>5. ASSUME Val(p) \in Mapped
        PROVE  Probe(0, FANOUT, 0) = "page"
    <3>1. Val(p) \in 0..WindowPages - 1 /\ Path(Val(p)) \subseteq present
      BY <2>5, PathPresent
    <3>2. Val(p) \div FANOUT = FANOUT
      <4>1. FANOUT * FANOUT + 0 = Val(p) /\ 0 \in 0..FANOUT - 1
        BY <1>1, <2>2
      <4>2. (FANOUT * FANOUT + 0) \div FANOUT = FANOUT
        BY <1>1, <4>1, Quotient
      <4>3. QED
        BY <4>1, <4>2
    <3>3. <<1, FANOUT>> \in present /\ <<0, Val(p)>> \in present
      BY <3>1, <3>2, PathFacts
    <3>4. \A k \in 1..4 : Chain(0, FANOUT, 0)[k] \in present
      <4>1. \A k \in 1..4 : k \in {1, 2, 3, 4}
        OBVIOUS
      <4>2. QED
        BY <1>7, <1>9, <2>3, <3>3, <4>1
    <3>5. QED
      BY <3>4, NullProbe
  <2>6. AddressOf(p) = Val(p)
    <3>1. AddressOf(p) = Shl(FANOUT, 0)
      BY <1>9, <2>1 DEF AddressOf, z
    <3>2. Shl(FANOUT, 0) = FANOUT * FANOUT
      BY <1>1, <2>2 DEF Shl
    <3>3. QED
      BY <2>2, <3>1, <3>2
  <2>7. QED
    BY <1>9, <1>12, <2>4, <2>5, <2>6 DEF z
<1>10. CASE z = 1
  <2>1. Chain(1, FANOUT, 0)[3] = <<1, FANOUT + FANOUT>> /\ Chain(1, FANOUT, 0)[1] = <<3, 0>>
        /\ Chain(1, FANOUT, 0)[2] = <<2, 1>>
    BY <1>1 DEF Chain
  <2>2. Above(<<1, FANOUT + FANOUT>>) = <<2, 2>>
    <3>1. FANOUT + FANOUT = 2 * FANOUT + 0 /\ 0 \in 0..FANOUT - 1 /\ 2 \in Nat
      BY <1>1
    <3>2. (2 * FANOUT + 0) \div FANOUT = 2
      BY <3>1, Quotient
    <3>3. QED
      BY <3>1, <3>2 DEF Above
  <2>3. <<2, 2>> \notin present
    BY DEF Regular
  <2>4. <<1, FANOUT + FANOUT>> \notin present
    <3>1. \A e \in present : e[1] < 3 => Above(e) \in present
      BY DEF EntryInv, TypeOK
    <3>2. <<1, FANOUT + FANOUT>>[1] < 3
      OBVIOUS
    <3>3. QED
      BY <2>2, <2>3, <3>1, <3>2
  <2>5. Probe(1, FANOUT, 0) # "page"
    BY <2>1, <2>4, ProbeRange
  <2>6. ASSUME Probe(1, FANOUT, 0) = "null"
        PROVE  FALSE
    <3>1. PICK k \in 1..4 : FirstAbsent(1, FANOUT, 0, k)
      BY <2>6, NullProbe
    <3>2. k \in {1, 2, 3, 4}
      OBVIOUS
    <3>3. k # 1 /\ k # 2
      BY <1>7, <1>10, <2>1, <3>1 DEF FirstAbsent
    <3>4. k # 3
      BY <2>1, <2>2, <2>3, <3>1 DEF FirstAbsent
    <3>5. k # 4
      <4>1. 3 \in 1..4 - 1
        OBVIOUS
      <4>2. QED
        BY <2>1, <2>4, <3>1, <4>1 DEF FirstAbsent
    <3>6. QED
      BY <3>2, <3>3, <3>4, <3>5
  <2>7. ASSUME Val(p) \in Mapped
        PROVE  FALSE
    <3>1. Val(p) = (FANOUT + FANOUT) * FANOUT + 0 /\ FANOUT + FANOUT = 2 * FANOUT + 0
          /\ 0 \in 0..FANOUT - 1 /\ FANOUT + FANOUT \in Nat
      BY <1>1, <1>2, <1>10
    <3>2. Val(p) \div FANOUT = FANOUT + FANOUT
      BY <3>1, Quotient
    <3>3. (2 * FANOUT + 0) \div FANOUT = 2
      BY <3>1, Quotient
    <3>4. (Val(p) \div FANOUT) \div FANOUT = 2
      BY <3>1, <3>2, <3>3
    <3>5. Val(p) \in 0..WindowPages - 1 /\ Path(Val(p)) \subseteq present
      BY <2>7, PathPresent
    <3>6. <<2, 2>> \in present
      BY <3>4, <3>5, PathFacts
    <3>7. QED
      BY <2>3, <3>6
  <2>8. QED
    BY <1>10, <1>12, <2>5, <2>6, <2>7 DEF z
<1>11. QED
  BY <1>1, <1>8, <1>9, <1>10

(* Where the search stands, a probe tells the truth about each page.       *)
LEMMA StandingProbe ==
  ASSUME EntryInv, Regular, NEW n, NEW p, Standing(p, n), NEW i \in Nat
  PROVE  /\ Probed(p, i) = "page" => Val(p) + i \in Mapped
         /\ Probed(p, i) = "null" => Val(p) + i \notin Mapped
         /\ Probed(p, 0) = "null" => AddressOf(p) = Val(p)
         /\ Probed(p, i) = "fault" /\ Val(p) + i < WindowPages =>
              i = 0 /\ Val(p) \notin Mapped /\ Val(p) % FANOUT = 0
<1>1. ASSUME NEW q \in Nat \X (0..FANOUT - 1) \X (0..FANOUT - 1)
      PROVE  /\ Probe(q[1], q[2], q[3]) = "page" => Val(q) \in Mapped
             /\ Probe(q[1], q[2], q[3]) = "null" => Val(q) \notin Mapped
             /\ AddressOf(q) = Val(q)
             /\ Val(q) < WindowPages => Probe(q[1], q[2], q[3]) # "fault"
  BY NormalProbe
<1>2. p \in Positions /\ Val(p) \in Nat
  BY ValType DEF Standing
<1>3. /\ Probe(p[1], p[2], p[3]) = "page" => Val(p) \in Mapped
      /\ Probe(p[1], p[2], p[3]) = "null" => Val(p) \notin Mapped /\ AddressOf(p) = Val(p)
      /\ Probe(p[1], p[2], p[3]) = "fault" /\ Val(p) < WindowPages =>
           Val(p) \notin Mapped /\ Val(p) % FANOUT = 0
  <2>1. CASE p[2] # FANOUT /\ p[3] # FANOUT
    <3>1. p \in Nat \X (0..FANOUT - 1) \X (0..FANOUT - 1)
      BY <1>2, <2>1, PageTableAssumption DEF Positions
    <3>2. QED
      BY <3>1, NormalProbe
  <2>2. CASE p[2] # FANOUT /\ p[3] = FANOUT
    BY <2>2, PastTable
  <2>3. CASE p[2] = FANOUT /\ p[3] # 0
    BY <2>3, PastDirectory
  <2>4. CASE p[2] = FANOUT /\ p[3] = 0
    BY <2>4, AtDirectory
  <2>5. QED
    BY <2>1, <2>2, <2>3, <2>4
<1>4. At(p, 0) = p
  BY DEF At
<1>5. CASE i = 0
  BY <1>2, <1>3, <1>4, <1>5 DEF Probed
<1>6. CASE i # 0
  <2>1. /\ At(p, i) \in Nat \X (0..FANOUT - 1) \X (0..FANOUT - 1)
        /\ Val(At(p, i)) = Val(p) + i
    BY <1>2, <1>6, AtPlace
  <2>2. Probed(p, i) = Probe(At(p, i)[1], At(p, i)[2], At(p, i)[3])
    BY DEF Probed
  <2>3. Probed(p, 0) = Probe(p[1], p[2], p[3])
    BY <1>4 DEF Probed
  <2>4. QED
    BY <1>1, <1>3, <2>1, <2>2, <2>3
<1>7. QED
  BY <1>5, <1>6
LEMMA StandingOn ==
  ASSUME EntryInv, Regular, NEW n \in Sizes, NEW p, Standing(p, n), p \notin Stops(n)
  PROVE  Standing(Onward(n)[p], n)
<1> DEFINE i == FirstHit(p, n)
           r == Onward(n)[p]
<1>1. p \in Positions /\ Val(p) \in Nat /\ n \in Nat /\ n > 0
  BY ValType, PageTableAssumption DEF Standing
<1>2. Hits(p, n) # {} /\ Probed(p, i) # "fault"
  BY <1>1 DEF Stops
<1>3. i \in 0..n - 1 /\ Probed(p, i) = "page"
  <2>1. i \in 0..n - 1 /\ Probed(p, i) # "null"
    BY <1>1, <1>2, FirstHitFacts
  <2>2. QED
    BY <1>2, <2>1, ProbeRange DEF Probed
<1>4. Val(p) + i \in Mapped
  BY <1>1, <1>3, StandingProbe
<1>5. r \in Positions /\ Val(r) = Val(p) + (i + 1)
  <2>1. i \in Nat /\ i + 1 \in Nat
    BY <1>1, <1>3
  <2>2. r = Advance(p, i + 1)
    BY <1>1 DEF Onward
  <2> HIDE DEF i
  <2>3. QED
    BY <1>1, <2>1, <2>2, AdvancePlace
<1> HIDE DEF i, r
<1>6. Val(r) > 0 /\ Val(r) - 1 = Val(p) + i
  BY <1>1, <1>3, <1>5
<1>7. ASSUME NEW q \in 0..Val(r) - 1
      PROVE  Mapped \cap q..q + n - 1 # {}
  <2>1. CASE q < Val(p)
    BY <1>1, <2>1 DEF Standing
  <2>2. CASE q >= Val(p)
    <3>1. Val(p) + i \in q..q + n - 1
      BY <1>1, <1>3, <1>6, <2>2
    <3>2. QED
      BY <1>4, <3>1
  <2>3. QED
    BY <1>1, <1>5, <1>3, <2>1, <2>2
<1>8. QED
  BY <1>4, <1>5, <1>6, <1>7 DEF Standing, r

(* The search begins there.                                                *)
LEMMA StartStands ==
  ASSUME NEW n
  PROVE  <<0, 0, 0>> \in {p \in Positions : Standing(p, n)}
<1> DEFINE start == <<0, 0, 0>>
<1>1. start \in Positions /\ Val(start) = 0
  BY PageTableAssumption DEF Positions, Val
<1>2. 0..Val(start) - 1 = {}
  BY <1>1
<1>3. Standing(start, n)
  <2>1. \A q \in 0..Val(start) - 1 : Mapped \cap q..q + n - 1 # {}
    <3> HIDE DEF start
    <3>1. QED
      BY <1>2
  <2>2. start = <<0, 0, 0>>
    OBVIOUS
  <2> HIDE DEF start
  <2>3. QED
    BY <1>1, <2>1, <2>2 DEF Standing
<1>4. QED
  BY <1>1, <1>3

(* alloc_vm's search, where it returns, returns the first n free pages.    *)
LEMMA FoundFree ==
  ASSUME EntryInv, Regular, NEW n \in Sizes, Found(n) # -1
  PROVE  /\ Found(n) \in Nat
         /\ Found(n) = 0 \/ (Found(n) > 0 /\ Found(n) - 1 \in Mapped)
         /\ Mapped \cap Found(n)..Found(n) + n - 1 = {}
         /\ \A q \in 0..Found(n) - 1 : Mapped \cap q..q + n - 1 # {}
<1> DEFINE start == <<0, 0, 0>>
           J == {p \in Positions : Standing(p, n)}
<1>1. n \in Nat /\ n > 0
  BY PageTableAssumption
<1>2. start \in J
  BY StartStands
<1>3. \A p \in J \ Stops(n) : Onward(n)[p] \in J
  BY StandingOn DEF Standing
<1>4. PICK r \in J \cap Stops(n) : Search(n)[start] = Ends(n)[r]
  <2> HIDE DEF J, start
  <2>1. J \subseteq Positions
    BY DEF J
  <2>2. QED
    BY <1>2, <1>3, <2>1, SearchWalks, SearchFollows, WalkStops
<1>5. r \in Positions /\ Standing(r, n) /\ Val(r) \in Nat
  BY <1>4, ValType
<1>6. Hits(r, n) = {} /\ Found(n) = AddressOf(r)
  BY <1>4, <1>5 DEF Found, Ends
<1>7. \A i \in 0..n - 1 : Probed(r, i) = "null"
  BY <1>6 DEF Hits
<1>8. AddressOf(r) = Val(r)
  <2>1. 0 \in 0..n - 1
    BY <1>1
  <2>2. Probed(r, 0) = "null"
    BY <1>7, <2>1
  <2>3. QED
    BY <1>5, <2>2, StandingProbe
<1>9. ASSUME NEW q \in Val(r)..Val(r) + n - 1
      PROVE  q \notin Mapped
  <2> DEFINE i == q - Val(r)
  <2>1. i \in 0..n - 1 /\ i \in Nat /\ Val(r) + i = q
    BY <1>1, <1>5
  <2>2. Probed(r, i) = "null"
    BY <1>7, <2>1
  <2> HIDE DEF i
  <2>3. Val(r) + i \notin Mapped
    BY <1>5, <2>1, <2>2, StandingProbe
  <2>4. QED
    BY <2>1, <2>3
<1>10. Val(r) = 0 \/ (Val(r) > 0 /\ Val(r) - 1 \in Mapped)
  <2>1. r = start => Val(r) = 0
    BY PageTableAssumption DEF Val
  <2>2. QED
    BY <1>5, <2>1 DEF Standing
<1>11. \A q \in 0..Val(r) - 1 : Mapped \cap q..q + n - 1 # {}
  BY <1>5 DEF Standing
<1>12. QED
  BY <1>5, <1>6, <1>8, <1>9, <1>10, <1>11
-----------------------------------------------------------------------------
LEMMA MappedIs ==
  ASSUME NEW S, S \subseteq Entries
  PROVE  \A q : q \in {e[2] : e \in {f \in S : f[1] = 0}} <=> <<0, q>> \in S
<1>1. ASSUME NEW e \in S, e[1] = 0
      PROVE  e = <<0, e[2]>>
  BY <1>1 DEF Entries
<1>2. QED
  BY <1>1

(* alloc_vm faults, stops in the middle of the block, or maps it.          *)
LEMMA AllocOutcome ==
  ASSUME EntryInv, NEW n \in Sizes, AllocVm(n), NEW b, b = [at |-> Found(n), pages |-> n]
  PROVE  \/ /\ Found(n) = -1 /\ stopped' = "alloc fault"
            /\ UNCHANGED <<present, free, held>>
         \/ /\ FitsWindow(b) /\ Found(n) # -1 /\ stopped' = "no frames"
            /\ present' = present \cup Created(b) /\ held' = held
         \/ /\ FitsWindow(b) /\ Found(n) # -1 /\ Created(b) = Missing(b)
            /\ present' = present \cup Missing(b)
            /\ held' = held \cup {b} /\ stopped' = stopped
<1>1. CASE Found(n) = -1
  BY <1>1 DEF AllocVm
<1>2. CASE Found(n) # -1
  <2>1. FitsWindow(b)
    <3>1. Found(n) \in Nat /\ Found(n) + n <= WindowPages
      BY <1>2, FoundRange DEF AllocVm
    <3>2. QED
      BY <3>1 DEF FitsWindow, Blocks
  <2>2. /\ present' = present \cup Created(b)
        /\ IF Created(b) = Missing(b) THEN held' = held \cup {b} /\ UNCHANGED stopped
           ELSE stopped' = "no frames" /\ UNCHANGED held
    BY <1>2 DEF AllocVm
  <2>3. QED
    BY <1>2, <2>1, <2>2
<1>3. QED
  BY <1>1, <1>2

(* What mapping a block adds, level by level.                              *)
LEMMA AddedEntries ==
  ASSUME NEW b, FitsWindow(b)
  PROVE  /\ \A q : <<0, q>> \in Missing(b) => q \in BlockPages(b)
         /\ \A t : <<1, t>> \in Missing(b) => \E q \in BlockPages(b) : t = q \div FANOUT
         /\ \A d : <<2, d>> \in Missing(b) =>
                \E q \in BlockPages(b) : d = (q \div FANOUT) \div FANOUT
         /\ \A q \in BlockPages(b) :
              /\ <<0, q>> \in present \cup Missing(b)
              /\ <<2, (q \div FANOUT) \div FANOUT>> \in present \cup Missing(b)
<1>1. \A q \in BlockPages(b) :
        Path(q) = {<<0, q>>, <<1, q \div FANOUT>>, <<2, (q \div FANOUT) \div FANOUT>>, <<3, 0>>}
  BY BlockFacts, PathFacts
<1>2. \A e \in Missing(b) : \E q \in BlockPages(b) : e \in Path(q)
  BY MissingFacts
<1>3. \A q \in BlockPages(b) : Path(q) \subseteq present \cup Missing(b)
  BY MissingFacts
<1>4. QED
  BY <1>1, <1>2, <1>3

LEMMA MappedAfterAlloc ==
  ASSUME EntryInv, NEW b, FitsWindow(b), present' = present \cup Missing(b)
  PROVE  Mapped' = Mapped \cup BlockPages(b)
<1>1. present \subseteq Entries /\ Missing(b) \subseteq Entries
  BY MissingFacts DEF EntryInv, TypeOK, Entries
<1>2. present' \subseteq Entries
  BY <1>1
<1>3. \A q : q \in Mapped <=> <<0, q>> \in present
  BY <1>1, MappedIs DEF Mapped
<1>4. \A q : q \in Mapped' <=> <<0, q>> \in present'
  BY <1>2, MappedIs DEF Mapped
<1>5. QED
  BY <1>3, <1>4, AddedEntries

LEMMA FreedEntries ==
  ASSUME EntryInv, NEW b, FreeVm(b)
  PROVE  /\ \A k, i : k # 0 => (<<k, i>> \in present' <=> <<k, i>> \in present)
         /\ Mapped' = Mapped \ {b.at}
         /\ present' \subseteq present
<1>1. present' = present \ {<<0, b.at>>}
  BY DEF FreeVm
<1>2. present \subseteq Entries /\ present' \subseteq Entries
  BY <1>1 DEF EntryInv, TypeOK, Entries
<1>3. \A q : q \in Mapped <=> <<0, q>> \in present
  BY <1>2, MappedIs DEF Mapped
<1>4. \A q : q \in Mapped' <=> <<0, q>> \in present'
  BY <1>2, MappedIs DEF Mapped
<1>5. \A q : <<0, q>> \in present' <=> <<0, q>> \in present /\ q # b.at
  BY <1>1
<1>6. QED
  BY <1>1, <1>3, <1>4, <1>5

(* Entry 0 of every page table is in use: the only reason why alloc_vm,    *)
(* whose indices may stand one past a table, finds no room there, where    *)
(* the address it would compute is that of another table.                  *)
TablesKeepFirstEntry ==
  stopped \in {"no", "alloc fault"} /\ BelowThirdDirectory =>
    \A e \in present : e[1] = 1 => e[2] * FANOUT \in Mapped

(* The shape of the tables: what the search relies on, while it does.      *)
ShapeInv ==
  /\ stopped # "no frames" => present = {} \/ <<2, 0>> \in present
  /\ stopped # "no frames" /\ BelowThirdDirectory =>
       \A d \in Nat : <<2, d>> \in present => d < 2
  /\ TablesKeepFirstEntry

LEMMA ShapeIsRegular ==
  ASSUME EntryInv, ShapeInv, stopped = "no", BelowThirdDirectory
  PROVE  Regular
<1>1. ASSUME NEW t \in Nat, <<1, t>> \in present
      PROVE  t * FANOUT \in Mapped
  <2>1. \A e \in present : e[1] = 1 => e[2] * FANOUT \in Mapped
    BY DEF ShapeInv, TablesKeepFirstEntry
  <2>2. <<1, t>>[1] = 1 /\ <<1, t>>[2] = t
    OBVIOUS
  <2>3. QED
    BY <1>1, <2>1, <2>2
<1>2. QED
  BY <1>1 DEF ShapeInv, BelowThirdDirectory, Regular
(* The first page of the third directory.                                  *)
Third == (2 * FANOUT) * FANOUT

LEMMA ThirdFacts ==
  /\ Third \in Nat
  /\ (Third \div FANOUT) \div FANOUT = 2
  /\ \A q \in Nat : Third <= q <=> 2 <= (q \div FANOUT) \div FANOUT
<1> DEFINE two == 2
           row == two * FANOUT
           nil == 0
<1>0. FANOUT \in Nat /\ FANOUT > 1 /\ nil \in 0..FANOUT - 1 /\ two \in Nat
  BY PageTableAssumption
<1>1. row \in Nat /\ Third = row * FANOUT /\ Third \in Nat
  BY <1>0 DEF Third
<1>2. Third \div FANOUT = row /\ row \div FANOUT = two
  <2>1. Third = row * FANOUT + nil /\ row = two * FANOUT + nil
    BY <1>1
  <2>2. (row * FANOUT + nil) \div FANOUT = row
    <3> HIDE DEF row, nil
    <3>1. QED
      BY <1>0, <1>1, Quotient
  <2>3. (two * FANOUT + nil) \div FANOUT = two
    <3> HIDE DEF two, nil
    <3>1. QED
      BY <1>0, Quotient
  <2>4. QED
    BY <2>1, <2>2, <2>3
<1>3. ASSUME NEW q \in Nat
      PROVE  Third <= q <=> two <= (q \div FANOUT) \div FANOUT
  <2> DEFINE t == q \div FANOUT
  <2>1. t \in Nat /\ (q < row * FANOUT => t < row) /\ (row * FANOUT <= q => row <= t)
    <3> HIDE DEF row
    <3>1. QED
      BY <1>1, Quotients
  <2>2. /\ t \div FANOUT \in Nat
        /\ t < two * FANOUT => t \div FANOUT < two
        /\ two * FANOUT <= t => two <= t \div FANOUT
    <3> HIDE DEF t, two
    <3>1. QED
      BY <1>0, <2>1, Quotients
  <2> HIDE DEF t, two
  <2>3. QED
    BY <1>0, <1>1, <2>1, <2>2 DEF t
<1>4. QED
  BY <1>1, <1>2, <1>3

LEMMA ShapeInvMap ==
  ASSUME EntryInv, ShapeInv, stopped = "no", NEW n \in Sizes,
         NEW b, b = [at |-> Found(n), pages |-> n], FitsWindow(b), Found(n) # -1,
         present' = present \cup Missing(b), stopped' = stopped
  PROVE  ShapeInv'
<1>1. /\ b.at = Found(n) /\ b.at \in Nat /\ b.at \in BlockPages(b)
      /\ BlockPages(b) \subseteq 0..WindowPages - 1
      /\ \A q : q \in BlockPages(b) <=> q \in Nat /\ b.at <= q /\ q < b.at + b.pages
  BY BlockFacts
<1>2. <<2, 0>> \in present'
  <2>1. CASE present = {}
    <3>1. Mapped = {}
      BY <2>1 DEF Mapped
    <3>2. Regular
      BY <2>1, <3>1 DEF Regular
    <3>3. b.at = 0
      BY <1>1, <3>1, <3>2, FoundFree
    <3>4. 0 \div FANOUT = 0
      BY PageTableAssumption
    <3>5. <<2, (b.at \div FANOUT) \div FANOUT>> \in present \cup Missing(b)
      BY <1>1, AddedEntries
    <3>6. (b.at \div FANOUT) \div FANOUT = 0
      BY <3>3, <3>4
    <3>7. QED
      BY <3>5, <3>6
  <2>2. CASE present # {}
    BY <2>2 DEF ShapeInv
  <2>3. QED
    BY <2>1, <2>2
<1>3. ASSUME BelowThirdDirectory'
      PROVE  Regular
  BY <1>3, ShapeIsRegular DEF BelowThirdDirectory
<1>4. ASSUME BelowThirdDirectory', NEW d \in Nat, <<2, d>> \in present'
      PROVE  d < 2
  <2>1. CASE <<2, d>> \in present
    BY <1>3, <1>4, <2>1 DEF Regular
  <2>2. CASE <<2, d>> \in Missing(b)
    <3> SUFFICES ASSUME 2 <= d
                 PROVE  FALSE
      OBVIOUS
    <3>1. PICK q \in BlockPages(b) : d = (q \div FANOUT) \div FANOUT
      BY <2>2, AddedEntries
    <3>2. q \in Nat /\ Third <= q /\ q < b.at + b.pages /\ b.pages \in Nat
      BY <1>1, <3>1, ThirdFacts, BlockFacts
    <3>3. CASE b.at <= Third
      <4>1. Third \in BlockPages(b)
        BY <1>1, <3>2, <3>3, ThirdFacts
      <4>2. <<2, 2>> \in present \cup Missing(b)
        BY <4>1, AddedEntries, ThirdFacts
      <4>3. QED
        BY <1>4, <4>2 DEF BelowThirdDirectory
    <3>4. CASE Third < b.at
      <4> DEFINE m == b.at - 1
      <4>1. m \in Mapped /\ m \in Nat /\ Third <= m
        BY <1>1, <1>3, <1>4, <3>4, FoundFree, ThirdFacts
      <4> HIDE DEF m
      <4>2. 2 <= (m \div FANOUT) \div FANOUT /\ m \in 0..WindowPages - 1
            /\ Path(m) \subseteq present
        BY <4>1, ThirdFacts, PathPresent
      <4>3. <<2, (m \div FANOUT) \div FANOUT>> \in present
        BY <4>2, PathFacts
      <4>4. (m \div FANOUT) \div FANOUT \in Nat
        BY <4>1, Quotients
      <4>5. (m \div FANOUT) \div FANOUT < 2
        BY <1>3, <1>4, <4>3, <4>4 DEF Regular
      <4>6. QED
        BY <4>2, <4>4, <4>5
    <3>5. QED
      BY <1>1, <3>3, <3>4, ThirdFacts
  <2>3. QED
    BY <1>4, <2>1, <2>2
<1>5. ASSUME BelowThirdDirectory', NEW e \in present', e[1] = 1
      PROVE  e[2] * FANOUT \in Mapped'
  <2> DEFINE t == e[2]
  <2>0. present \subseteq Entries /\ Missing(b) \subseteq Entries
    BY MissingFacts DEF EntryInv, TypeOK, Entries
  <2>1. e = <<1, t>> /\ t \in Nat
    BY <1>5, <2>0 DEF Entries
  <2>2. Mapped' = Mapped \cup BlockPages(b)
    BY MappedAfterAlloc
  <2>3. CASE e \in present
    BY <1>3, <1>5, <2>1, <2>2, <2>3 DEF Regular
  <2>4. CASE e \in Missing(b)
    <3>1. PICK q \in BlockPages(b) : t = q \div FANOUT
      BY <2>1, <2>4, AddedEntries
    <3> DEFINE first == t * FANOUT
               r == q % FANOUT
    <3>2. q \in Nat /\ b.at <= q /\ q < b.at + b.pages /\ b.pages \in Nat
      BY <1>1, BlockFacts
    <3>3. q = first + r /\ r \in 0..FANOUT - 1 /\ first \in Nat
      <4>1. q = (q \div FANOUT) * FANOUT + r /\ r \in 0..FANOUT - 1
        BY <3>2, Division
      <4>2. first \in Nat
        <5> HIDE DEF t
        <5>1. QED
          BY <2>1, PageTableAssumption
      <4>3. QED
        BY <3>1, <4>1, <4>2
    <3> HIDE DEF first, r, t
    <3>4. CASE b.at <= first
      <4>1. first \in BlockPages(b)
        BY <1>1, <3>2, <3>3, <3>4
      <4>2. QED
        BY <2>2, <4>1 DEF first, t
    <3>5. CASE first < b.at
      <4> DEFINE m == b.at - 1
                 k == m - first
      <4>1. m \in Mapped /\ m \in Nat
        BY <1>1, <1>3, <1>5, <3>3, <3>5, FoundFree
      <4>2. k \in 0..FANOUT - 1 /\ m = first + k
        BY <1>1, <3>2, <3>3, <3>5, PageTableAssumption
      <4>3. m \div FANOUT = t
        <5> HIDE DEF m, k
        <5>1. (t * FANOUT + k) \div FANOUT = t
          BY <2>1, <4>2, Quotient
        <5>2. QED
          BY <4>2, <5>1 DEF first
      <4> HIDE DEF m
      <4>4. Path(m) \subseteq present /\ m \in 0..WindowPages - 1
        BY <4>1, PathPresent
      <4>5. <<1, t>> \in present
        BY <4>3, <4>4, PathFacts
      <4>6. QED
        BY <2>1, <2>4, <4>5, MissingFacts
    <3>6. QED
      BY <1>1, <3>3, <3>4, <3>5
  <2>5. QED
    BY <2>3, <2>4
<1>6. QED
  BY <1>2, <1>4, <1>5 DEF ShapeInv, TablesKeepFirstEntry

LEMMA ShapeInvFree ==
  ASSUME EntryInv, ShapeInv, stopped = "no", NEW b \in held, FreeVm(b)
  PROVE  ShapeInv'
<1>1. stopped' = "self lock"
  BY DEF FreeVm
<1>2. \A i : <<2, i>> \in present' <=> <<2, i>> \in present
  BY FreedEntries
<1>3. present' = {} \/ <<2, 0>> \in present'
  BY <1>2, FreedEntries DEF ShapeInv
<1>4. BelowThirdDirectory' => \A d \in Nat : <<2, d>> \in present' => d < 2
  BY <1>2 DEF ShapeInv, BelowThirdDirectory
<1>5. TablesKeepFirstEntry'
  BY <1>1 DEF TablesKeepFirstEntry
<1>6. QED
  BY <1>3, <1>4, <1>5 DEF ShapeInv

LEMMA ShapeInvStep == EntryInv /\ ShapeInv /\ [Next]_vars => ShapeInv'
<1> SUFFICES ASSUME EntryInv, ShapeInv, [Next]_vars
             PROVE  ShapeInv'
  OBVIOUS
<1>1. ASSUME stopped = "no", NEW n \in Sizes, AllocVm(n)
      PROVE  ShapeInv'
  <2> DEFINE b == [at |-> Found(n), pages |-> n]
  <2>1. CASE stopped' = "alloc fault" /\ UNCHANGED <<present, free, held>>
    BY <1>1, <2>1 DEF ShapeInv, TablesKeepFirstEntry, BelowThirdDirectory, Mapped
  <2>2. CASE stopped' = "no frames"
    BY <2>2 DEF ShapeInv, TablesKeepFirstEntry
  <2>3. CASE /\ FitsWindow(b) /\ Found(n) # -1
             /\ present' = present \cup Missing(b) /\ stopped' = stopped
    BY <1>1, <2>3, ShapeInvMap
  <2>4. QED
    BY <1>1, <2>1, <2>2, <2>3, AllocOutcome
<1>2. ASSUME stopped = "no", NEW b \in held, FreeVm(b)
      PROVE  ShapeInv'
  BY <1>2, ShapeInvFree
<1>3. CASE UNCHANGED vars
  BY <1>3 DEF vars, ShapeInv, TablesKeepFirstEntry, BelowThirdDirectory, Mapped
<1>4. QED
  BY <1>1, <1>2, <1>3 DEF Next

LEMMA ShapeInvInit == Init => ShapeInv
  BY DEF Init, ShapeInv, TablesKeepFirstEntry, Mapped

LEMMA ShapeInvariant == Spec => [](EntryInv /\ ShapeInv)
<1>1. EntryInv /\ ShapeInv /\ [Next]_vars => (EntryInv /\ ShapeInv)'
  BY EntryInvStep, ShapeInvStep
<1>2. QED
  BY <1>1, EntryInvInit, ShapeInvInit, PTL DEF Spec
-----------------------------------------------------------------------------
(* The turn of the entry of a page itself.                                 *)
LEMMA PageTurn ==
  ASSUME NEW b, FitsWindow(b), NEW q \in BlockPages(b)
  PROVE  Turn(b, <<0, q>>) = 4 * q + 3
<1>1. q \in Nat /\ <<0, q>> \in Path(q)
  BY BlockFacts DEF Path
<1>2. /\ FirstUse(b, <<0, q>>) \in BlockPages(b)
      /\ <<0, q>> \in Path(FirstUse(b, <<0, q>>))
  BY <1>1, FirstUseFacts
<1> DEFINE r == FirstUse(b, <<0, q>>)
<1>3. r \in 0..WindowPages - 1
  BY <1>2, BlockFacts
<1>4. r = q
  <2> HIDE DEF r
  <2>1. <<0, r>> \in Path(r)
    BY DEF Path
  <2>2. <<0, q>> \in Path(r)
    BY <1>2 DEF r
  <2>3. <<0, r>> = <<0, q>>
    BY <1>3, <2>1, <2>2, PathFacts
  <2>4. QED
    BY <2>3
<1>5. QED
  BY <1>1, <1>4 DEF Turn

(* map() gets through the pages of a block in their order.                 *)
LEMMA CreatedPrefix ==
  ASSUME EntryInv, NEW b, FitsWindow(b), NEW q \in BlockPages(b), NEW r \in BlockPages(b),
         r <= q, <<0, q>> \in Created(b)
  PROVE  <<0, r>> \in present \cup Created(b)
<1>1. <<0, r>> \in Path(r) /\ Path(r) \subseteq present \cup Missing(b)
  BY MissingFacts DEF Path
<1>2. r \in Nat /\ q \in Nat
  BY BlockFacts
<1>3. CASE r = q
  BY <1>3
<1>4. CASE <<0, r>> \in Missing(b) /\ r < q
  <2>1. Turn(b, <<0, r>>) < Turn(b, <<0, q>>)
    BY <1>2, <1>4, PageTurn
  <2>2. <<0, q>> \in Missing(b) /\ Cardinality(Before(b, <<0, q>>)) < free
    BY CreatedIs
  <2>3. /\ Cardinality(Before(b, <<0, r>>)) \in Nat /\ Cardinality(Before(b, <<0, q>>)) \in Nat
        /\ Cardinality(Before(b, <<0, r>>)) < Cardinality(Before(b, <<0, q>>))
    BY <1>4, <2>1, <2>2, BeforeGrows
  <2>4. free \in Nat
    <3>1. free \in 0..FrameCount
      BY DEF EntryInv, TypeOK
    <3>2. QED
      BY <3>1, PageTableAssumption
  <2>5. Cardinality(Before(b, <<0, r>>)) < free
    BY <2>2, <2>3, <2>4
  <2>6. QED
    BY <1>4, <2>5, CreatedIs
<1>5. QED
  BY <1>1, <1>2, <1>3, <1>4

(* The pages in use after map(), however far it got.                       *)
LEMMA MappedPartly ==
  ASSUME EntryInv, NEW b, FitsWindow(b), present' = present \cup Created(b)
  PROVE  /\ \A q : q \in Mapped' <=> q \in Mapped \/ <<0, q>> \in Created(b)
         /\ \A q : <<0, q>> \in Created(b) => q \in BlockPages(b)
<1>1. present \subseteq Entries /\ Missing(b) \subseteq Entries /\ Created(b) \subseteq Missing(b)
  BY MissingFacts, CreatedFacts DEF EntryInv, TypeOK, Entries
<1>2. present' \subseteq Entries
  BY <1>1
<1>3. \A q : q \in Mapped <=> <<0, q>> \in present
  BY <1>1, MappedIs DEF Mapped
<1>4. \A q : q \in Mapped' <=> <<0, q>> \in present'
  BY <1>2, MappedIs DEF Mapped
<1>5. QED
  BY <1>1, <1>3, <1>4, AddedEntries

Compact == \A q \in Mapped : 0..q \subseteq Mapped

LEMMA CompactAlloc ==
  ASSUME EntryInv, Regular, Compact, NEW n \in Sizes, Found(n) # -1,
         NEW b, b = [at |-> Found(n), pages |-> n], FitsWindow(b),
         present' = present \cup Created(b)
  PROVE  Compact'
<1>1. /\ b.at = Found(n) /\ b.at \in Nat
      /\ \A q : q \in BlockPages(b) <=> q \in Nat /\ b.at <= q /\ q < b.at + b.pages
  BY BlockFacts
<1>2. b.at = 0 \/ (b.at > 0 /\ b.at - 1 \in Mapped)
  BY <1>1, FoundFree
<1>3. \A r \in 0..b.at - 1 : r \in Mapped
  BY <1>1, <1>2 DEF Compact
<1>4. ASSUME NEW q \in Mapped', NEW r \in 0..q
      PROVE  r \in Mapped'
  <2>1. CASE q \in Mapped
    BY <1>4, <2>1, MappedPartly DEF Compact
  <2>2. CASE <<0, q>> \in Created(b)
    <3>1. q \in BlockPages(b)
      BY <2>2, MappedPartly
    <3>2. q \in Nat /\ q < b.at + b.pages /\ b.pages \in Nat /\ r \in Nat /\ r <= q
      BY <1>1, <1>4, <3>1, BlockFacts
    <3>3. CASE r < b.at
      <4>1. r \in 0..b.at - 1
        BY <1>1, <3>2, <3>3
      <4>2. QED
        BY <1>3, <4>1, MappedPartly
    <3>4. CASE b.at <= r
      <4>1. r \in BlockPages(b)
        BY <1>1, <3>2, <3>4
      <4>2. <<0, r>> \in present \cup Created(b)
        BY <2>2, <3>1, <3>2, <4>1, CreatedPrefix
      <4>3. <<0, r>> \in present => r \in Mapped
        BY PathPresent
      <4>4. QED
        BY <4>2, <4>3, MappedPartly
    <3>5. QED
      BY <1>1, <3>2, <3>3, <3>4
  <2>3. QED
    BY <1>4, <2>1, <2>2, MappedPartly
<1>5. QED
  BY <1>4 DEF Compact

LEMMA CompactIs ==
  ASSUME WindowCompact, BelowThirdDirectory, stopped # "self lock"
  PROVE  Compact
  BY DEF WindowCompact, Compact

LEMMA WindowCompactStep ==
  ASSUME EntryInv, ShapeInv, WindowCompact, [Next]_vars
  PROVE  WindowCompact'
<1>1. ASSUME stopped = "no", NEW n \in Sizes, AllocVm(n)
      PROVE  WindowCompact'
  <2> DEFINE b == [at |-> Found(n), pages |-> n]
  <2>1. CASE stopped' = "alloc fault" /\ UNCHANGED <<present, free, held>>
    BY <1>1, <2>1 DEF WindowCompact, BelowThirdDirectory, Mapped
  <2>2. CASE /\ FitsWindow(b) /\ Found(n) # -1 /\ present' = present \cup Created(b)
    <3> SUFFICES ASSUME BelowThirdDirectory'
                 PROVE  Compact'
      BY DEF WindowCompact, Compact
    <3>1. BelowThirdDirectory
      BY <2>2 DEF BelowThirdDirectory
    <3>2. Regular
      BY <1>1, <3>1, ShapeIsRegular
    <3>3. Compact
      BY <1>1, <3>1, CompactIs
    <3>4. QED
      BY <2>2, <3>2, <3>3, CompactAlloc
  <2>3. QED
    BY <1>1, <2>1, <2>2, AllocOutcome
<1>2. ASSUME stopped = "no", NEW b \in held, FreeVm(b)
      PROVE  WindowCompact'
  BY <1>2 DEF FreeVm, WindowCompact
<1>3. CASE UNCHANGED vars
  BY <1>3 DEF vars, WindowCompact, BelowThirdDirectory, Mapped
<1>4. QED
  BY <1>1, <1>2, <1>3 DEF Next

LEMMA CompactInvariant == Spec => [](EntryInv /\ ShapeInv /\ WindowCompact)
<1>1. Init => WindowCompact
  BY DEF Init, WindowCompact, Mapped
<1>2. EntryInv /\ ShapeInv /\ WindowCompact /\ [Next]_vars => WindowCompact'
  BY WindowCompactStep
<1>3. QED
  BY <1>1, <1>2, ShapeInvariant, PTL DEF Spec

(* Below 2 GB of heap, for tables of any size and any requests: alloc_vm   *)
(* leaves no free page behind what is in use, although its indices may     *)
(* stand one past a table or a directory and map() may run out of frames   *)
(* in a block (PageTable.cpp:6-29, 70-105).                                *)
THEOREM WindowAlwaysCompact == Spec => []WindowCompact
  BY CompactInvariant, PTL
-----------------------------------------------------------------------------
(* Why a search ends with a page fault.                                    *)
LEMMA FaultAtEnd ==
  ASSUME EntryInv, Regular, Compact, NEW n \in Sizes, InWindow(n), Found(n) = -1
  PROVE  \E q \in Mapped : (q + 1) % FANOUT = 0 /\ \A r \in Mapped : r <= q
<1> DEFINE start == <<0, 0, 0>>
           J == {p \in Positions : Standing(p, n)}
<1>1. n \in Nat /\ n > 0
  BY PageTableAssumption
<1>2. start \in J
  BY StartStands
<1>3. \A p \in J \ Stops(n) : Onward(n)[p] \in J
  BY StandingOn DEF Standing
<1>4. PICK p \in J \cap Stops(n) : Search(n)[start] = Ends(n)[p]
  <2> HIDE DEF J, start
  <2>1. J \subseteq Positions
    BY DEF J
  <2>2. QED
    BY <1>2, <1>3, <2>1, SearchWalks, SearchFollows, WalkStops
<1>5. p \in Positions /\ Standing(p, n) /\ Val(p) \in Nat
  BY <1>4, ValType
<1> DEFINE i == FirstHit(p, n)
<1>6. Hits(p, n) # {}
  <2>1. ASSUME Hits(p, n) = {}
        PROVE  FALSE
    <3>1. AddressOf(p) = -1
      BY <1>4, <1>5, <2>1 DEF Found, Ends
    <3>2. Probed(p, 0) = "null"
      BY <1>1, <2>1 DEF Hits
    <3>3. AddressOf(p) = Val(p)
      BY <1>5, <3>2, StandingProbe
    <3>4. QED
      BY <1>5, <3>1, <3>3
  <2>2. QED
    BY <2>1
<1>7. Probed(p, i) = "fault" /\ i \in 0..n - 1 /\ i \in Nat
  BY <1>1, <1>4, <1>6, FirstHitFacts DEF Stops
<1>8. Val(start) = 0
  BY PageTableAssumption DEF Val
<1>9. Val(p) + i < WindowPages
  <2> HIDE DEF i
  <2>1. CASE p = start
    <3>1. -1 + n < WindowPages
      BY DEF InWindow
    <3>2. QED
      BY <1>1, <1>7, <1>8, <2>1, <3>1, WindowSize
  <2>2. CASE Val(p) - 1 \in Mapped
    <3>1. (Val(p) - 1) + n < WindowPages
      BY <2>2 DEF InWindow
    <3>2. QED
      BY <1>1, <1>5, <1>7, <3>1, WindowSize
  <2>3. QED
    BY <1>5, <2>1, <2>2 DEF Standing
<1>10. i = 0 /\ Val(p) \notin Mapped /\ Val(p) % FANOUT = 0
  BY <1>5, <1>7, <1>9, StandingProbe
<1>11. p # start
  <2>1. ASSUME p = start
        PROVE  FALSE
    <3>1. start \in Nat \X (0..FANOUT - 1) \X (0..FANOUT - 1)
      BY PageTableAssumption
    <3>2. Probe(start[1], start[2], start[3]) # "fault"
      <4> HIDE DEF start
      <4>1. Val(start) < WindowPages
        BY <1>8, WindowSize
      <4>2. QED
        BY <3>1, <4>1, NormalProbe
    <3>3. Probed(p, 0) = Probe(start[1], start[2], start[3])
      <4> HIDE DEF start
      <4>1. QED
        BY <2>1 DEF Probed, At
    <3>4. QED
      BY <1>7, <1>10, <3>2, <3>3
  <2>2. QED
    BY <2>1
<1> DEFINE q == Val(p) - 1
<1>12. q \in Mapped /\ (q + 1) % FANOUT = 0
  <2>1. q + 1 = Val(p)
    BY <1>5
  <2>2. q \in Mapped
    BY <1>5, <1>11 DEF Standing
  <2> HIDE DEF q
  <2>3. QED
    BY <1>10, <2>1, <2>2
<1>13. ASSUME NEW r \in Mapped, q < r
       PROVE  FALSE
  <2>1. r \in Nat
    BY PathPresent
  <2>2. Val(p) \in 0..r
    BY <1>5, <1>13, <2>1
  <2>3. QED
    BY <1>10, <2>2 DEF Compact
<1>14. QED
  <2>1. \A r \in Mapped : r \in Int
    BY PathPresent
  <2>2. q \in Int
    BY <1>5
  <2> HIDE DEF q
  <2>3. QED
    BY <1>12, <1>13, <2>1, <2>2

LEMMA TableEndStep ==
  ASSUME EntryInv, ShapeInv, WindowCompact, FaultsOnlyAtTableEnd, [Next]_vars
  PROVE  FaultsOnlyAtTableEnd'
<1>1. ASSUME stopped = "no", NEW n \in Sizes, AllocVm(n)
      PROVE  FaultsOnlyAtTableEnd'
  <2> DEFINE b == [at |-> Found(n), pages |-> n]
  <2>1. CASE /\ Found(n) = -1 /\ UNCHANGED <<present, free, held>>
    <3> SUFFICES ASSUME BelowThirdDirectory'
                 PROVE  \E q \in Mapped' : (q + 1) % FANOUT = 0 /\ \A r \in Mapped' : r <= q
      BY DEF FaultsOnlyAtTableEnd
    <3>1. BelowThirdDirectory /\ Mapped' = Mapped
      BY <2>1 DEF BelowThirdDirectory, Mapped
    <3>2. Regular /\ Compact
      BY <1>1, <3>1, ShapeIsRegular, CompactIs
    <3>3. InWindow(n)
      BY <1>1 DEF AllocVm
    <3>4. QED
      BY <2>1, <3>1, <3>2, <3>3, FaultAtEnd
  <2>2. CASE stopped' = "no frames" \/ stopped' = stopped
    BY <1>1, <2>2 DEF FaultsOnlyAtTableEnd
  <2>3. QED
    BY <1>1, <2>1, <2>2, AllocOutcome
<1>2. ASSUME stopped = "no", NEW b \in held, FreeVm(b)
      PROVE  FaultsOnlyAtTableEnd'
  BY <1>2 DEF FreeVm, FaultsOnlyAtTableEnd
<1>3. CASE UNCHANGED vars
  BY <1>3 DEF vars, FaultsOnlyAtTableEnd, BelowThirdDirectory, Mapped
<1>4. QED
  BY <1>1, <1>2, <1>3 DEF Next

(* Below 2 GB of heap, for tables of any size and any requests: alloc_vm   *)
(* reads a missing table only when the pages in use end at the end of a    *)
(* page table, where x stands at 512 without a carry (PageTable.cpp:70-94).*)
THEOREM OnlyTableEndFaults == Spec => []FaultsOnlyAtTableEnd
<1>1. Init => FaultsOnlyAtTableEnd
  BY DEF Init, FaultsOnlyAtTableEnd
<1>2. EntryInv /\ ShapeInv /\ WindowCompact /\ FaultsOnlyAtTableEnd /\ [Next]_vars
        => FaultsOnlyAtTableEnd'
  BY TableEndStep
<1>3. QED
  BY <1>1, <1>2, CompactInvariant, PTL DEF Spec
-----------------------------------------------------------------------------
Apart(S) == \A b, c \in S : b # c => BlockPages(b) \cap BlockPages(c) = {}

(* A block that is mapped where nothing was, next to those handed out.     *)
LEMMA HeldGrows ==
  ASSUME Mapped = HeldPages, Apart(held), NEW b, BlockPages(b) \cap Mapped = {},
         held' = held \cup {b}, Mapped' = Mapped \cup BlockPages(b)
  PROVE  Mapped' = HeldPages' /\ Apart(held')
<1>1. HeldPages' = HeldPages \cup BlockPages(b)
  BY DEF HeldPages, BlockPages
<1>2. \A c \in held : BlockPages(c) \subseteq Mapped
  BY DEF HeldPages
<1>3. ASSUME NEW c \in held', NEW d \in held', c # d
      PROVE  BlockPages(c) \cap BlockPages(d) = {}
  <2>1. CASE c \in held /\ d \in held
    BY <1>3, <2>1 DEF Apart
  <2>2. CASE c \in held /\ d = b
    BY <1>2, <2>2
  <2>3. CASE c = b /\ d \in held
    BY <1>2, <2>3
  <2>4. QED
    BY <1>3, <2>1, <2>2, <2>3
<1>4. QED
  BY <1>1, <1>3 DEF Apart

LEMMA MappedIsHeldStep ==
  ASSUME EntryInv, ShapeInv, MappedIsHeld, [Next]_vars
  PROVE  MappedIsHeld'
<1>0. MappedIsHeld <=>
        (BelowThirdDirectory =>
           /\ stopped \in {"no", "alloc fault"} => Mapped = HeldPages
           /\ stopped = "no frames" => HeldPages \subseteq Mapped
           /\ stopped = "self lock" => \E b \in held : Mapped = HeldPages \ {b.at}
           /\ Apart(held))
  BY DEF MappedIsHeld, Apart
<1>1. ASSUME stopped = "no", NEW n \in Sizes, AllocVm(n)
      PROVE  MappedIsHeld'
  <2> DEFINE b == [at |-> Found(n), pages |-> n]
  <2>1. CASE stopped' = "alloc fault" /\ UNCHANGED <<present, free, held>>
    BY <1>1, <2>1 DEF MappedIsHeld, BelowThirdDirectory, Mapped, HeldPages, BlockPages
  <2> SUFFICES ASSUME FitsWindow(b), Found(n) # -1, present' = present \cup Created(b),
                      \/ stopped' = "no frames" /\ held' = held
                      \/ /\ Created(b) = Missing(b)
                         /\ held' = held \cup {b} /\ stopped' = stopped,
                      BelowThirdDirectory'
               PROVE  MappedIsHeld'
    BY <1>1, <2>1, AllocOutcome DEF MappedIsHeld
  <2>2. BelowThirdDirectory
    BY DEF BelowThirdDirectory
  <2>3. Mapped = HeldPages /\ Apart(held)
    BY <1>0, <1>1, <2>2
  <2>4. CASE stopped' = "no frames" /\ held' = held
    <3>1. HeldPages' = HeldPages
      BY <2>4 DEF HeldPages, BlockPages
    <3>2. HeldPages \subseteq Mapped'
      BY <2>3, MappedPartly
    <3>3. QED
      BY <2>3, <2>4, <3>1, <3>2 DEF MappedIsHeld, Apart, BlockPages
  <2>5. CASE /\ Created(b) = Missing(b)
             /\ held' = held \cup {b} /\ stopped' = stopped
    <3>1. Mapped' = Mapped \cup BlockPages(b)
      BY <2>5, MappedAfterAlloc
    <3>2. BlockPages(b) \cap Mapped = {}
      <4>1. Mapped \cap Found(n)..Found(n) + n - 1 = {}
        BY <1>1, <2>2, ShapeIsRegular, FoundFree
      <4>2. BlockPages(b) = Found(n)..Found(n) + n - 1
        BY DEF BlockPages
      <4>3. QED
        BY <4>1, <4>2
    <3> HIDE DEF b
    <3>3. Mapped' = HeldPages' /\ Apart(held')
      BY <2>3, <2>5, <3>1, <3>2, HeldGrows
    <3>4. stopped' = "no"
      BY <1>1, <2>5
    <3>5. QED
      BY <3>3, <3>4 DEF MappedIsHeld, Apart, BlockPages
  <2>6. QED
    BY <2>4, <2>5
<1>2. ASSUME stopped = "no", NEW b \in held, FreeVm(b)
      PROVE  MappedIsHeld'
  <2> SUFFICES ASSUME BelowThirdDirectory'
               PROVE  MappedIsHeld'
    BY DEF MappedIsHeld
  <2>1. BelowThirdDirectory
    BY <1>2, FreedEntries DEF BelowThirdDirectory
  <2>2. Mapped = HeldPages /\ Apart(held)
    BY <1>0, <1>2, <2>1
  <2>3. stopped' = "self lock" /\ held' = held /\ HeldPages' = HeldPages
    BY <1>2 DEF FreeVm, HeldPages, BlockPages
  <2>4. Mapped' = HeldPages \ {b.at}
    BY <1>2, <2>2, FreedEntries
  <2>5. QED
    BY <1>2, <2>2, <2>3, <2>4 DEF MappedIsHeld, Apart, BlockPages
<1>3. CASE UNCHANGED vars
  BY <1>3 DEF vars, MappedIsHeld, BelowThirdDirectory, Mapped, HeldPages, BlockPages
<1>4. QED
  BY <1>1, <1>2, <1>3 DEF Next

(* Below 2 GB of heap, for tables of any size, any number of frames and    *)
(* any requests: the pages that are mapped are those of the blocks handed  *)
(* out, no two blocks share one, and a map() or an unmap() that does not   *)
(* return has touched no other block (PageTable.cpp:70-120).               *)
THEOREM MappedAlwaysHeld == Spec => []MappedIsHeld
<1>1. Init => MappedIsHeld
  BY DEF Init, MappedIsHeld, Mapped, HeldPages
<1>2. EntryInv /\ ShapeInv /\ MappedIsHeld /\ [Next]_vars => MappedIsHeld'
  BY MappedIsHeldStep
<1>3. QED
  BY <1>1, <1>2, ShapeInvariant, PTL DEF Spec
=============================================================================
