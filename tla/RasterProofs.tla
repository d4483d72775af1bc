---------------------------- MODULE RasterProofs ----------------------------
(***************************************************************************)
(* Proofs about what one command does to the pixels, for all colours,      *)
(* coordinates and sizes: blending stays within a byte per channel, lines  *)
(* are straight, outlines are rings, circles are closed and round, and     *)
(* what is to be blended evenly is written once.                           *)
(***************************************************************************)
EXTENDS Raster, FiniteSetsExt, FiniteSetTheorems, SequenceTheorems, TLAPS

-----------------------------------------------------------------------------
(* Induction.  The library's induction theorem takes an operator, which    *)
(* the provers cannot instantiate; the least element of a set does as      *)
(* well, for the set of the numbers of which the claim would be false.     *)

(* Every set of naturals has a least element.                              *)
LEMMA LeastNumber ==
  ASSUME NEW T \in SUBSET Nat, T # {}
  PROVE  \E m \in T : \A k \in T : m <= k
<1> DEFINE R == StrictSubsetOrdering(Nat)
           F == FiniteSubsetsOf(Nat)
           U == {0 .. n - 1 : n \in T}
<1>1. IsWellFoundedOn(R, F)
  BY FS_StrictSubsetOrderingWellFounded
<1>2. ASSUME NEW n \in T PROVE 0 .. n - 1 \in F
  <2>1. IsFiniteSet(0 .. n - 1)
    BY FS_Interval
  <2> QED BY <2>1 DEF FiniteSubsetsOf
<1>3. U \subseteq F /\ U # {}
  BY <1>2
<1>4. PICK u \in U : \A v \in U : ~(<<v, u>> \in R)
  <2> HIDE DEF R, F, U
  <2> QED BY <1>1, <1>3, WFMin
<1>5. PICK m \in T : u = 0 .. m - 1
  BY <1>4
<1>6. ASSUME NEW k \in T, k < m PROVE FALSE
  <2>1. 0 .. k - 1 \in U
    OBVIOUS
  <2>2. 0 .. k - 1 \subseteq 0 .. m - 1 /\ 0 .. k - 1 # 0 .. m - 1
    <3>1. k \in 0 .. m - 1 /\ k \notin 0 .. k - 1
      BY <1>6
    <3> QED BY <1>6, <3>1
  <2>3. <<0 .. k - 1, 0 .. m - 1>> \in R
    BY <2>2 DEF StrictSubsetOrdering
  <2> QED BY <1>4, <1>5, <2>1, <2>3
<1> QED BY <1>6

(* Induction over an interval: G is the set of the k of which the claim    *)
(* holds.                                                                  *)
LEMMA IntervalInduction ==
  ASSUME NEW m \in Int, NEW n \in Int, NEW G, m \in G,
         \A k \in m .. n : k > m /\ k - 1 \in G => k \in G
  PROVE  \A k \in m .. n : k \in G
<1> DEFINE T == {j \in Nat : m + j <= n /\ m + j \notin G}
<1>1. T = {}
  <2> SUFFICES ASSUME T # {} PROVE FALSE
    OBVIOUS
  <2>1. T \in SUBSET Nat
    OBVIOUS
  <2>2. PICK j \in T : \A i \in T : j <= i
    <3> HIDE DEF T
    <3> QED BY <2>1, LeastNumber
  <2>3. j # 0
    OBVIOUS
  <2>4. j - 1 \in Nat /\ m + (j - 1) <= n /\ j - 1 \notin T
    BY <2>2, <2>3
  <2>5. m + (j - 1) \in G /\ m + j \in m .. n /\ m + j > m /\ (m + j) - 1 = m + (j - 1)
    BY <2>3, <2>4
  <2> QED BY <2>5
<1>2. ASSUME NEW k \in m .. n PROVE k \in G
  <2>1. k - m \in Nat /\ m + (k - m) = k /\ k <= n
    OBVIOUS
  <2>2. k - m \notin T
    BY <1>1
  <2> QED BY <2>1, <2>2
<1> QED BY <1>2

(* The states v[0], v[1], ..., v[n] of a loop of n turns that begins with  *)
(* a; turn k makes v[k] from v[k - 1] with F.                              *)
IsRun(v, S, a, n, F) == /\ v \in [0 .. n -> S] /\ v[0] = a
                        /\ \A k \in 1 .. n : v[k] = F[<<k, v[k - 1]>>]

(* If F does not leave S, the loop runs, within S.                         *)
LEMMA LoopRuns ==
  ASSUME NEW S, NEW a \in S, NEW n \in Nat, NEW F \in [Nat \X S -> S]
  PROVE  \E v : IsRun(v, S, a, n, F)
<1> DEFINE Runs(j, v) == /\ v \in [0 .. j -> S] /\ v[0] = a
                         /\ \A k \in 1 .. j : v[k] = F[<<k, v[k - 1]>>]
           T == {j \in 0 .. n : ~ \E v : Runs(j, v)}
<1>1. T = {}
  <2> SUFFICES ASSUME T # {} PROVE FALSE
    OBVIOUS
  <2>1. T \in SUBSET Nat
    OBVIOUS
  <2>2. PICK j \in T : \A i \in T : j <= i
    <3> HIDE DEF T
    <3> QED BY <2>1, LeastNumber
  <2>3. j \in 0 .. n /\ ~ \E v : Runs(j, v)
    OBVIOUS
  <2>4. CASE j = 0
    <3> DEFINE v == [k \in 0 .. 0 |-> a]
    <3>1. Runs(0, v)
      OBVIOUS
    <3> QED BY <2>3, <2>4, <3>1
  <2>5. CASE j # 0
    <3>1. j - 1 \in 0 .. n /\ ~(j <= j - 1)
      BY <2>3, <2>5
    <3>2. PICK v : Runs(j - 1, v)
      BY <2>2, <3>1
    <3> DEFINE w == [k \in 0 .. j |-> IF k = j THEN F[<<j, v[j - 1]>>] ELSE v[k]]
    <3>3. v \in [0 .. j - 1 -> S] /\ F[<<j, v[j - 1]>>] \in S
      BY <2>3, <3>1, <3>2
    <3>4. w \in [0 .. j -> S] /\ w[0] = a
      BY <2>3, <2>5, <3>2, <3>3
    <3>5. ASSUME NEW k \in 1 .. j PROVE w[k] = F[<<k, w[k - 1]>>]
      <4>1. CASE k = j
        BY <2>3, <4>1
      <4>2. CASE k # j
        <5>1. k \in 1 .. j - 1 /\ k \in 0 .. j /\ k - 1 \in 0 .. j /\ k - 1 # j
          BY <2>3, <4>2
        <5>2. w[k] = v[k] /\ w[k - 1] = v[k - 1]
          BY <4>2, <5>1
        <5> QED BY <3>2, <5>1, <5>2
      <4> QED BY <4>1, <4>2
    <3> HIDE DEF w
    <3>6. Runs(j, w)
      BY <3>4, <3>5
    <3> QED BY <2>3, <3>6
  <2> QED BY <2>4, <2>5
<1>2. PICK v : Runs(n, v)
  <2>1. n \notin T
    <3> HIDE DEF T
    <3> QED BY <1>1
  <2>2. n \in 0 .. n
    OBVIOUS
  <2> HIDE DEF Runs
  <2> QED BY <2>1, <2>2
<1> QED BY <1>2 DEF IsRun

-----------------------------------------------------------------------------
(* Colours.                                                                *)

(* A product of two bytes is at most 255 times the first.                  *)
LEMMA ProductBound ==
  ASSUME NEW x \in Byte, NEW y \in Byte
  PROVE  x * y \in Nat /\ x * y <= x * 255
BY SMTT(30) DEF Byte

(* Division of a number up to 255 * 255 by 255 gives a byte.               *)
LEMMA QuotientIsByte ==
  ASSUME NEW n \in Nat, n <= 255 * 255 PROVE n \div 255 \in Byte
BY SMTT(30) DEF Byte

(* A channel of blend_over() is a weighted mean of two bytes.               *)
LEMMA MixIsByte ==
  ASSUME NEW s \in Byte, NEW d \in Byte, NEW sa \in Byte PROVE Mix(s, d, sa) \in Byte
<1>1. 255 - sa \in Byte
  BY DEF Byte
<1>2. sa * s \in Nat /\ sa * s <= sa * 255
  BY ProductBound
<1>3. (255 - sa) * d \in Nat /\ (255 - sa) * d <= (255 - sa) * 255
  BY <1>1, ProductBound
<1>4. s * sa = sa * s /\ d * (255 - sa) = (255 - sa) * d
  BY SMTT(30) DEF Byte
<1>5. s * sa + d * (255 - sa) \in Nat /\ s * sa + d * (255 - sa) <= 255 * 255
  BY <1>2, <1>3, <1>4 DEF Byte
<1> QED BY <1>5, QuotientIsByte DEF Mix

(* The alpha of a blended pixel: no overflow, and what was opaque stays    *)
(* opaque, although the division truncates.                                *)
LEMMA AlphaIsByte ==
  ASSUME NEW sa \in Byte, NEW da \in Byte
  PROVE  /\ sa + (da * (255 - sa)) \div 255 \in Byte
         /\ da = 255 => sa + (da * (255 - sa)) \div 255 = 255
<1>1. (255 - sa) * da \in Nat /\ (255 - sa) * da <= (255 - sa) * 255
  BY ProductBound DEF Byte
<1>2. da * (255 - sa) = (255 - sa) * da
  BY SMTT(30) DEF Byte
<1>3. \A n \in Nat : n <= (255 - sa) * 255 => n \div 255 \in 0 .. 255 - sa
  BY SMTT(30) DEF Byte
<1>4. da = 255 => (da * (255 - sa)) \div 255 = 255 - sa
  BY SMTT(30) DEF Byte
<1> QED BY <1>1, <1>2, <1>3, <1>4 DEF Byte

(* Writing a colour over a pixel gives a colour: the casts of blend_over() *)
(* cut nothing off.                                                        *)
THEOREM OverIsColor ==
  ASSUME NEW d \in Colors, NEW s \in Colors PROVE Over(d, s) \in Colors
<1>1. /\ Mix(s.r, d.r, s.a) \in Byte /\ Mix(s.g, d.g, s.a) \in Byte
      /\ Mix(s.b, d.b, s.a) \in Byte
  BY MixIsByte DEF Colors
<1>2. s.a + (d.a * (255 - s.a)) \div 255 \in Byte
  BY AlphaIsByte DEF Colors
<1> QED BY <1>1, <1>2 DEF Over, Colors

(* Whatever is written over an opaque pixel, it stays opaque.              *)
THEOREM OpaqueStaysOpaque ==
  ASSUME NEW d \in Colors, NEW s \in Colors, d.a = 255 PROVE Over(d, s).a = 255
BY AlphaIsByte DEF Over, Colors

(* A tinted sprite pixel is a colour.                                      *)
THEOREM ModulateIsColor ==
  ASSUME NEW s \in Colors, NEW tint \in Colors PROVE Modulate(s, tint) \in Colors
<1>1. \A x, y \in Byte : (x * y) \div 255 \in Byte
  <2> SUFFICES ASSUME NEW x \in Byte, NEW y \in Byte PROVE (x * y) \div 255 \in Byte
    OBVIOUS
  <2>1. x * y \in Nat /\ x * y <= 255 * 255
    BY ProductBound DEF Byte
  <2> QED BY <2>1, QuotientIsByte
<1> QED BY <1>1 DEF Modulate, Colors

-----------------------------------------------------------------------------
(* A pixel after a command.                                                *)

Opaque(d) == d.a = 255

(* The loop that writes a colour over a pixel several times gives a pixel, *)
(* and an opaque one if the pixel was opaque.                              *)
LEMMA WritesRun ==
  ASSUME NEW d \in Colors, NEW s \in Colors, NEW times \in Nat
  PROVE  /\ OverTimes(d, s, times) \in Colors
         /\ Opaque(d) => Opaque(OverTimes(d, s, times))
<1> DEFINE after[k \in 0 .. times] == IF k = 0 THEN d ELSE Over(after[k - 1], s)
           C == {x \in Colors : d.a = 255 => x.a = 255}
           F == [t \in Nat \X C |-> Over(t[2], s)]
<1>1. F \in [Nat \X C -> C]
  <2> SUFFICES ASSUME NEW x \in C PROVE Over(x, s) \in C
    OBVIOUS
  <2> QED BY OverIsColor, OpaqueStaysOpaque
<1>2. d \in C
  OBVIOUS
<1>3. PICK v : IsRun(v, C, d, times, F)
  <2> HIDE DEF C, F, after
  <2> QED BY <1>1, <1>2, LoopRuns
<1>4. v = [k \in 0 .. times |-> IF k = 0 THEN d ELSE Over(v[k - 1], s)]
  <2>1. ASSUME NEW k \in 0 .. times, k # 0
        PROVE  v[k] = Over(v[k - 1], s)
    <3>1. k - 1 \in 0 .. times /\ k \in 1 .. times
      BY <2>1
    <3>2. v[k - 1] \in C
      BY <1>3, <3>1 DEF IsRun
    <3>3. F[<<k, v[k - 1]>>] = Over(v[k - 1], s)
      BY <3>1, <3>2
    <3> HIDE DEF F, C
    <3> QED BY <1>3, <3>1, <3>3 DEF IsRun
  <2> HIDE DEF F, C
  <2> QED BY <1>3, <2>1 DEF IsRun
<1>5. after = [k \in 0 .. times |-> IF k = 0 THEN d ELSE Over(after[k - 1], s)]
  BY <1>4
<1> HIDE DEF after
<1> DEFINE G == {k \in 0 .. times : after[k] \in C}
<1>6. \A k \in 0 .. times : k \in G
  <2>1. 0 \in G
    BY <1>2, <1>5
  <2>2. ASSUME NEW k \in 0 .. times, k > 0, k - 1 \in G PROVE k \in G
    <3>1. after[k] = Over(after[k - 1], s) /\ after[k - 1] \in C
      BY <1>5, <2>2
    <3> DEFINE x == after[k - 1]
    <3>2. x \in Colors /\ (d.a = 255 => x.a = 255)
      BY <3>1
    <3> HIDE DEF x
    <3>3. Over(x, s) \in C
      BY <3>2, OverIsColor, OpaqueStaysOpaque
    <3> QED BY <2>2, <3>1, <3>3 DEF x
  <2>3. 0 \in Int /\ times \in Int
    OBVIOUS
  <2> HIDE DEF G
  <2> QED BY <2>1, <2>2, <2>3, IntervalInduction
<1>7. after[times] \in C
  BY <1>6
<1> QED BY <1>7 DEF after, OverTimes, Opaque

-----------------------------------------------------------------------------
(* Lines.  After i steps along x and j along y the loop of raster_line()   *)
(* is off the ideal line by Offset, in units of 1 / longer axis, and err   *)
(* is that and a constant.                                                 *)
DX(c) == AbsVal(c.x1 - c.x0)
DY(c) == AbsVal(c.y1 - c.y0)
SX(c) == IF c.x0 < c.x1 THEN 1 ELSE -1
SY(c) == IF c.y0 < c.y1 THEN 1 ELSE -1
Offset(c, i, j) == j * DX(c) - i * DY(c)
At(c, i, j) == [x |-> c.x0 + SX(c) * i, y |-> c.y0 + SY(c) * j,
                err |-> Offset(c, i, j) + DX(c) - DY(c)]

IsLine(c) == c.x0 \in Int /\ c.y0 \in Int /\ c.x1 \in Int /\ c.y1 \in Int

(* The steps DX and DY that raster_line() takes lead from one end point to  *)
(* the other.                                                               *)
LEMMA LineConstants ==
  ASSUME NEW c, IsLine(c)
  PROVE  /\ DX(c) \in Nat /\ DY(c) \in Nat
         /\ SX(c) \in {1, -1} /\ SY(c) \in {1, -1}
         /\ c.x1 = c.x0 + SX(c) * DX(c) /\ c.y1 = c.y0 + SY(c) * DY(c)
         /\ LineTurns(c) = DX(c) + DY(c)
BY DEF IsLine, DX, DY, SX, SY, AbsVal, LineTurns

(* A step along an axis moves the offset from the ideal line by the length  *)
(* of the other axis.                                                       *)
LEMMA OffsetSteps ==
  ASSUME NEW c, IsLine(c), NEW i \in Nat, NEW j \in Nat
  PROVE  /\ Offset(c, i, j) \in Int
         /\ Offset(c, i + 1, j) = Offset(c, i, j) - DY(c)
         /\ Offset(c, i, j + 1) = Offset(c, i, j) + DX(c)
         /\ Offset(c, i + 1, j + 1) = Offset(c, i, j) + DX(c) - DY(c)
<1> DEFINE a == DX(c)
           b == DY(c)
<1>1. a \in Nat /\ b \in Nat
  BY LineConstants
<1>2. /\ Offset(c, i, j) = j * a - i * b /\ Offset(c, i + 1, j) = j * a - (i + 1) * b
      /\ Offset(c, i, j + 1) = (j + 1) * a - i * b
      /\ Offset(c, i + 1, j + 1) = (j + 1) * a - (i + 1) * b
  BY DEF Offset
<1> HIDE DEF a, b
<1>3. j * a \in Int /\ i * b \in Int /\ (i + 1) * b = i * b + b /\ (j + 1) * a = j * a + a
  BY <1>1
<1>4. /\ Offset(c, i, j) \in Int /\ Offset(c, i + 1, j) = Offset(c, i, j) - b
      /\ Offset(c, i, j + 1) = Offset(c, i, j) + a
      /\ Offset(c, i + 1, j + 1) = Offset(c, i, j) + a - b
  <2> DEFINE p == j * a
             q == i * b
  <2>1. p \in Int /\ q \in Int
    BY <1>3
  <2>2. /\ Offset(c, i, j) = p - q /\ Offset(c, i + 1, j) = p - (q + b)
        /\ Offset(c, i, j + 1) = (p + a) - q /\ Offset(c, i + 1, j + 1) = (p + a) - (q + b)
    BY <1>2, <1>3
  <2> HIDE DEF p, q
  <2> QED BY <1>1, <2>1, <2>2
<1> QED BY <1>4 DEF a, b

(* One turn, from i and j steps.                                           *)
LEMMA LineStepFrom ==
  ASSUME NEW c, IsLine(c), NEW i \in Nat, NEW j \in Nat
  PROVE  LET o == Offset(c, i, j)
             right == 2 * o + 2 * DX(c) >= DY(c)
             down == 2 * o + DX(c) <= 2 * DY(c)
         IN  LineStep(c, At(c, i, j)) =
               At(c, IF right THEN i + 1 ELSE i, IF down THEN j + 1 ELSE j)
<1> DEFINE o == Offset(c, i, j)
           a == DX(c)
           b == DY(c)
           s == At(c, i, j)
           right == 2 * o + 2 * a >= b
           down == 2 * o + a <= 2 * b
           i1 == IF right THEN i + 1 ELSE i
           j1 == IF down THEN j + 1 ELSE j
<1>1. o \in Int /\ a \in Nat /\ b \in Nat /\ SX(c) \in {1, -1} /\ SY(c) \in {1, -1}
  BY OffsetSteps, LineConstants
<1>2. s.x = c.x0 + SX(c) * i /\ s.y = c.y0 + SY(c) * j /\ s.err = o + a - b
  BY DEF At
<1>3. c.x0 \in Int /\ c.y0 \in Int
  BY DEF IsLine
<1>4. LineStep(c, s) =
        [x |-> IF 2 * s.err >= -b THEN s.x + SX(c) ELSE s.x,
         y |-> IF 2 * s.err <= a THEN s.y + SY(c) ELSE s.y,
         err |-> s.err + (IF 2 * s.err >= -b THEN -b ELSE 0) + (IF 2 * s.err <= a THEN a ELSE 0)]
  BY DEF LineStep, DX, DY, SX, SY
<1>5. At(c, i1, j1) = [x |-> c.x0 + SX(c) * i1, y |-> c.y0 + SY(c) * j1,
                       err |-> Offset(c, i1, j1) + a - b]
  BY DEF At
<1>6. Offset(c, i1, j1) = o + (IF right THEN -b ELSE 0) + (IF down THEN a ELSE 0)
  <2>1. /\ Offset(c, i, j) = o /\ Offset(c, i + 1, j) = o - b
        /\ Offset(c, i, j + 1) = o + a /\ Offset(c, i + 1, j + 1) = o + a - b
    BY OffsetSteps
  <2> HIDE DEF o, a, b
  <2>2. CASE right
    <3>1. CASE down
      <4>1. i1 = i + 1 /\ j1 = j + 1
        BY <2>2, <3>1
      <4> HIDE DEF i1, j1
      <4> QED BY <1>1, <2>1, <2>2, <3>1, <4>1
    <3>2. CASE ~down
      <4>1. i1 = i + 1 /\ j1 = j
        BY <2>2, <3>2
      <4> HIDE DEF i1, j1
      <4> QED BY <1>1, <2>1, <2>2, <3>2, <4>1
    <3> QED BY <3>1, <3>2
  <2>3. CASE ~right
    <3>1. CASE down
      <4>1. i1 = i /\ j1 = j + 1
        BY <2>3, <3>1
      <4> HIDE DEF i1, j1
      <4> QED BY <1>1, <2>1, <2>3, <3>1, <4>1
    <3>2. CASE ~down
      <4>1. i1 = i /\ j1 = j
        BY <2>3, <3>2
      <4> HIDE DEF i1, j1
      <4> QED BY <1>1, <2>1, <2>3, <3>2, <4>1
    <3> QED BY <3>1, <3>2
  <2> QED BY <2>2, <2>3
<1> HIDE DEF s, o, a, b
<1>7. (2 * s.err >= -b <=> right) /\ (2 * s.err <= a <=> down)
  BY <1>1, <1>2
<1>8. SX(c) * (i + 1) = SX(c) * i + SX(c) /\ SY(c) * (j + 1) = SY(c) * j + SY(c)
      /\ SX(c) * i \in Int /\ SY(c) * j \in Int
  BY <1>1
<1>9. /\ (IF 2 * s.err >= -b THEN s.x + SX(c) ELSE s.x) = c.x0 + SX(c) * i1
      /\ (IF 2 * s.err <= a THEN s.y + SY(c) ELSE s.y) = c.y0 + SY(c) * j1
  <2> DEFINE u == SX(c) * i
             v == SY(c) * j
  <2>1. u \in Int /\ v \in Int /\ SX(c) \in Int /\ SY(c) \in Int
    BY <1>1, <1>8
  <2>2. /\ SX(c) * i1 = IF right THEN u + SX(c) ELSE u
        /\ SY(c) * j1 = IF down THEN v + SY(c) ELSE v
    BY <1>8
  <2>3. s.x = c.x0 + u /\ s.y = c.y0 + v
    BY <1>2
  <2> HIDE DEF u, v, right, down, i1, j1
  <2> QED BY <1>3, <1>7, <2>1, <2>2, <2>3
<1>10. s.err + (IF 2 * s.err >= -b THEN -b ELSE 0) + (IF 2 * s.err <= a THEN a ELSE 0)
       = Offset(c, i1, j1) + a - b
  <2> HIDE DEF right, down, i1, j1
  <2> QED BY <1>1, <1>2, <1>6, <1>7
<1>11. LineStep(c, s) = At(c, i1, j1)
  BY <1>4, <1>5, <1>9, <1>10
<1> QED BY <1>11 DEF s, o, a, b

(* A line that is wider than it is high takes a step along x in every      *)
(* turn, and stays within half a pixel of the ideal line.                  *)
LEMMA WideStep ==
  ASSUME NEW c, IsLine(c), NEW i \in Nat, NEW j \in Nat, DX(c) >= DY(c),
         -DX(c) <= 2 * Offset(c, i, j), 2 * Offset(c, i, j) <= DX(c)
  PROVE  \E j1 \in Nat : /\ LineStep(c, At(c, i, j)) = At(c, i + 1, j1)
                         /\ -DX(c) <= 2 * Offset(c, i + 1, j1)
                         /\ 2 * Offset(c, i + 1, j1) <= DX(c)
<1> DEFINE o == Offset(c, i, j)
           a == DX(c)
           b == DY(c)
<1>1. /\ o \in Int /\ a \in Nat /\ b \in Nat
      /\ Offset(c, i + 1, j) = o - b /\ Offset(c, i + 1, j + 1) = o + a - b
  BY OffsetSteps, LineConstants
<1>2. LineStep(c, At(c, i, j)) = At(c, IF 2 * o + 2 * a >= b THEN i + 1 ELSE i,
                                       IF 2 * o + a <= 2 * b THEN j + 1 ELSE j)
  BY LineStepFrom
<1>3. a >= b /\ -a <= 2 * o /\ 2 * o <= a
  OBVIOUS
<1> HIDE DEF o, a, b
<1>4. 2 * o + 2 * a >= b
  BY <1>1, <1>3
<1>5. CASE 2 * o + a <= 2 * b
  <2>1. LineStep(c, At(c, i, j)) = At(c, i + 1, j + 1)
    BY <1>2, <1>4, <1>5
  <2>2. -a <= 2 * (o + a - b) /\ 2 * (o + a - b) <= a
    BY <1>1, <1>3, <1>5
  <2>3. j + 1 \in Nat
    OBVIOUS
  <2> QED BY <1>1, <2>1, <2>2, <2>3 DEF a
<1>6. CASE ~(2 * o + a <= 2 * b)
  <2>1. LineStep(c, At(c, i, j)) = At(c, i + 1, j)
    BY <1>2, <1>4, <1>6
  <2>2. -a <= 2 * (o - b) /\ 2 * (o - b) <= a
    BY <1>1, <1>3, <1>6
  <2> QED BY <1>1, <2>1, <2>2 DEF a
<1> QED BY <1>5, <1>6

(* The same for a line that is higher than it is wide.                     *)
LEMMA HighStep ==
  ASSUME NEW c, IsLine(c), NEW i \in Nat, NEW j \in Nat, DX(c) < DY(c),
         -DY(c) <= 2 * Offset(c, i, j), 2 * Offset(c, i, j) <= DY(c)
  PROVE  \E i1 \in Nat : /\ LineStep(c, At(c, i, j)) = At(c, i1, j + 1)
                         /\ -DY(c) <= 2 * Offset(c, i1, j + 1)
                         /\ 2 * Offset(c, i1, j + 1) <= DY(c)
<1> DEFINE o == Offset(c, i, j)
           a == DX(c)
           b == DY(c)
<1>1. /\ o \in Int /\ a \in Nat /\ b \in Nat
      /\ Offset(c, i, j + 1) = o + a /\ Offset(c, i + 1, j + 1) = o + a - b
  BY OffsetSteps, LineConstants
<1>2. LineStep(c, At(c, i, j)) = At(c, IF 2 * o + 2 * a >= b THEN i + 1 ELSE i,
                                       IF 2 * o + a <= 2 * b THEN j + 1 ELSE j)
  BY LineStepFrom
<1>3. a < b /\ -b <= 2 * o /\ 2 * o <= b
  OBVIOUS
<1> HIDE DEF o, a, b
<1>4. 2 * o + a <= 2 * b
  BY <1>1, <1>3
<1>5. CASE 2 * o + 2 * a >= b
  <2>1. LineStep(c, At(c, i, j)) = At(c, i + 1, j + 1)
    BY <1>2, <1>4, <1>5
  <2>2. -b <= 2 * (o + a - b) /\ 2 * (o + a - b) <= b
    BY <1>1, <1>3, <1>5
  <2>3. i + 1 \in Nat
    OBVIOUS
  <2> QED BY <1>1, <2>1, <2>2, <2>3 DEF b
<1>6. CASE ~(2 * o + 2 * a >= b)
  <2>1. LineStep(c, At(c, i, j)) = At(c, i, j + 1)
    BY <1>2, <1>4, <1>6
  <2>2. -b <= 2 * (o + a) /\ 2 * (o + a) <= b
    BY <1>1, <1>3, <1>6
  <2> QED BY <1>1, <2>1, <2>2 DEF b
<1> QED BY <1>5, <1>6

(* What the loop goes through is what LineStates says.                     *)
LEMMA LineRuns ==
  ASSUME NEW c, IsLine(c)
  PROVE  /\ LineStates(c)[0] = At(c, 0, 0)
         /\ \A k \in 1 .. LineTurns(c) :
              LineStates(c)[k] = LineStep(c, LineStates(c)[k - 1])
<1> DEFINE S == [x : Int, y : Int, err : Int]
           F == [t \in Nat \X S |-> LineStep(c, t[2])]
           n == LineTurns(c)
           first == [x |-> c.x0, y |-> c.y0, err |-> AbsVal(c.x1 - c.x0) - AbsVal(c.y1 - c.y0)]
           s[k \in 0 .. n] == IF k = 0 THEN first ELSE LineStep(c, s[k - 1])
<1>1. DX(c) \in Nat /\ DY(c) \in Nat /\ n \in Nat /\ c.x0 \in Int /\ c.y0 \in Int
  BY LineConstants DEF IsLine
<1>2. first = At(c, 0, 0) /\ first \in S
  <2>1. Offset(c, 0, 0) = 0
    BY <1>1 DEF Offset
  <2> QED BY <1>1, <2>1, LineConstants DEF At, DX, DY
<1>3. ASSUME NEW t \in S PROVE LineStep(c, t) \in S
  <2>1. t.x \in Int /\ t.y \in Int /\ t.err \in Int
    OBVIOUS
  <2> QED BY <1>1, <2>1 DEF LineStep, DX, DY
<1>4. F \in [Nat \X S -> S]
  BY <1>3
<1>5. PICK v : IsRun(v, S, first, n, F)
  <2> HIDE DEF S, F, n, first, s
  <2> QED BY <1>1, <1>2, <1>4, LoopRuns
<1>6. v = [k \in 0 .. n |-> IF k = 0 THEN first ELSE LineStep(c, v[k - 1])]
  <2>1. ASSUME NEW k \in 0 .. n, k # 0 PROVE v[k] = LineStep(c, v[k - 1])
    <3>1. k - 1 \in 0 .. n /\ k \in 1 .. n
      BY <1>1, <2>1
    <3>2. v[k - 1] \in S
      BY <1>5, <3>1 DEF IsRun
    <3>3. F[<<k, v[k - 1]>>] = LineStep(c, v[k - 1])
      BY <3>1, <3>2
    <3> HIDE DEF F, S, n, first
    <3> QED BY <1>5, <3>1, <3>3 DEF IsRun
  <2> HIDE DEF F, S, n, first
  <2> QED BY <1>5, <2>1 DEF IsRun
<1>7. s = [k \in 0 .. n |-> IF k = 0 THEN first ELSE LineStep(c, s[k - 1])]
  <2> HIDE DEF n, first
  <2> QED BY <1>6
<1>8. LineStates(c) = s
  BY DEF LineStates
<1> HIDE DEF s, n, first
<1>9. s[0] = first /\ \A k \in 1 .. n : s[k] = LineStep(c, s[k - 1])
  BY <1>1, <1>7
<1> QED BY <1>2, <1>8, <1>9 DEF n

(* The turns before the last point of a line.                              *)
LEMMA WideRuns ==
  ASSUME NEW c, IsLine(c), DX(c) >= DY(c)
  PROVE  \A k \in 0 .. DX(c) : \E j \in Nat :
           /\ LineStates(c)[k] = At(c, k, j)
           /\ -DX(c) <= 2 * Offset(c, k, j) /\ 2 * Offset(c, k, j) <= DX(c)
<1> DEFINE s == LineStates(c)
           G == {k \in 0 .. DX(c) : \E j \in Nat :
                   /\ s[k] = At(c, k, j)
                   /\ -DX(c) <= 2 * Offset(c, k, j) /\ 2 * Offset(c, k, j) <= DX(c)}
<1>1. DX(c) \in Nat /\ DY(c) \in Nat /\ LineTurns(c) = DX(c) + DY(c)
  BY LineConstants
<1>2. 0 \in G
  <2>1. s[0] = At(c, 0, 0)
    BY LineRuns
  <2>2. Offset(c, 0, 0) = 0
    BY <1>1 DEF Offset
  <2> QED BY <1>1, <2>1, <2>2
<1>3. ASSUME NEW k \in 0 .. DX(c), k > 0, k - 1 \in G PROVE k \in G
  <2>1. PICK j \in Nat : /\ s[k - 1] = At(c, k - 1, j)
                         /\ -DX(c) <= 2 * Offset(c, k - 1, j)
                         /\ 2 * Offset(c, k - 1, j) <= DX(c)
    BY <1>3
  <2>2. k - 1 \in Nat /\ (k - 1) + 1 = k /\ k \in 1 .. LineTurns(c)
    BY <1>1, <1>3
  <2>3. s[k] = LineStep(c, At(c, k - 1, j))
    BY <2>1, <2>2, LineRuns
  <2> DEFINE i == k - 1
  <2>4. i \in Nat /\ i + 1 = k
    BY <2>2
  <2> HIDE DEF i, s
  <2>5. PICK j1 \in Nat : /\ LineStep(c, At(c, i, j)) = At(c, i + 1, j1)
                          /\ -DX(c) <= 2 * Offset(c, i + 1, j1)
                          /\ 2 * Offset(c, i + 1, j1) <= DX(c)
    <3>1. -DX(c) <= 2 * Offset(c, i, j) /\ 2 * Offset(c, i, j) <= DX(c)
      BY <2>1 DEF i
    <3> QED BY <2>4, <3>1, WideStep
  <2>6. s[k] = At(c, k, j1)
    BY <2>3, <2>4, <2>5 DEF i
  <2> QED BY <2>4, <2>5, <2>6
<1>4. 0 \in Int /\ DX(c) \in Int
  BY <1>1
<1>5. \A k \in 0 .. DX(c) : k \in G
  <2> HIDE DEF G
  <2> QED BY <1>2, <1>3, <1>4, IntervalInduction
<1> QED BY <1>5

(* The same for lines that are higher than wide.                            *)
LEMMA HighRuns ==
  ASSUME NEW c, IsLine(c), DX(c) < DY(c)
  PROVE  \A k \in 0 .. DY(c) : \E i \in Nat :
           /\ LineStates(c)[k] = At(c, i, k)
           /\ -DY(c) <= 2 * Offset(c, i, k) /\ 2 * Offset(c, i, k) <= DY(c)
<1> DEFINE s == LineStates(c)
           G == {k \in 0 .. DY(c) : \E i \in Nat :
                   /\ s[k] = At(c, i, k)
                   /\ -DY(c) <= 2 * Offset(c, i, k) /\ 2 * Offset(c, i, k) <= DY(c)}
<1>1. DX(c) \in Nat /\ DY(c) \in Nat /\ LineTurns(c) = DX(c) + DY(c)
  BY LineConstants
<1>2. 0 \in G
  <2>1. s[0] = At(c, 0, 0)
    BY LineRuns
  <2>2. Offset(c, 0, 0) = 0
    BY <1>1 DEF Offset
  <2> QED BY <1>1, <2>1, <2>2
<1>3. ASSUME NEW k \in 0 .. DY(c), k > 0, k - 1 \in G PROVE k \in G
  <2>1. PICK i \in Nat : /\ s[k - 1] = At(c, i, k - 1)
                         /\ -DY(c) <= 2 * Offset(c, i, k - 1)
                         /\ 2 * Offset(c, i, k - 1) <= DY(c)
    BY <1>3
  <2>2. k - 1 \in Nat /\ (k - 1) + 1 = k /\ k \in 1 .. LineTurns(c)
    BY <1>1, <1>3
  <2>3. s[k] = LineStep(c, At(c, i, k - 1))
    BY <2>1, <2>2, LineRuns
  <2> DEFINE j == k - 1
  <2>4. j \in Nat /\ j + 1 = k
    BY <2>2
  <2> HIDE DEF j, s
  <2>5. PICK i1 \in Nat : /\ LineStep(c, At(c, i, j)) = At(c, i1, j + 1)
                          /\ -DY(c) <= 2 * Offset(c, i1, j + 1)
                          /\ 2 * Offset(c, i1, j + 1) <= DY(c)
    <3>1. -DY(c) <= 2 * Offset(c, i, j) /\ 2 * Offset(c, i, j) <= DY(c)
      BY <2>1 DEF j
    <3> QED BY <2>4, <3>1, HighStep
  <2>6. s[k] = At(c, i1, k)
    BY <2>3, <2>4, <2>5 DEF j
  <2> QED BY <2>4, <2>5, <2>6
<1>4. 0 \in Int /\ DY(c) \in Int
  BY <1>1
<1>5. \A k \in 0 .. DY(c) : k \in G
  <2> HIDE DEF G
  <2> QED BY <1>2, <1>3, <1>4, IntervalInduction
<1> QED BY <1>5

(* A line of n + 1 points is over when its end point comes up for the      *)
(* first time.                                                             *)
LEMMA LineEnds ==
  ASSUME NEW c, IsLine(c), NEW n \in 0 .. LineTurns(c),
         LineStates(c)[n].x = c.x1 /\ LineStates(c)[n].y = c.y1,
         \A k \in 0 .. n - 1 : ~(LineStates(c)[k].x = c.x1 /\ LineStates(c)[k].y = c.y1)
  PROVE  LinePoints(c) =
           [k \in 1 .. n + 1 |-> <<LineStates(c)[k - 1].x, LineStates(c)[k - 1].y>>]
<1> DEFINE s == LineStates(c)
           AtEnd(k) == s[k].x = c.x1 /\ s[k].y = c.y1
           shown == {k \in 0 .. LineTurns(c) : \A j \in 0 .. k - 1 : ~AtEnd(j)}
<1>1. LineTurns(c) \in Nat
  BY LineConstants
<1>2. shown = 0 .. n
  <2>1. ASSUME NEW k \in 0 .. n PROVE k \in shown
    BY <1>1
  <2>2. ASSUME NEW k \in shown PROVE k \in 0 .. n
    <3> SUFFICES ASSUME k > n PROVE FALSE
      BY <1>1
    <3>1. n \in 0 .. k - 1
      BY <1>1
    <3> QED BY <3>1
  <2> QED BY <2>1, <2>2
<1>3. n \in Int /\ n >= 0
  BY <1>1
<1>4. Cardinality(shown) = n + 1
  <2> HIDE DEF shown
  <2>1. Cardinality(0 .. n) = IF 0 > n THEN 0 ELSE n - 0 + 1
    BY <1>3, FS_Interval
  <2> QED BY <1>2, <1>3, <2>1
<1> QED BY <1>4 DEF LinePoints

(* What raster_line() promises of its points p.                            *)
LineShape(c, p) ==
  LET longer == IF DX(c) >= DY(c) THEN DX(c) ELSE DY(c)
  IN  /\ p \in [1 .. longer + 1 -> Int \X Int] /\ p \in Seq(Int \X Int)
      /\ p[longer + 1] = <<c.x1, c.y1>>
      /\ \A k, l \in 1 .. longer + 1 : p[k] = p[l] => k = l
      /\ \A k \in 1 .. longer + 1 :
           2 * AbsVal((c.y1 - c.y0) * (p[k][1] - c.x0) - (c.x1 - c.x0) * (p[k][2] - c.y0)) <= longer

(* How far a point of the loop is off the ideal line.                      *)
LEMMA OffIdeal ==
  ASSUME NEW c, IsLine(c), NEW i \in Nat, NEW j \in Nat, NEW m \in Nat,
         -m <= 2 * Offset(c, i, j), 2 * Offset(c, i, j) <= m
  PROVE  2 * AbsVal((c.y1 - c.y0) * (At(c, i, j).x - c.x0)
                     - (c.x1 - c.x0) * (At(c, i, j).y - c.y0)) <= m
<1> DEFINE a == DX(c)
           b == DY(c)
           p == SX(c)
           q == SY(c)
<1>1. a \in Nat /\ b \in Nat /\ p \in {1, -1} /\ q \in {1, -1} /\ c.x0 \in Int /\ c.y0 \in Int
  BY LineConstants DEF IsLine
<1>2. c.x1 = c.x0 + p * a /\ c.y1 = c.y0 + q * b
  BY LineConstants
<1>3. At(c, i, j).x = c.x0 + p * i /\ At(c, i, j).y = c.y0 + q * j
  BY DEF At
<1>4. Offset(c, i, j) = j * a - i * b
  BY DEF Offset
<1> HIDE DEF a, b, p, q
<1>5. /\ c.y1 - c.y0 = q * b /\ c.x1 - c.x0 = p * a
      /\ At(c, i, j).x - c.x0 = p * i /\ At(c, i, j).y - c.y0 = q * j
  BY <1>1, <1>2, <1>3
<1>6. /\ (q * b) * (p * i) = (p * q) * (i * b) /\ (p * a) * (q * j) = (p * q) * (j * a)
      /\ p * q \in {1, -1} /\ i * b \in Int /\ j * a \in Int
  BY <1>1
<1>7. ASSUME NEW u \in Int, NEW v \in Int, NEW w \in {1, -1}, -m <= 2 * (v - u), 2 * (v - u) <= m
      PROVE  2 * AbsVal(w * u - w * v) <= m
  <2>1. CASE w = 1
    BY <1>7, <2>1 DEF AbsVal
  <2>2. CASE w = -1
    BY <1>7, <2>2 DEF AbsVal
  <2> QED BY <2>1, <2>2
<1>8. 2 * AbsVal((p * q) * (i * b) - (p * q) * (j * a)) <= m
  <2> DEFINE u == i * b
             v == j * a
             w == p * q
  <2>1. u \in Int /\ v \in Int /\ w \in {1, -1} /\ -m <= 2 * (v - u) /\ 2 * (v - u) <= m
    BY <1>4, <1>6
  <2> HIDE DEF u, v, w
  <2>2. 2 * AbsVal(w * u - w * v) <= m
    BY <1>7, <2>1
  <2> QED BY <2>2 DEF u, v, w
<1> QED BY <1>5, <1>6, <1>8

(* A wide line has the shape it should have.                               *)
LEMMA WideShape ==
  ASSUME NEW c, IsLine(c), DX(c) >= DY(c)
  PROVE  LineShape(c, LinePoints(c))
<1> DEFINE s == LineStates(c)
           n == DX(c)
           p == LinePoints(c)
<1>1. /\ DX(c) \in Nat /\ DY(c) \in Nat /\ LineTurns(c) = DX(c) + DY(c)
      /\ SX(c) \in {1, -1} /\ SY(c) \in {1, -1}
      /\ c.x1 = c.x0 + SX(c) * DX(c) /\ c.y1 = c.y0 + SY(c) * DY(c)
      /\ c.x0 \in Int /\ c.y0 \in Int /\ c.x1 \in Int /\ c.y1 \in Int
  BY LineConstants DEF IsLine
<1>2. ASSUME NEW k \in 0 .. n
      PROVE  \E o \in Nat : /\ s[k] = At(c, k, o)
                            /\ -n <= 2 * Offset(c, k, o) /\ 2 * Offset(c, k, o) <= n
  BY WideRuns
<1>3. ASSUME NEW k \in 0 .. n, NEW o \in Nat
      PROVE  /\ At(c, k, o).x = c.x0 + SX(c) * k /\ At(c, k, o).x \in Int
             /\ At(c, k, o).x \in Int /\ At(c, k, o).y \in Int
  <2>1. SX(c) * k \in Int /\ SY(c) * k \in Int /\ SX(c) * o \in Int /\ SY(c) * o \in Int
    BY <1>1
  <2> QED BY <1>1, <2>1 DEF At
<1>4. ASSUME NEW k \in 0 .. n, NEW l \in 0 .. n, SX(c) * k = SX(c) * l
      PROVE  k = l
  BY <1>1, <1>4
<1>5. s[n].x = c.x1 /\ s[n].y = c.y1
  <2>1. CASE n = 0
    <3>1. s[0] = At(c, 0, 0) /\ DX(c) = 0 /\ DY(c) = 0
      BY <1>1, <2>1, LineRuns
    <3> QED BY <1>1, <2>1, <3>1 DEF At
  <2>2. CASE n # 0
    <3>1. n \in 0 .. n /\ n \in Nat
      BY <1>1
    <3>2. PICK o \in Nat : /\ s[n] = At(c, n, o)
                           /\ -n <= 2 * Offset(c, n, o) /\ 2 * Offset(c, n, o) <= n
      BY <1>2, <3>1
    <3> DEFINE a == n
               b == DY(c)
    <3>3. Offset(c, n, o) = o * a - a * b
      BY DEF Offset
    <3>4. a \in Nat \ {0} /\ b \in Nat
      BY <1>1, <2>2
    <3>5. o = b
      <4>1. -a <= 2 * (o * a - a * b) /\ 2 * (o * a - a * b) <= a
        BY <3>2, <3>3
      <4> HIDE DEF a, b
      <4>2. o * a - a * b = a * (o - b) /\ a * b - o * a = a * (b - o)
        BY <3>4
      <4>3. CASE o > b
        <5>1. o - b - 1 \in Nat
          BY <3>4, <4>3
        <5>2. a * (o - b - 1) \in Nat
          BY <3>4, <5>1
        <5>3. a * (o - b) = a * (o - b - 1) + a /\ a * (b - o) = -(a * (o - b))
          BY <3>4
        <5> QED BY <3>4, <4>1, <4>2, <5>2, <5>3
      <4>4. CASE o < b
        <5>1. b - o - 1 \in Nat
          BY <3>4, <4>4
        <5>2. a * (b - o - 1) \in Nat
          BY <3>4, <5>1
        <5>3. a * (b - o) = a * (b - o - 1) + a /\ a * (o - b) = -(a * (b - o))
          BY <3>4
        <5> QED BY <3>4, <4>1, <4>2, <5>2, <5>3
      <4> QED BY <3>4, <4>3, <4>4
    <3> QED BY <1>1, <3>2, <3>5 DEF At
  <2> QED BY <2>1, <2>2
<1>6. ASSUME NEW k \in 0 .. n - 1 PROVE s[k].x # c.x1
  <2>1. k \in 0 .. n /\ n \in 0 .. n /\ k # n
    BY <1>1
  <2>2. PICK o \in Nat : s[k] = At(c, k, o)
    BY <1>2, <2>1
  <2>3. s[k].x = c.x0 + SX(c) * k
    BY <1>3, <2>1, <2>2
  <2>4. SX(c) * k # SX(c) * n /\ SX(c) * k \in Int /\ SX(c) * n \in Int
    BY <1>1, <1>4, <2>1
  <2> QED BY <1>1, <2>3, <2>4
<1>7. n \in 0 .. LineTurns(c)
  BY <1>1
<1>8. p = [k \in 1 .. n + 1 |-> <<s[k - 1].x, s[k - 1].y>>]
  BY <1>5, <1>6, <1>7, LineEnds
<1>9. ASSUME NEW k \in 1 .. n + 1
      PROVE  \E o \in Nat : /\ p[k] = <<At(c, k - 1, o).x, At(c, k - 1, o).y>>
                            /\ -n <= 2 * Offset(c, k - 1, o) /\ 2 * Offset(c, k - 1, o) <= n
  <2>1. k - 1 \in 0 .. n
    BY <1>1
  <2> QED BY <1>2, <1>8, <2>1
<1>10. p \in [1 .. n + 1 -> Int \X Int]
  <2>1. ASSUME NEW k \in 1 .. n + 1 PROVE <<s[k - 1].x, s[k - 1].y>> \in Int \X Int
    <3>1. k - 1 \in 0 .. n
      BY <1>1
    <3>2. PICK o \in Nat : s[k - 1] = At(c, k - 1, o)
      BY <1>2, <3>1
    <3> QED BY <1>3, <3>1, <3>2
  <2> QED BY <1>8, <2>1
<1>11. p \in Seq(Int \X Int)
  <2>1. n + 1 \in Nat
    BY <1>1
  <2> HIDE DEF n, p
  <2> QED BY <1>10, <2>1
<1>12. p[n + 1] = <<c.x1, c.y1>>
  <2>1. n + 1 \in 1 .. n + 1 /\ (n + 1) - 1 = n
    BY <1>1
  <2> QED BY <1>5, <1>8, <2>1
<1>13. ASSUME NEW k \in 1 .. n + 1, NEW l \in 1 .. n + 1, p[k] = p[l] PROVE k = l
  <2>1. k - 1 \in 0 .. n /\ l - 1 \in 0 .. n
    BY <1>1
  <2>2. PICK o \in Nat : s[k - 1] = At(c, k - 1, o)
    BY <1>2, <2>1
  <2>3. PICK m \in Nat : s[l - 1] = At(c, l - 1, m)
    BY <1>2, <2>1
  <2>4. s[k - 1].x = s[l - 1].x
    BY <1>8, <1>13
  <2>5. c.x0 + SX(c) * (k - 1) = c.x0 + SX(c) * (l - 1)
    BY <1>3, <2>1, <2>2, <2>3, <2>4
  <2>6. SX(c) * (k - 1) = SX(c) * (l - 1)
    <3>1. SX(c) * (k - 1) \in Int /\ SX(c) * (l - 1) \in Int
      BY <1>1
    <3> QED BY <1>1, <2>5, <3>1
  <2>7. k - 1 = l - 1
    BY <1>4, <2>1, <2>6
  <2> QED BY <2>7
<1>14. ASSUME NEW k \in 1 .. n + 1
       PROVE  2 * AbsVal((c.y1 - c.y0) * (p[k][1] - c.x0) - (c.x1 - c.x0) * (p[k][2] - c.y0)) <= n
  <2>1. PICK o \in Nat : /\ p[k] = <<At(c, k - 1, o).x, At(c, k - 1, o).y>>
                         /\ -n <= 2 * Offset(c, k - 1, o) /\ 2 * Offset(c, k - 1, o) <= n
    BY <1>9
  <2>2. k - 1 \in Nat /\ n \in Nat
    BY <1>1
  <2> HIDE DEF n, p
  <2>3. p[k][1] = At(c, k - 1, o).x /\ p[k][2] = At(c, k - 1, o).y
    BY <2>1
  <2>4. 2 * AbsVal((c.y1 - c.y0) * (At(c, k - 1, o).x - c.x0)
                   - (c.x1 - c.x0) * (At(c, k - 1, o).y - c.y0)) <= n
    BY <2>1, <2>2, OffIdeal
  <2> QED BY <2>3, <2>4
<1>15. n = IF DX(c) >= DY(c) THEN DX(c) ELSE DY(c)
  BY <1>1
<1>16. LineShape(c, p)
  <2> DEFINE m == IF DX(c) >= DY(c) THEN DX(c) ELSE DY(c)
  <2>1. m = n
    BY <1>15
  <2> HIDE DEF n, p, m
  <2>2. /\ p \in [1 .. m + 1 -> Int \X Int] /\ p \in Seq(Int \X Int)
        /\ p[m + 1] = <<c.x1, c.y1>>
    BY <2>1, <1>10, <1>11, <1>12
  <2>3. \A k, l \in 1 .. m + 1 : p[k] = p[l] => k = l
    BY <2>1, <1>13
  <2>4. \A k \in 1 .. m + 1 :
          2 * AbsVal((c.y1 - c.y0) * (p[k][1] - c.x0) - (c.x1 - c.x0) * (p[k][2] - c.y0)) <= m
    BY <2>1, <1>14
  <2> QED BY <2>2, <2>3, <2>4 DEF LineShape, m
<1> QED BY <1>16

(* A high line has the shape it should have.                               *)
LEMMA HighShape ==
  ASSUME NEW c, IsLine(c), DX(c) < DY(c)
  PROVE  LineShape(c, LinePoints(c))
<1> DEFINE s == LineStates(c)
           n == DY(c)
           p == LinePoints(c)
<1>1. /\ DX(c) \in Nat /\ DY(c) \in Nat /\ LineTurns(c) = DX(c) + DY(c)
      /\ SX(c) \in {1, -1} /\ SY(c) \in {1, -1}
      /\ c.x1 = c.x0 + SX(c) * DX(c) /\ c.y1 = c.y0 + SY(c) * DY(c)
      /\ c.x0 \in Int /\ c.y0 \in Int /\ c.x1 \in Int /\ c.y1 \in Int
  BY LineConstants DEF IsLine
<1>2. ASSUME NEW k \in 0 .. n
      PROVE  \E o \in Nat : /\ s[k] = At(c, o, k)
                            /\ -n <= 2 * Offset(c, o, k) /\ 2 * Offset(c, o, k) <= n
  BY HighRuns
<1>3. ASSUME NEW k \in 0 .. n, NEW o \in Nat
      PROVE  /\ At(c, o, k).y = c.y0 + SY(c) * k /\ At(c, o, k).y \in Int
             /\ At(c, o, k).x \in Int /\ At(c, o, k).y \in Int
  <2>1. SX(c) * k \in Int /\ SY(c) * k \in Int /\ SX(c) * o \in Int /\ SY(c) * o \in Int
    BY <1>1
  <2> QED BY <1>1, <2>1 DEF At
<1>4. ASSUME NEW k \in 0 .. n, NEW l \in 0 .. n, SY(c) * k = SY(c) * l
      PROVE  k = l
  BY <1>1, <1>4
<1>5. s[n].x = c.x1 /\ s[n].y = c.y1
  <2>1. CASE n = 0
    <3>1. s[0] = At(c, 0, 0) /\ DX(c) = 0 /\ DY(c) = 0
      BY <1>1, <2>1, LineRuns
    <3> QED BY <1>1, <2>1, <3>1 DEF At
  <2>2. CASE n # 0
    <3>1. n \in 0 .. n /\ n \in Nat
      BY <1>1
    <3>2. PICK o \in Nat : /\ s[n] = At(c, o, n)
                           /\ -n <= 2 * Offset(c, o, n) /\ 2 * Offset(c, o, n) <= n
      BY <1>2, <3>1
    <3> DEFINE a == n
               b == DX(c)
    <3>3. Offset(c, o, n) = a * b - o * a
      BY DEF Offset
    <3>4. a \in Nat \ {0} /\ b \in Nat
      BY <1>1, <2>2
    <3>5. o = b
      <4>1. -a <= 2 * (a * b - o * a) /\ 2 * (a * b - o * a) <= a
        BY <3>2, <3>3
      <4> HIDE DEF a, b
      <4>2. o * a - a * b = a * (o - b) /\ a * b - o * a = a * (b - o)
        BY <3>4
      <4>3. CASE o > b
        <5>1. o - b - 1 \in Nat
          BY <3>4, <4>3
        <5>2. a * (o - b - 1) \in Nat
          BY <3>4, <5>1
        <5>3. a * (o - b) = a * (o - b - 1) + a /\ a * (b - o) = -(a * (o - b))
          BY <3>4
        <5> QED BY <3>4, <4>1, <4>2, <5>2, <5>3
      <4>4. CASE o < b
        <5>1. b - o - 1 \in Nat
          BY <3>4, <4>4
        <5>2. a * (b - o - 1) \in Nat
          BY <3>4, <5>1
        <5>3. a * (b - o) = a * (b - o - 1) + a /\ a * (o - b) = -(a * (b - o))
          BY <3>4
        <5> QED BY <3>4, <4>1, <4>2, <5>2, <5>3
      <4> QED BY <3>4, <4>3, <4>4
    <3> QED BY <1>1, <3>2, <3>5 DEF At
  <2> QED BY <2>1, <2>2
<1>6. ASSUME NEW k \in 0 .. n - 1 PROVE s[k].y # c.y1
  <2>1. k \in 0 .. n /\ n \in 0 .. n /\ k # n
    BY <1>1
  <2>2. PICK o \in Nat : s[k] = At(c, o, k)
    BY <1>2, <2>1
  <2>3. s[k].y = c.y0 + SY(c) * k
    BY <1>3, <2>1, <2>2
  <2>4. SY(c) * k # SY(c) * n /\ SY(c) * k \in Int /\ SY(c) * n \in Int
    BY <1>1, <1>4, <2>1
  <2> QED BY <1>1, <2>3, <2>4
<1>7. n \in 0 .. LineTurns(c)
  BY <1>1
<1>8. p = [k \in 1 .. n + 1 |-> <<s[k - 1].x, s[k - 1].y>>]
  BY <1>5, <1>6, <1>7, LineEnds
<1>9. ASSUME NEW k \in 1 .. n + 1
      PROVE  \E o \in Nat : /\ p[k] = <<At(c, o, k - 1).x, At(c, o, k - 1).y>>
                            /\ -n <= 2 * Offset(c, o, k - 1) /\ 2 * Offset(c, o, k - 1) <= n
  <2>1. k - 1 \in 0 .. n
    BY <1>1
  <2> QED BY <1>2, <1>8, <2>1
<1>10. p \in [1 .. n + 1 -> Int \X Int]
  <2>1. ASSUME NEW k \in 1 .. n + 1 PROVE <<s[k - 1].x, s[k - 1].y>> \in Int \X Int
    <3>1. k - 1 \in 0 .. n
      BY <1>1
    <3>2. PICK o \in Nat : s[k - 1] = At(c, o, k - 1)
      BY <1>2, <3>1
    <3> QED BY <1>3, <3>1, <3>2
  <2> QED BY <1>8, <2>1
<1>11. p \in Seq(Int \X Int)
  <2>1. n + 1 \in Nat
    BY <1>1
  <2> HIDE DEF n, p
  <2> QED BY <1>10, <2>1
<1>12. p[n + 1] = <<c.x1, c.y1>>
  <2>1. n + 1 \in 1 .. n + 1 /\ (n + 1) - 1 = n
    BY <1>1
  <2> QED BY <1>5, <1>8, <2>1
<1>13. ASSUME NEW k \in 1 .. n + 1, NEW l \in 1 .. n + 1, p[k] = p[l] PROVE k = l
  <2>1. k - 1 \in 0 .. n /\ l - 1 \in 0 .. n
    BY <1>1
  <2>2. PICK o \in Nat : s[k - 1] = At(c, o, k - 1)
    BY <1>2, <2>1
  <2>3. PICK m \in Nat : s[l - 1] = At(c, m, l - 1)
    BY <1>2, <2>1
  <2>4. s[k - 1].y = s[l - 1].y
    BY <1>8, <1>13
  <2>5. c.y0 + SY(c) * (k - 1) = c.y0 + SY(c) * (l - 1)
    BY <1>3, <2>1, <2>2, <2>3, <2>4
  <2>6. SY(c) * (k - 1) = SY(c) * (l - 1)
    <3>1. SY(c) * (k - 1) \in Int /\ SY(c) * (l - 1) \in Int
      BY <1>1
    <3> QED BY <1>1, <2>5, <3>1
  <2>7. k - 1 = l - 1
    BY <1>4, <2>1, <2>6
  <2> QED BY <2>7
<1>14. ASSUME NEW k \in 1 .. n + 1
       PROVE  2 * AbsVal((c.y1 - c.y0) * (p[k][1] - c.x0) - (c.x1 - c.x0) * (p[k][2] - c.y0)) <= n
  <2>1. PICK o \in Nat : /\ p[k] = <<At(c, o, k - 1).x, At(c, o, k - 1).y>>
                         /\ -n <= 2 * Offset(c, o, k - 1) /\ 2 * Offset(c, o, k - 1) <= n
    BY <1>9
  <2>2. k - 1 \in Nat /\ n \in Nat
    BY <1>1
  <2> HIDE DEF n, p
  <2>3. p[k][1] = At(c, o, k - 1).x /\ p[k][2] = At(c, o, k - 1).y
    BY <2>1
  <2>4. 2 * AbsVal((c.y1 - c.y0) * (At(c, o, k - 1).x - c.x0)
                   - (c.x1 - c.x0) * (At(c, o, k - 1).y - c.y0)) <= n
    BY <2>1, <2>2, OffIdeal
  <2> QED BY <2>3, <2>4
<1>15. n = IF DX(c) >= DY(c) THEN DX(c) ELSE DY(c)
  BY <1>1
<1>16. LineShape(c, p)
  <2> DEFINE m == IF DX(c) >= DY(c) THEN DX(c) ELSE DY(c)
  <2>1. m = n
    BY <1>15
  <2> HIDE DEF n, p, m
  <2>2. /\ p \in [1 .. m + 1 -> Int \X Int] /\ p \in Seq(Int \X Int)
        /\ p[m + 1] = <<c.x1, c.y1>>
    BY <2>1, <1>10, <1>11, <1>12
  <2>3. \A k, l \in 1 .. m + 1 : p[k] = p[l] => k = l
    BY <2>1, <1>13
  <2>4. \A k \in 1 .. m + 1 :
          2 * AbsVal((c.y1 - c.y0) * (p[k][1] - c.x0) - (c.x1 - c.x0) * (p[k][2] - c.y0)) <= m
    BY <2>1, <1>14
  <2> QED BY <2>2, <2>3, <2>4 DEF LineShape, m
<1> QED BY <1>16

(* raster_line() ends, at its second end point, after as many points as    *)
(* the longer axis has, plots none twice, and stays within half a pixel    *)
(* (along the shorter axis) of the ideal line: for every line.             *)
THEOREM LineIsStraight ==
  ASSUME NEW c, IsLine(c)
  PROVE  LineShape(c, LinePoints(c))
<1>1. DX(c) \in Nat /\ DY(c) \in Nat
  BY LineConstants
<1>2. CASE DX(c) >= DY(c)
  BY <1>2, WideShape
<1>3. CASE DX(c) < DY(c)
  BY <1>3, HighShape
<1> QED BY <1>1, <1>2, <1>3

-----------------------------------------------------------------------------
(* How often a command writes a pixel.                                     *)

(* There are finitely many numbers between two.                             *)
LEMMA IntervalIsFinite ==
  ASSUME NEW a \in Int, NEW b \in Int
  PROVE  IsFiniteSet(a .. b)
BY FS_Interval

(* Counting the elements of a part of a finite set.                         *)
LEMMA Count ==
  ASSUME NEW S, IsFiniteSet(S), NEW T \in SUBSET S
  PROVE  /\ Cardinality(T) \in Nat
         /\ Cardinality(T) > 0 <=> T # {}
         /\ (\A x, y \in T : x = y) => Cardinality(T) <= 1
<1>1. IsFiniteSet(T)
  BY FS_Subset
<1>2. Cardinality(T) \in Nat /\ (Cardinality(T) = 0 <=> T = {})
  BY <1>1, FS_CardinalityType, FS_EmptySet
<1>3. ASSUME \A x, y \in T : x = y PROVE Cardinality(T) <= 1
  <2>1. CASE T = {}
    BY <1>2, <2>1
  <2>2. CASE T # {}
    <3>1. PICK x \in T : TRUE
      BY <2>2
    <3>2. T = {x}
      BY <1>3
    <3>3. Cardinality(T) = 1
      BY <3>2, FS_Singleton
    <3> QED BY <3>3
  <2> QED BY <2>1, <2>2
<1> QED BY <1>2, <1>3

(* An arc of a circle has finitely many points.                             *)
LEMMA ArcIsFinite ==
  ASSUME NEW r \in Int
  PROVE  IsFiniteSet(Arc(r))
<1> DEFINE s == ArcStates(r)
           K == {i \in 0 .. r : s[i].x >= s[i].y}
           g == [k \in K |-> s[k]]
<1>1. IsFiniteSet(K)
  <2>1. IsFiniteSet(0 .. r)
    BY FS_Interval
  <2>2. K \in SUBSET (0 .. r)
    OBVIOUS
  <2> QED BY <2>1, <2>2, FS_Subset
<1>2. g \in Surjection(K, Arc(r))
  BY DEF Arc, Surjection
<1> QED BY <1>1, <1>2, FS_Surjection

(* Every operation writes a pixel some number of times.                     *)
LEMMA TimesIsNat ==
  ASSUME NEW c, IsCmd(c), c.op \notin {"Clear", "BlitSprite"}, NEW q
  PROVE  Times(c, q) \in Nat
<1>1. /\ c.op \in Ops /\ c.x0 \in Int /\ c.y0 \in Int /\ c.x1 \in Int /\ c.y1 \in Int
      /\ c.u0 \in Nat
  BY DEF IsCmd
<1>2. CASE c.op \in {"PutPixel", "FillRect", "BlendRect", "HLine", "VLine"}
  BY <1>2 DEF Times
<1>3. CASE c.op = "RectOutline"
  <2>1. IsFiniteSet((0 .. c.u0 - 1) \X (1 .. 4))
    <3>1. IsFiniteSet(0 .. c.u0 - 1) /\ IsFiniteSet(1 .. 4)
      <4>1. c.u0 - 1 \in Int /\ 0 \in Int /\ 1 \in Int /\ 4 \in Int
        BY <1>1
      <4> QED BY <4>1, IntervalIsFinite
    <3> QED BY <3>1, FS_Product
  <2>2. OutlineTimes(c, q) \in Nat
    BY <2>1, Count DEF OutlineTimes
  <2> QED BY <1>3, <2>2 DEF Times
<1>4. CASE c.op = "Line"
  <2>1. IsLine(c) /\ DX(c) \in Nat /\ DY(c) \in Nat
    BY <1>1, LineConstants DEF IsLine
  <2> DEFINE p == LinePoints(c)
             n == IF DX(c) >= DY(c) THEN DX(c) ELSE DY(c)
  <2>2. n + 1 \in Int /\ DOMAIN p = 1 .. n + 1
    BY <2>1, LineIsStraight DEF LineShape
  <2>3. IsFiniteSet(DOMAIN p)
    <3> HIDE DEF n, p
    <3> QED BY <2>2, FS_Interval
  <2>4. Cardinality({k \in DOMAIN p : p[k] = q}) \in Nat
    <3> HIDE DEF n, p
    <3> QED BY <2>3, Count
  <2> QED BY <1>4, <2>4 DEF Times
<1>5. CASE c.op = "Circle"
  <2>1. IsFiniteSet(Arc(c.x1) \X (1 .. 8))
    <3>1. IsFiniteSet(Arc(c.x1)) /\ IsFiniteSet(1 .. 8)
      <4>1. 1 \in Int /\ 4 \in Int /\ 8 \in Int
        OBVIOUS
      <4> QED BY <1>1, <4>1, ArcIsFinite, IntervalIsFinite
    <3> QED BY <3>1, FS_Product
  <2> DEFINE T == {s \in Arc(c.x1) \X (1 .. 8) : c.x1 > 0 /\ Octants(c, s[1])[s[2]] = q}
  <2>2. T \in SUBSET (Arc(c.x1) \X (1 .. 8))
    OBVIOUS
  <2>3. Times(c, q) = Cardinality(T)
    BY <1>5 DEF Times
  <2> HIDE DEF T
  <2> QED BY <2>1, <2>2, <2>3, Count
<1>6. CASE c.op = "FillCircle"
  <2>1. IsFiniteSet(Arc(c.x1) \X (1 .. 4))
    <3>1. IsFiniteSet(Arc(c.x1)) /\ IsFiniteSet(1 .. 4)
      <4>1. 1 \in Int /\ 4 \in Int /\ 8 \in Int
        OBVIOUS
      <4> QED BY <1>1, <4>1, ArcIsFinite, IntervalIsFinite
    <3> QED BY <3>1, FS_Product
  <2> DEFINE T == {s \in Arc(c.x1) \X (1 .. 4) :
                     /\ c.x1 > 0 /\ Spans(c, s[1])[s[2]][1] = q[2]
                     /\ AbsVal(q[1] - c.x0) <= Spans(c, s[1])[s[2]][2]}
  <2>2. T \in SUBSET (Arc(c.x1) \X (1 .. 4))
    OBVIOUS
  <2>3. Times(c, q) = Cardinality(T)
    BY <1>6 DEF Times
  <2> HIDE DEF T
  <2> QED BY <2>1, <2>2, <2>3, Count
<1>7. CASE c.op = "Text"
  <2>1. Len(c.data) \in Nat
    BY <1>7 DEF IsCmd
  <2>2. IsFiniteSet(1 .. Len(c.data))
    BY <2>1, FS_Interval
  <2>3. TextTimes(c, q) \in Nat
    BY <2>2, Count DEF TextTimes
  <2> QED BY <1>7, <2>3 DEF Times
<1> QED BY <1>1, <1>2, <1>3, <1>4, <1>5, <1>6, <1>7 DEF Ops

(* The pixel of a sprite that is drawn at q is one of those it has.        *)
LEMMA SpritePixelIsColor ==
  ASSUME NEW c, IsCmd(c), c.op = "BlitSprite", NEW q \in Int \X Int,
         c.x1 > 0, c.y1 > 0, c.u0 > 0, InRect(q, c.x0, c.y0, c.x1, c.y1)
  PROVE  SpritePixel(c, q) \in Colors
<1> DEFINE x == q[1] - c.x0
           y == q[2] - c.y0
           w == c.x1
           h == c.y1
           n == c.u0
           m == Len(c.data)
<1>1. c.data \in Seq(Colors) /\ HasRows(c.data, w, h, n)
  BY DEF IsCmd
<1>2. /\ w \in Int /\ h \in Int /\ n \in Nat /\ c.x0 \in Int /\ c.y0 \in Int /\ m \in Nat
      /\ q[1] \in Int /\ q[2] \in Int
  BY <1>1 DEF IsCmd
<1>3. x \in 0 .. w - 1 /\ y \in 0 .. h - 1
  BY <1>2 DEF InRect
<1>4. (h - 1) * n + w <= m
  BY <1>1 DEF HasRows
<1>5. SpritePixel(c, q) = c.data[y * n + x + 1]
  BY DEF SpritePixel
<1> HIDE DEF x, y, w, h, n, m
<1>6. y * n \in Nat /\ (h - 1) * n = y * n + (h - 1 - y) * n /\ (h - 1 - y) * n \in Nat
  <2>1. y \in Nat /\ h - 1 - y \in Nat
    BY <1>2, <1>3
  <2>2. y * n \in Nat /\ (h - 1 - y) * n \in Nat
    BY <1>2, <2>1
  <2>3. (h - 1) * n = y * n + (h - 1 - y) * n
    BY <1>2, <2>1
  <2> QED BY <2>2, <2>3
<1>7. y * n + x + 1 \in 1 .. m
  <2> DEFINE u == y * n
             v == (h - 1 - y) * n
             r == (h - 1) * n
  <2>1. u \in Nat /\ v \in Nat /\ r = u + v /\ r + w <= m
    BY <1>4, <1>6
  <2> HIDE DEF u, v, r
  <2>2. u + x + 1 \in 1 .. m
    BY <1>2, <1>3, <2>1
  <2> QED BY <2>2 DEF u
<1>8. c.data[y * n + x + 1] \in Colors
  BY <1>1, <1>7, ElementOfSeq DEF m
<1> QED BY <1>5, <1>8

(* Whatever a command does to a pixel, the result is a pixel; and none but *)
(* Clear makes an opaque pixel translucent.                                *)
THEOREM DrawnIsColor ==
  ASSUME NEW c, IsCmd(c), NEW q \in Int \X Int, NEW d \in Colors
  PROVE  /\ DrawPixel(c, q, d) \in Colors
         /\ Opaque(d) /\ (c.op = "Clear" => Opaque(c.color)) => Opaque(DrawPixel(c, q, d))
<1>1. c.color \in Colors
  BY DEF IsCmd
<1>2. CASE c.op = "Clear"
  BY <1>1, <1>2 DEF DrawPixel
<1>3. CASE c.op = "BlitSprite"
  <2> DEFINE shown == c.x1 > 0 /\ c.y1 > 0 /\ c.u0 > 0 /\ InRect(q, c.x0, c.y0, c.x1, c.y1)
  <2>1. CASE shown
    <3> DEFINE s == Modulate(SpritePixel(c, q), c.color)
    <3>1. SpritePixel(c, q) \in Colors
      BY <1>3, <2>1, SpritePixelIsColor
    <3>2. s \in Colors
      BY <1>1, <3>1, ModulateIsColor
    <3>3. DrawPixel(c, q, d) = Over(d, s)
      BY <1>3, <2>1 DEF DrawPixel
    <3> HIDE DEF s
    <3>4. Over(d, s) \in Colors /\ (Opaque(d) => Opaque(Over(d, s)))
      BY <3>2, OverIsColor, OpaqueStaysOpaque DEF Opaque
    <3> QED BY <3>3, <3>4
  <2>2. CASE ~shown
    <3>1. DrawPixel(c, q, d) = d
      BY <1>3, <2>2 DEF DrawPixel
    <3> QED BY <3>1
  <2> QED BY <2>1, <2>2
<1>4. CASE c.op \notin {"Clear", "BlitSprite"}
  <2>1. DrawPixel(c, q, d) = OverTimes(d, c.color, Times(c, q))
    BY <1>4 DEF DrawPixel
  <2>2. Times(c, q) \in Nat
    BY <1>4, TimesIsNat
  <2> DEFINE n == Times(c, q)
             ink == c.color
  <2>3. n \in Nat /\ ink \in Colors
    BY <1>1, <2>2
  <2> HIDE DEF n, ink
  <2>4. /\ OverTimes(d, ink, n) \in Colors
        /\ Opaque(d) => Opaque(OverTimes(d, ink, n))
    BY <2>3, WritesRun
  <2> QED BY <2>1, <2>4 DEF n, ink
<1> QED BY <1>2, <1>3, <1>4

-----------------------------------------------------------------------------
(* Outlines and texts.                                                     *)

(* The four sides of an outline that fits are the rectangle less the one   *)
(* that lies inside it.                                                    *)
THEOREM OutlineWritesRing ==
  ASSUME NEW c, c.x0 \in Int, c.y0 \in Int, c.x1 \in Int, c.y1 \in Int, c.u0 \in Nat,
         c.u0 <= c.x1, c.u0 <= c.y1, NEW q \in Int \X Int
  PROVE  (OutlineTimes(c, q) > 0) <=>
           /\ InRect(q, c.x0, c.y0, c.x1, c.y1)
           /\ ~InRect(q, c.x0 + c.u0, c.y0 + c.u0, c.x1 - 2 * c.u0, c.y1 - 2 * c.u0)
<1> DEFINE x == q[1]
           y == q[2]
           inX == c.x0 <= x /\ x < c.x0 + c.x1
           inY == c.y0 <= y /\ y < c.y0 + c.y1
           D == (0 .. c.u0 - 1) \X (1 .. 4)
           Hit(i, side) == \/ side = 1 /\ inX /\ y = c.y0 + i
                           \/ side = 2 /\ inX /\ y = c.y0 + c.y1 - 1 - i
                           \/ side = 3 /\ inY /\ x = c.x0 + i
                           \/ side = 4 /\ inY /\ x = c.x0 + c.x1 - 1 - i
           T == {s \in D : Hit(s[1], s[2])}
           ring == /\ InRect(q, c.x0, c.y0, c.x1, c.y1)
                   /\ ~InRect(q, c.x0 + c.u0, c.y0 + c.u0, c.x1 - 2 * c.u0, c.y1 - 2 * c.u0)
<1>1. x \in Int /\ y \in Int
  OBVIOUS
<1>2. OutlineTimes(c, q) = Cardinality(T)
  BY DEF OutlineTimes
<1>3. IsFiniteSet(D)
  <2>1. c.u0 - 1 \in Int /\ 0 \in Int /\ 1 \in Int /\ 4 \in Int
    OBVIOUS
  <2>2. IsFiniteSet(0 .. c.u0 - 1) /\ IsFiniteSet(1 .. 4)
    BY <2>1, IntervalIsFinite
  <2> QED BY <2>2, FS_Product
<1>4. OutlineTimes(c, q) > 0 <=> T # {}
  <2>1. T \in SUBSET D
    OBVIOUS
  <2> HIDE DEF T, D
  <2> QED BY <1>2, <1>3, <2>1, Count
<1>5. ring <=> /\ inX /\ inY
               /\ \/ x < c.x0 + c.u0 \/ x >= c.x0 + c.x1 - c.u0
                  \/ y < c.y0 + c.u0 \/ y >= c.y0 + c.y1 - c.u0
  BY <1>1 DEF InRect
<1>6. ASSUME NEW i \in 0 .. c.u0 - 1, NEW side \in 1 .. 4, Hit(i, side) PROVE ring
  BY <1>1, <1>5, <1>6
<1>7. ASSUME ring PROVE \E i \in 0 .. c.u0 - 1, side \in 1 .. 4 : Hit(i, side)
  <2>1. inX /\ inY
    BY <1>5, <1>7
  <2>2. CASE x < c.x0 + c.u0
    <3>1. x - c.x0 \in 0 .. c.u0 - 1 /\ x = c.x0 + (x - c.x0) /\ 3 \in 1 .. 4
      BY <1>1, <2>1, <2>2
    <3>2. Hit(x - c.x0, 3)
      BY <2>1, <3>1
    <3> QED BY <3>1, <3>2
  <2>3. CASE x >= c.x0 + c.x1 - c.u0
    <3> DEFINE i == c.x0 + c.x1 - 1 - x
    <3>1. i \in 0 .. c.u0 - 1 /\ x = c.x0 + c.x1 - 1 - i /\ 4 \in 1 .. 4
      BY <1>1, <2>1, <2>3
    <3> HIDE DEF i
    <3>2. Hit(i, 4)
      BY <2>1, <3>1
    <3> QED BY <3>1, <3>2
  <2>4. CASE y < c.y0 + c.u0
    <3>1. y - c.y0 \in 0 .. c.u0 - 1 /\ y = c.y0 + (y - c.y0) /\ 1 \in 1 .. 4
      BY <1>1, <2>1, <2>4
    <3>2. Hit(y - c.y0, 1)
      BY <2>1, <3>1
    <3> QED BY <3>1, <3>2
  <2>5. CASE y >= c.y0 + c.y1 - c.u0
    <3> DEFINE i == c.y0 + c.y1 - 1 - y
    <3>1. i \in 0 .. c.u0 - 1 /\ y = c.y0 + c.y1 - 1 - i /\ 2 \in 1 .. 4
      BY <1>1, <2>1, <2>5
    <3> HIDE DEF i
    <3>2. Hit(i, 2)
      BY <2>1, <3>1
    <3> QED BY <3>1, <3>2
  <2> HIDE DEF inX, inY, Hit, x, y
  <2> QED BY <1>5, <1>7, <2>2, <2>3, <2>4, <2>5
<1>8. T # {} <=> \E i \in 0 .. c.u0 - 1, side \in 1 .. 4 : Hit(i, side)
  <2> HIDE DEF Hit
  <2>1. ASSUME NEW i \in 0 .. c.u0 - 1, NEW side \in 1 .. 4, Hit(i, side) PROVE T # {}
    <3>1. <<i, side>> \in T
      BY <2>1
    <3> QED BY <3>1
  <2>2. ASSUME NEW s \in T PROVE \E i \in 0 .. c.u0 - 1, side \in 1 .. 4 : Hit(i, side)
    OBVIOUS
  <2> QED BY <2>1, <2>2
<1>9. OutlineTimes(c, q) > 0 <=> ring
  <2> HIDE DEF T, Hit, ring
  <2> QED BY <1>4, <1>6, <1>7, <1>8
<1> QED BY <1>9

IsText(c) == c.x0 \in Int /\ c.y0 \in Int /\ c.u0 \in Nat /\ c.data \in Seq(Chars)

(* The pen goes from character to character as the loop moves it.          *)
LEMMA PenRuns ==
  ASSUME NEW c, IsText(c)
  PROVE  /\ Pens(c) \in [1 .. Len(c.data) + 1 -> Int \X Int]
         /\ \A i \in 1 .. Len(c.data) :
              Pens(c)[i + 1] = IF c.data[i] = "newline"
                               THEN <<c.x0, Pens(c)[i][2] + 8 * c.u0>>
                               ELSE <<Pens(c)[i][1] + 4 * c.u0 + 1, Pens(c)[i][2]>>
<1> DEFINE S == Int \X Int
           n == Len(c.data)
           first == <<c.x0, c.y0>>
           Move(i, p) == IF c.data[i] = "newline" THEN <<c.x0, p[2] + 8 * c.u0>>
                         ELSE <<p[1] + 4 * c.u0 + 1, p[2]>>
           F == [t \in Nat \X S |-> Move(t[1], t[2])]
           pen[i \in 1 .. n + 1] == IF i = 1 THEN first ELSE Move(i - 1, pen[i - 1])
<1>1. n \in Nat /\ c.x0 \in Int /\ c.y0 \in Int /\ c.u0 \in Nat
  BY DEF IsText
<1>2. ASSUME NEW i \in Nat, NEW p \in S PROVE Move(i, p) \in S
  BY <1>1
<1>3. F \in [Nat \X S -> S]
  <2> HIDE DEF Move, S
  <2> QED BY <1>2
<1>4. first \in S
  BY <1>1
<1>5. PICK v : IsRun(v, S, first, n, F)
  <2> HIDE DEF S, F, n, first, pen, Move
  <2> QED BY <1>1, <1>3, <1>4, LoopRuns
<1> DEFINE w == [i \in 1 .. n + 1 |-> v[i - 1]]
<1>6. w \in [1 .. n + 1 -> S] /\ w[1] = first
  <2>1. v \in [0 .. n -> S] /\ v[0] = first
    BY <1>5 DEF IsRun
  <2> HIDE DEF S, first, n
  <2>2. ASSUME NEW i \in 1 .. n + 1 PROVE i - 1 \in 0 .. n
    BY <1>1
  <2>3. 1 \in 1 .. n + 1 /\ 1 - 1 = 0
    BY <1>1
  <2> QED BY <2>1, <2>2, <2>3
<1>7. ASSUME NEW i \in 1 .. n + 1, i # 1 PROVE w[i] = Move(i - 1, w[i - 1])
  <2>1. i - 1 \in 1 .. n /\ i - 1 \in 1 .. n + 1 /\ (i - 1) - 1 \in 0 .. n /\ i - 1 \in Nat
    BY <1>1, <1>7
  <2>2. v \in [0 .. n -> S] /\ v[i - 1] = F[<<i - 1, v[(i - 1) - 1]>>]
    BY <1>5, <2>1 DEF IsRun
  <2>3. v[(i - 1) - 1] \in S
    BY <2>1, <2>2
  <2> HIDE DEF Move, S, n
  <2>4. v[i - 1] = Move(i - 1, v[(i - 1) - 1])
    BY <2>1, <2>2, <2>3
  <2> QED BY <2>1, <2>4
<1>8. w = [i \in 1 .. n + 1 |-> IF i = 1 THEN first ELSE Move(i - 1, w[i - 1])]
  <2> HIDE DEF Move, S, n, first, w
  <2> QED BY <1>6, <1>7
<1>9. pen = [i \in 1 .. n + 1 |-> IF i = 1 THEN first ELSE Move(i - 1, pen[i - 1])]
  <2> HIDE DEF Move, S, n, first, w
  <2> QED BY <1>8
<1>10. Pens(c) = pen
  BY DEF Pens
<1> HIDE DEF pen, n, first, Move, S
<1> DEFINE G == {i \in 1 .. n + 1 : pen[i] \in S}
<1>11. \A i \in 1 .. n + 1 : i \in G
  <2>1. 1 \in G
    BY <1>1, <1>4, <1>9
  <2>2. ASSUME NEW i \in 1 .. n + 1, i > 1, i - 1 \in G PROVE i \in G
    <3>1. pen[i] = Move(i - 1, pen[i - 1]) /\ i - 1 \in Nat /\ pen[i - 1] \in S
      BY <1>9, <2>2
    <3> QED BY <1>2, <3>1
  <2>3. 1 \in Int /\ n + 1 \in Int
    BY <1>1
  <2> HIDE DEF G
  <2> QED BY <2>1, <2>2, <2>3, IntervalInduction
<1>12. pen \in [1 .. n + 1 -> S]
  BY <1>9, <1>11
<1>13. ASSUME NEW i \in 1 .. n PROVE pen[i + 1] = Move(i, pen[i])
  <2>1. i + 1 \in 1 .. n + 1 /\ i + 1 # 1 /\ (i + 1) - 1 = i
    BY <1>1
  <2>2. pen[i + 1] = Move((i + 1) - 1, pen[(i + 1) - 1])
    BY <1>9, <2>1
  <2> QED BY <2>1, <2>2
<1> QED BY <1>10, <1>12, <1>13 DEF n, S, Move

(* Each block of a text lies to the right of the earlier ones in its row,  *)
(* or in a lower row.                                                      *)
LEMMA BlocksApart ==
  ASSUME NEW c, IsText(c), NEW i \in 1 .. Len(c.data), c.data[i] = "ink"
  PROVE  \A j \in i + 1 .. Len(c.data) :
           \/ Pens(c)[j][2] = Pens(c)[i][2] /\ Pens(c)[j][1] >= Pens(c)[i][1] + 4 * c.u0 + 1
           \/ Pens(c)[j][2] >= Pens(c)[i][2] + 8 * c.u0
<1> DEFINE pen == Pens(c)
           n == Len(c.data)
           x == pen[i][1]
           y == pen[i][2]
           G == {j \in i + 1 .. n : \/ pen[j][2] = y /\ pen[j][1] >= x + 4 * c.u0 + 1
                                    \/ pen[j][2] >= y + 8 * c.u0}
<1>1. n \in Nat /\ c.u0 \in Nat /\ c.x0 \in Int
  BY DEF IsText
<1>2. pen \in [1 .. n + 1 -> Int \X Int]
  BY PenRuns
<1>3. ASSUME NEW j \in 1 .. n
      PROVE  pen[j + 1] = IF c.data[j] = "newline" THEN <<c.x0, pen[j][2] + 8 * c.u0>>
                          ELSE <<pen[j][1] + 4 * c.u0 + 1, pen[j][2]>>
  BY PenRuns
<1>4. pen[i] \in Int \X Int /\ x \in Int /\ y \in Int
  <2>1. i \in 1 .. n + 1
    BY <1>1
  <2> QED BY <1>2, <2>1
<1> SUFFICES ASSUME i + 1 <= n PROVE \A j \in i + 1 .. n : j \in G
  BY <1>1
<1>5. i + 1 \in G
  <2>1. pen[i + 1] = <<x + 4 * c.u0 + 1, y>>
    BY <1>3
  <2>2. i + 1 \in i + 1 .. n
    BY <1>1
  <2> HIDE DEF pen
  <2> QED BY <1>1, <1>4, <2>1, <2>2
<1>6. ASSUME NEW j \in i + 1 .. n, j > i + 1, j - 1 \in G PROVE j \in G
  <2> DEFINE k == j - 1
  <2>1. k \in 1 .. n /\ k \in 1 .. n + 1 /\ k + 1 = j
    BY <1>1, <1>6
  <2>2. pen[k] \in Int \X Int
    BY <1>2, <2>1
  <2>3. pen[j] = IF c.data[k] = "newline" THEN <<c.x0, pen[k][2] + 8 * c.u0>>
                 ELSE <<pen[k][1] + 4 * c.u0 + 1, pen[k][2]>>
    BY <1>3, <2>1
  <2>4. \/ pen[k][2] = y /\ pen[k][1] >= x + 4 * c.u0 + 1
        \/ pen[k][2] >= y + 8 * c.u0
    BY <1>6
  <2> DEFINE u == pen[k][1]
             v == pen[k][2]
  <2>5. u \in Int /\ v \in Int
    BY <2>2
  <2> HIDE DEF k, pen, x, y, n, u, v
  <2>6. CASE c.data[k] = "newline"
    <3>1. pen[j][2] = v + 8 * c.u0
      BY <2>3, <2>6 DEF v
    <3>2. v + 8 * c.u0 >= y + 8 * c.u0
      BY <1>1, <1>4, <2>4, <2>5 DEF u, v
    <3> QED BY <3>1, <3>2
  <2>7. CASE c.data[k] # "newline"
    <3>1. pen[j][2] = v /\ pen[j][1] = u + 4 * c.u0 + 1
      BY <2>3, <2>7 DEF u, v
    <3>2. \/ v = y /\ u + 4 * c.u0 + 1 >= x + 4 * c.u0 + 1
          \/ v >= y + 8 * c.u0
      BY <1>1, <1>4, <2>4, <2>5 DEF u, v
    <3> QED BY <3>1, <3>2
  <2> QED BY <2>6, <2>7
<1>7. i + 1 \in Int /\ n \in Int
  BY <1>1
<1> HIDE DEF G, n
<1> QED BY <1>5, <1>6, <1>7, IntervalInduction

(* A text writes no pixel twice.                                           *)
LEMMA TextWritesOnce ==
  ASSUME NEW c, IsText(c), NEW q \in Int \X Int
  PROVE  TextTimes(c, q) <= 1
<1> DEFINE pen == Pens(c)
           n == Len(c.data)
           T == {i \in 1 .. n : c.data[i] = "ink"
                                /\ InRect(q, pen[i][1], pen[i][2], 4 * c.u0, 6 * c.u0)}
<1>1. n \in Nat /\ c.u0 \in Nat
  BY DEF IsText
<1>2. TextTimes(c, q) = Cardinality(T)
  BY DEF TextTimes
<1>3. ASSUME NEW i \in T, NEW j \in T, i < j PROVE FALSE
  <2>1. j \in i + 1 .. n /\ i \in 1 .. n + 1 /\ j \in 1 .. n + 1
    BY <1>1, <1>3
  <2>2. pen[i] \in Int \X Int /\ pen[j] \in Int \X Int
    BY <2>1, PenRuns
  <2>3. \/ pen[j][2] = pen[i][2] /\ pen[j][1] >= pen[i][1] + 4 * c.u0 + 1
        \/ pen[j][2] >= pen[i][2] + 8 * c.u0
    BY <2>1, BlocksApart
  <2>4. InRect(q, pen[i][1], pen[i][2], 4 * c.u0, 6 * c.u0)
        /\ InRect(q, pen[j][1], pen[j][2], 4 * c.u0, 6 * c.u0)
    OBVIOUS
  <2> HIDE DEF pen, T, n
  <2> QED BY <1>1, <2>2, <2>3, <2>4 DEF InRect
<1>4. \A i, j \in T : i = j
  <2>1. T \subseteq Int
    OBVIOUS
  <2> HIDE DEF T
  <2> QED BY <1>3, <2>1
<1>5. IsFiniteSet(1 .. n) /\ T \in SUBSET (1 .. n)
  <2>1. 1 \in Int /\ n \in Int
    BY <1>1
  <2> QED BY <2>1, IntervalIsFinite
<1> HIDE DEF T, n
<1> QED BY <1>2, <1>4, <1>5, Count

(* A rectangle, a line or a text writes no pixel twice, so a translucent   *)
(* one is blended evenly.                                                  *)
THEOREM EvenlyBlended ==
  ASSUME NEW c, IsCmd(c), NEW q \in Int \X Int,
         c.op \in {"FillRect", "BlendRect", "Line", "HLine", "VLine", "Text"}
  PROVE  Times(c, q) <= 1
<1>1. CASE c.op \in {"FillRect", "BlendRect", "HLine", "VLine"}
  BY <1>1 DEF Times
<1>2. CASE c.op = "Line"
  <2>1. IsLine(c) /\ DX(c) \in Nat /\ DY(c) \in Nat
    BY LineConstants DEF IsLine, IsCmd
  <2> DEFINE p == LinePoints(c)
             n == IF DX(c) >= DY(c) THEN DX(c) ELSE DY(c)
             T == {k \in DOMAIN p : p[k] = q}
  <2>2. /\ n + 1 \in Int /\ DOMAIN p = 1 .. n + 1
        /\ \A k, l \in 1 .. n + 1 : p[k] = p[l] => k = l
    BY <2>1, LineIsStraight DEF LineShape
  <2>3. Times(c, q) = Cardinality(T)
    BY <1>2 DEF Times
  <2> HIDE DEF n, p
  <2>4. IsFiniteSet(DOMAIN p) /\ T \in SUBSET DOMAIN p /\ \A x, y \in T : x = y
    <3>1. 1 \in Int
      OBVIOUS
    <3> QED BY <2>2, <3>1, IntervalIsFinite
  <2> HIDE DEF T
  <2> QED BY <2>3, <2>4, Count
<1>3. CASE c.op = "Text"
  <2>1. IsText(c)
    BY <1>3 DEF IsText, IsCmd
  <2>2. Times(c, q) = TextTimes(c, q)
    BY <1>3 DEF Times
  <2> QED BY <2>1, <2>2, TextWritesOnce
<1> QED BY <1>1, <1>2, <1>3

-----------------------------------------------------------------------------
(* Circles.  As long as x has not passed y, the loop goes one row further  *)
(* in every turn, and x at most one column back.                           *)

(* The states of the loop.                                                 *)
ArcState == [x : Int, y : Int, err : Int]

(* What holds of one of them: err is what x * x + y * y misses of r * r,   *)
(* but for the 2 * y that the code counts on top.                          *)
OnArc(s, r) ==
  /\ s.err = s.x * s.x + s.y * s.y + 2 * s.y - r * r
  /\ s.x <= r /\ 0 <= s.y
  /\ s.x >= s.y => -(2 * s.x) <= s.err /\ s.err <= 0

(* A turn of the loop.                                                     *)
LEMMA ArcTurn ==
  ASSUME NEW r \in Nat, NEW s \in ArcState, OnArc(s, r)
  PROVE  /\ ArcStep(s) \in ArcState /\ OnArc(ArcStep(s), r)
         /\ ArcStep(s).x <= s.x /\ ArcStep(s).y >= s.y
         /\ s.x >= s.y => ArcStep(s).y = s.y + 1 /\ ArcStep(s).x \in {s.x - 1, s.x}
<1> DEFINE x == s.x
           y == s.y
           e == s.err
           t == ArcStep(s)
           d == IF e <= 0 THEN e + 2 * (y + 1) + 1 ELSE e
<1>1. x \in Int /\ y \in Int /\ e \in Int
  BY DEF ArcState
<1>2. t = [x |-> IF d > 0 THEN x - 1 ELSE x, y |-> IF e <= 0 THEN y + 1 ELSE y,
           err |-> IF d > 0 THEN d - (2 * (IF d > 0 THEN x - 1 ELSE x) + 1) ELSE d]
  BY <1>1 DEF ArcStep
<1> DEFINE xx == x * x
           yy == y * y
           rr == r * r
<1>3. xx \in Int /\ yy \in Int /\ rr \in Int
  BY <1>1
<1>4. (x - 1) * (x - 1) = xx - 2 * x + 1 /\ (y + 1) * (y + 1) = yy + 2 * y + 1
  BY <1>1
<1>5. /\ e = xx + yy + 2 * y - rr /\ x <= r /\ 0 <= y
      /\ x >= y => -(2 * x) <= e /\ e <= 0
  BY DEF OnArc
<1>6. /\ t.x = (IF d > 0 THEN x - 1 ELSE x) /\ t.y = (IF e <= 0 THEN y + 1 ELSE y)
      /\ t.err = IF d > 0 THEN d - (2 * (x - 1) + 1) ELSE d
  BY <1>1, <1>2
<1>7. t.x * t.x = (IF d > 0 THEN xx - 2 * x + 1 ELSE xx)
      /\ t.y * t.y = (IF e <= 0 THEN yy + 2 * y + 1 ELSE yy)
  BY <1>1, <1>4, <1>6
<1>8. t \in ArcState
  BY <1>1, <1>2 DEF ArcState
<1> HIDE DEF xx, yy, rr, x, y, e, t
<1>9. OnArc(t, r)
  <2>1. t.err = (t.x * t.x) + (t.y * t.y) + 2 * t.y - rr
    BY <1>1, <1>3, <1>5, <1>6, <1>7
  <2>2. t.x <= r /\ 0 <= t.y /\ (t.x >= t.y => -(2 * t.x) <= t.err /\ t.err <= 0)
    BY <1>1, <1>3, <1>5, <1>6
  <2> QED BY <2>1, <2>2 DEF OnArc, rr
<1>10. t.x <= x /\ t.y >= y /\ (x >= y => t.y = y + 1 /\ t.x \in {x - 1, x})
  BY <1>1, <1>5, <1>6
<1> QED BY <1>8, <1>9, <1>10 DEF x, y, t

(* The points of an arc, from the first one to where it meets the          *)
(* diagonal.                                                               *)
ArcShape(s, r) ==
  /\ s \in [0 .. r -> ArcState] /\ s[0] = [x |-> r, y |-> 0, err |-> 0]
  /\ \A k \in 0 .. r : OnArc(s[k], r)
  /\ \A k \in 1 .. r : s[k] = ArcStep(s[k - 1])

(* The loop's states are like that, for every radius.                      *)
LEMMA ArcRuns ==
  ASSUME NEW r \in Nat
  PROVE  ArcShape(ArcStates(r), r)
<1> DEFINE S == {t \in ArcState : OnArc(t, r)}
           F == [t \in Nat \X S |-> ArcStep(t[2])]
           a == [x |-> r, y |-> 0, err |-> 0]
           s[k \in 0 .. r] == IF k = 0 THEN a ELSE ArcStep(s[k - 1])
<1>1. a \in S
  <2>1. a \in ArcState /\ a.x = r /\ a.y = 0 /\ a.err = 0
    BY DEF ArcState
  <2>2. r * r \in Int /\ 0 * 0 = 0
    OBVIOUS
  <2> HIDE DEF a
  <2>3. OnArc(a, r)
    BY <2>1, <2>2 DEF OnArc
  <2> QED BY <2>1, <2>3
<1>2. \A t \in S : ArcStep(t) \in S
  BY ArcTurn
<1>3. F \in [Nat \X S -> S]
  <2> HIDE DEF S
  <2> QED BY <1>2
<1>4. PICK v : IsRun(v, S, a, r, F)
  <2> HIDE DEF S, F, a
  <2> QED BY <1>1, <1>3, LoopRuns
<1>5. v = [k \in 0 .. r |-> IF k = 0 THEN a ELSE ArcStep(v[k - 1])]
  <2>1. ASSUME NEW k \in 0 .. r, k # 0 PROVE v[k] = ArcStep(v[k - 1])
    <3>1. k - 1 \in 0 .. r /\ k \in 1 .. r /\ k \in Nat
      BY <2>1
    <3>2. v[k - 1] \in S
      <4> HIDE DEF S, F, a
      <4> QED BY <1>4, <3>1 DEF IsRun
    <3>3. F[<<k, v[k - 1]>>] = ArcStep(v[k - 1])
      <4> HIDE DEF S
      <4> QED BY <3>1, <3>2
    <3> HIDE DEF F, S, a
    <3> QED BY <1>4, <3>1, <3>3 DEF IsRun
  <2> HIDE DEF F, S, a
  <2> QED BY <1>4, <2>1 DEF IsRun
<1>6. s = [k \in 0 .. r |-> IF k = 0 THEN a ELSE ArcStep(s[k - 1])]
  BY <1>5
<1>7. ArcStates(r) = s
  BY DEF ArcStates
<1> HIDE DEF s
<1>8. s[0] = a
  BY <1>6
<1>9. ASSUME NEW k \in 1 .. r PROVE s[k] = ArcStep(s[k - 1])
  <2>1. k \in 0 .. r /\ k # 0
    OBVIOUS
  <2> HIDE DEF a
  <2> QED BY <1>6, <2>1
<1> DEFINE G == {k \in 0 .. r : s[k] \in S}
<1>10. \A k \in 0 .. r : k \in G
  <2>1. 0 \in G
    BY <1>1, <1>8
  <2>2. ASSUME NEW k \in 0 .. r, k > 0, k - 1 \in G PROVE k \in G
    <3>1. k \in 1 .. r /\ s[k - 1] \in S
      BY <2>2
    <3> HIDE DEF S
    <3> QED BY <1>2, <1>9, <3>1
  <2>3. 0 \in Int /\ r \in Int
    OBVIOUS
  <2> HIDE DEF G
  <2> QED BY <2>1, <2>2, <2>3, IntervalInduction
<1>11. DOMAIN s = 0 .. r /\ s = [k \in 0 .. r |-> s[k]]
  <2> HIDE DEF a
  <2> QED BY <1>6
<1>12. s \in [0 .. r -> ArcState] /\ \A k \in 0 .. r : OnArc(s[k], r)
  BY <1>10, <1>11
<1> QED BY <1>7, <1>8, <1>9, <1>12 DEF ArcShape

(* The arc has one point in each of the rows 0 .. n, in column X[row]: it  *)
(* begins at the radius, moves one column at most from row to row, ends on *)
(* or beside the diagonal, and each point is just within the radius.       *)
IsEighth(r, n, X) ==
  /\ n \in Nat /\ X \in [0 .. n -> Int] /\ X[0] = r
  /\ \A k \in 0 .. n : /\ k <= X[k] /\ X[k] <= r
                       /\ X[k] * X[k] + k * k + 2 * k <= r * r
                       /\ r * r <= X[k] * X[k] + k * k + 2 * k + 2 * X[k]
  /\ \A k \in 1 .. n : X[k] \in {X[k - 1] - 1, X[k - 1]}
  /\ X[n] \in {n, n + 1}
  /\ \A p \in Arc(r) : p.y \in 0 .. n /\ p.x = X[p.y]
  /\ \A k \in 0 .. n : \E p \in Arc(r) : p.y = k /\ p.x = X[k]

(* The loop of execute_tile_() makes such an arc, for every radius.        *)
LEMMA ArcIsEighth ==
  ASSUME NEW r \in Nat \ {0}
  PROVE  \E n, X : IsEighth(r, n, X)
<1> DEFINE s == ArcStates(r)
           In(k) == s[k].x >= s[k].y
           T == {k \in 0 .. r : ~In(k)}
<1>1. /\ s \in [0 .. r -> ArcState] /\ s[0] = [x |-> r, y |-> 0, err |-> 0]
      /\ \A k \in 0 .. r : OnArc(s[k], r)
      /\ \A k \in 1 .. r : s[k] = ArcStep(s[k - 1])
  BY ArcRuns DEF ArcShape
<1>2. \A k \in 0 .. r : s[k].x \in Int /\ s[k].y \in Int /\ s[k].err \in Int
  BY <1>1 DEF ArcState
<1>3. s[0].x = r /\ s[0].y = 0
  BY <1>1
<1> HIDE DEF s
<1>4. ASSUME NEW k \in 1 .. r
      PROVE  /\ k - 1 \in 0 .. r /\ k \in 0 .. r
             /\ s[k].x <= s[k - 1].x /\ s[k].y >= s[k - 1].y
             /\ In(k - 1) => s[k].y = s[k - 1].y + 1 /\ s[k].x \in {s[k - 1].x - 1, s[k - 1].x}
  <2>1. k - 1 \in 0 .. r /\ k \in 0 .. r
    OBVIOUS
  <2>2. s[k - 1] \in ArcState /\ OnArc(s[k - 1], r) /\ s[k] = ArcStep(s[k - 1])
    BY <1>1, <2>1
  <2> QED BY <2>1, <2>2, ArcTurn
<1>5. ASSUME NEW k \in 1 .. r, In(k) PROVE In(k - 1)
  BY <1>2, <1>4, <1>5
<1> DEFINE G == {k \in 0 .. r : In(k) => s[k].y = k}
<1>6. \A k \in 0 .. r : k \in G
  <2>1. 0 \in G
    BY <1>3
  <2>2. ASSUME NEW k \in 0 .. r, k > 0, k - 1 \in G PROVE k \in G
    <3>1. k \in 1 .. r
      BY <2>2
    <3>2. ASSUME In(k) PROVE s[k].y = k
      <4>1. In(k - 1)
        BY <1>5, <3>1, <3>2
      <4>2. s[k - 1].y = k - 1
        BY <2>2, <4>1
      <4> HIDE DEF In
      <4> QED BY <1>4, <3>1, <4>1, <4>2 DEF In
    <3> QED BY <3>2
  <2>3. 0 \in Int /\ r \in Int
    OBVIOUS
  <2> HIDE DEF G
  <2> QED BY <2>1, <2>2, <2>3, IntervalInduction
<1>7. ASSUME NEW k \in 0 .. r, In(k)
      PROVE  /\ s[k].y = k /\ k <= s[k].x /\ s[k].x <= r
             /\ (s[k].x * s[k].x) + (k * k) + 2 * k <= r * r
             /\ r * r <= (s[k].x * s[k].x) + (k * k) + 2 * k + 2 * s[k].x
  <2> DEFINE x == s[k].x
             xx == s[k].x * s[k].x
             kk == k * k
             rr == r * r
             e == s[k].err
  <2>1. s[k].y = k
    BY <1>6, <1>7
  <2>2. OnArc(s[k], r)
    BY <1>1
  <2>3. e = xx + kk + 2 * k - rr /\ x <= r /\ x >= k /\ -(2 * x) <= e /\ e <= 0
    BY <1>7, <2>1, <2>2 DEF OnArc
  <2>4. x \in Int /\ xx \in Int /\ kk \in Int /\ rr \in Int /\ e \in Int
    BY <1>2
  <2> HIDE DEF x, xx, kk, rr, e
  <2>5. xx + kk + 2 * k <= rr /\ rr <= xx + kk + 2 * k + 2 * x
    BY <2>3, <2>4
  <2> QED BY <2>1, <2>3, <2>5 DEF x, xx, kk, rr, e
<1>8. ~In(r)
  <2> SUFFICES ASSUME In(r) PROVE FALSE
    OBVIOUS
  <2>1. r \in 0 .. r
    OBVIOUS
  <2>2. s[r].x = r /\ (s[r].x * s[r].x) + (r * r) + 2 * r <= r * r
    BY <1>2, <1>7, <2>1
  <2> DEFINE rr == r * r
  <2>3. rr \in Nat /\ rr + rr + 2 * r <= rr
    BY <2>2
  <2> HIDE DEF rr
  <2> QED BY <2>3
<1>9. PICK m \in T : \A k \in T : m <= k
  <2>1. T \in SUBSET Nat /\ r \in T
    BY <1>8
  <2> HIDE DEF T
  <2> QED BY <2>1, LeastNumber
<1> DEFINE n == m - 1
           X == [k \in 0 .. n |-> s[k].x]
<1>10. m \in 1 .. r /\ n \in Nat /\ n \in 0 .. r /\ n + 1 = m /\ 0 .. n \subseteq 0 .. r
  <2>1. m \in 0 .. r /\ m # 0
    BY <1>3, <1>9
  <2> QED BY <2>1
<1>11. ASSUME NEW k \in 0 .. n PROVE k \in 0 .. r /\ In(k) /\ X[k] = s[k].x
  <2>1. k \in 0 .. r /\ k < m
    BY <1>10
  <2>2. k \notin T
    BY <1>9, <1>10, <2>1
  <2> QED BY <2>1, <2>2
<1>12. ASSUME NEW k \in 0 .. r, k > n PROVE ~In(k)
  <2> DEFINE H == {j \in m .. r : ~In(j)}
  <2>1. m \in H
    BY <1>9, <1>10
  <2>2. ASSUME NEW j \in m .. r, j > m, j - 1 \in H PROVE j \in H
    <3>1. j \in 1 .. r
      BY <1>10
    <3> QED BY <1>5, <2>2, <3>1
  <2>3. m \in Int /\ r \in Int /\ k \in m .. r
    BY <1>10, <1>12
  <2>4. k \in H
    <3> HIDE DEF H
    <3> QED BY <2>1, <2>2, <2>3, IntervalInduction
  <2> QED BY <2>4
<1> HIDE DEF n, T
<1>13. X \in [0 .. n -> Int] /\ X[0] = r
  BY <1>2, <1>3, <1>10
<1>14. \A k \in 0 .. n : /\ k <= X[k] /\ X[k] <= r
                         /\ X[k] * X[k] + k * k + 2 * k <= r * r
                         /\ r * r <= X[k] * X[k] + k * k + 2 * k + 2 * X[k]
  <2> HIDE DEF In, X
  <2> QED BY <1>7, <1>11
<1>15. ASSUME NEW k \in 1 .. n PROVE X[k] \in {X[k - 1] - 1, X[k - 1]}
  <2>1. k \in 1 .. r /\ k \in 0 .. n /\ k - 1 \in 0 .. n
    BY <1>10
  <2> HIDE DEF In, X
  <2> QED BY <1>4, <1>11, <2>1
<1>16. X[n] \in {n, n + 1}
  <2>1. n \in 0 .. n /\ m \in 0 .. r /\ n = m - 1 /\ m > n
    BY <1>10
  <2>2. In(n) /\ X[n] = s[n].x /\ s[n].y = n /\ n <= s[n].x
    <3> HIDE DEF In, X
    <3> QED BY <1>7, <1>11, <2>1
  <2>3. s[m].y = n + 1 /\ s[m].x \in {s[n].x - 1, s[n].x} /\ ~(s[m].x >= s[m].y)
    BY <1>4, <1>10, <1>12, <2>1, <2>2
  <2>4. s[n].x \in Int /\ s[m].x \in Int
    BY <1>2, <1>10, <2>1
  <2> HIDE DEF X
  <2> QED BY <2>1, <2>2, <2>3, <2>4, <1>10
<1>17. Arc(r) = {s[k] : k \in {i \in 0 .. r : In(i)}}
  BY DEF Arc, s
<1>18. ASSUME NEW p \in Arc(r) PROVE p.y \in 0 .. n /\ p.x = X[p.y]
  <2>1. PICK k \in 0 .. r : In(k) /\ p = s[k]
    BY <1>17
  <2>2. k \in 0 .. n
    <3> HIDE DEF In
    <3> QED BY <1>10, <1>12, <2>1
  <2> HIDE DEF In, X
  <2> QED BY <1>7, <1>11, <2>1, <2>2
<1>19. ASSUME NEW k \in 0 .. n PROVE \E p \in Arc(r) : p.y = k /\ p.x = X[k]
  <2>1. k \in 0 .. r /\ In(k) /\ X[k] = s[k].x
    BY <1>11
  <2>2. s[k] \in Arc(r)
    BY <1>17, <2>1
  <2> HIDE DEF In, X
  <2> QED BY <1>7, <2>1, <2>2
<1> HIDE DEF X
<1>20. IsEighth(r, n, X)
  BY <1>10, <1>13, <1>14, <1>15, <1>16, <1>18, <1>19 DEF IsEighth
<1> QED BY <1>20

(* A pixel of the circle, seen from its centre: one of its coordinates is  *)
(* a row of the arc and the other the column, up to their signs.           *)
OnCircle(n, X, a, b) ==
  \/ AbsVal(b) \in 0 .. n /\ AbsVal(a) = X[AbsVal(b)]
  \/ AbsVal(a) \in 0 .. n /\ AbsVal(b) = X[AbsVal(a)]

(* The pixels of a circle.                                                 *)
Circle(c) == {Octants(c, p)[i] : p \in Arc(c.x1), i \in 1 .. 8}

(* plot8() writes all of them and no others.                               *)
LEMMA CircleIs ==
  ASSUME NEW c, c.x0 \in Int, c.y0 \in Int, NEW n, NEW X, IsEighth(c.x1, n, X)
  PROVE  /\ \A a, b \in Int : <<c.x0 + a, c.y0 + b>> \in Circle(c) <=> OnCircle(n, X, a, b)
         /\ \A q \in Circle(c) : \E a, b \in Int : q = <<c.x0 + a, c.y0 + b>>
<1> DEFINE x0 == c.x0
           y0 == c.y0
<1>1. n \in Nat /\ X \in [0 .. n -> Int] /\ \A k \in 0 .. n : 0 <= k /\ k <= X[k]
  BY DEF IsEighth
<1>2. \A p \in Arc(c.x1) : p.y \in 0 .. n /\ p.x = X[p.y]
  BY DEF IsEighth
<1>3. \A k \in 0 .. n : \E p \in Arc(c.x1) : p.y = k /\ p.x = X[k]
  BY DEF IsEighth
<1>4. ASSUME NEW p \in Arc(c.x1), NEW i \in 1 .. 8
      PROVE  \E a, b \in Int : /\ Octants(c, p)[i] = <<x0 + a, y0 + b>>
                               /\ OnCircle(n, X, a, b)
  <2> DEFINE x == p.x
             y == p.y
  <2>1. x \in Nat /\ y \in 0 .. n /\ x = X[y]
    <3>1. p.y \in 0 .. n /\ p.x = X[p.y]
      BY <1>2
    <3> QED BY <1>1, <3>1
  <2>2. Octants(c, p) =
          << <<x0 + x, y0 + y>>, <<x0 + y, y0 + x>>, <<x0 - y, y0 + x>>, <<x0 - x, y0 + y>>,
             <<x0 - x, y0 - y>>, <<x0 - y, y0 - x>>, <<x0 + y, y0 - x>>, <<x0 + x, y0 - y>> >>
    BY DEF Octants
  <2> HIDE DEF x, y
  <2> DEFINE A(a, b) == <<x0 + a, y0 + b>>
  <2>3. x0 \in Int /\ y0 \in Int
    OBVIOUS
  <2> HIDE DEF x0, y0
  <2>4. PICK a \in {x, y, -x, -y}, b \in {x, y, -x, -y} :
          /\ Octants(c, p)[i] = <<x0 + a, y0 + b>>
          /\ (a \in {x, -x} /\ b \in {y, -y}) \/ (a \in {y, -y} /\ b \in {x, -x})
    <3>1. y \in Nat /\ x \in Nat
      BY <1>1, <2>1
    <3>2. x0 - x = x0 + (-x) /\ x0 - y = x0 + (-y) /\ y0 - x = y0 + (-x) /\ y0 - y = y0 + (-y)
      BY <2>3, <3>1
    <3>3. i = 1 \/ i = 2 \/ i = 3 \/ i = 4 \/ i = 5 \/ i = 6 \/ i = 7 \/ i = 8
      OBVIOUS
    <3> QED BY <2>2, <3>2, <3>3
  <2>5. a \in Int /\ b \in Int
    BY <1>1, <2>1
  <2>6. (AbsVal(a) = x /\ AbsVal(b) = y) \/ (AbsVal(a) = y /\ AbsVal(b) = x)
    <3>1. y \in Nat /\ x \in Nat
      BY <1>1, <2>1
    <3>2. \A w \in Nat : AbsVal(w) = w /\ AbsVal(-w) = w
      BY DEF AbsVal
    <3>3. AbsVal(x) = x /\ AbsVal(-x) = x /\ AbsVal(y) = y /\ AbsVal(-y) = y
      BY <3>1, <3>2
    <3> QED BY <2>4, <3>3
  <2>7. OnCircle(n, X, a, b)
    BY <2>1, <2>6 DEF OnCircle
  <2> QED BY <2>4, <2>5, <2>7
<1>5. ASSUME NEW a \in Int, NEW b \in Int, OnCircle(n, X, a, b)
      PROVE  <<x0 + a, y0 + b>> \in Circle(c)
  <2>1. PICK k \in 0 .. n : \/ AbsVal(b) = k /\ AbsVal(a) = X[k]
                            \/ AbsVal(a) = k /\ AbsVal(b) = X[k]
    BY <1>5 DEF OnCircle
  <2>2. PICK p \in Arc(c.x1) : p.y = k /\ p.x = X[k]
    BY <1>3
  <2>3. p.x \in Nat /\ p.y \in Nat
    BY <1>1, <2>2
  <2> DEFINE x == p.x
             y == p.y
  <2>4. /\ Octants(c, p)[1] = <<x0 + x, y0 + y>> /\ Octants(c, p)[2] = <<x0 + y, y0 + x>>
        /\ Octants(c, p)[3] = <<x0 - y, y0 + x>> /\ Octants(c, p)[4] = <<x0 - x, y0 + y>>
        /\ Octants(c, p)[5] = <<x0 - x, y0 - y>> /\ Octants(c, p)[6] = <<x0 - y, y0 - x>>
        /\ Octants(c, p)[7] = <<x0 + y, y0 - x>> /\ Octants(c, p)[8] = <<x0 + x, y0 - y>>
    BY DEF Octants
  <2>5. \A i \in 1 .. 8 : Octants(c, p)[i] \in Circle(c)
    BY DEF Circle
  <2>6. (AbsVal(b) = y /\ AbsVal(a) = x) \/ (AbsVal(a) = y /\ AbsVal(b) = x)
    BY <2>1, <2>2
  <2>7. x \in Nat /\ y \in Nat /\ x0 \in Int /\ y0 \in Int
    BY <2>3
  <2> HIDE DEF x, y, x0, y0
  <2>8. \E i \in 1 .. 8 : Octants(c, p)[i] = <<x0 + a, y0 + b>>
    <3>1. \/ a \in {x, -x} /\ b \in {y, -y}
          \/ a \in {y, -y} /\ b \in {x, -x}
      <4>1. \A w \in Int : w = AbsVal(w) \/ w = -AbsVal(w)
        BY DEF AbsVal
      <4> QED BY <2>6, <4>1
    <3>2. x0 - x = x0 + (-x) /\ x0 - y = x0 + (-y) /\ y0 - x = y0 + (-x) /\ y0 - y = y0 + (-y)
      BY <2>7
    <3> QED BY <2>4, <3>1, <3>2
  <2> QED BY <2>5, <2>8
<1>6. ASSUME NEW a \in Int, NEW b \in Int, <<x0 + a, y0 + b>> \in Circle(c)
      PROVE  OnCircle(n, X, a, b)
  <2>1. PICK p \in Arc(c.x1), i \in 1 .. 8 : <<x0 + a, y0 + b>> = Octants(c, p)[i]
    BY <1>6 DEF Circle
  <2>2. PICK d, e \in Int : Octants(c, p)[i] = <<x0 + d, y0 + e>> /\ OnCircle(n, X, d, e)
    BY <1>4
  <2>3. a = d /\ b = e
    <3>1. x0 + a = x0 + d /\ y0 + b = y0 + e
      BY <2>1, <2>2
    <3>2. x0 \in Int /\ y0 \in Int
      OBVIOUS
    <3> HIDE DEF x0, y0
    <3> QED BY <3>1, <3>2
  <2> QED BY <2>2, <2>3
<1>7. ASSUME NEW q \in Circle(c) PROVE \E a, b \in Int : q = <<x0 + a, y0 + b>>
  <2>1. PICK p \in Arc(c.x1), i \in 1 .. 8 : q = Octants(c, p)[i]
    BY DEF Circle
  <2> QED BY <1>4, <2>1
<1> QED BY <1>5, <1>6, <1>7

(* No pixel of the circle is outside the radius, or more than a pixel and  *)
(* a half within it.                                                       *)
LEMMA EighthIsRound ==
  ASSUME NEW r \in Nat \ {0}, NEW n, NEW X, IsEighth(r, n, X),
         NEW a \in Int, NEW b \in Int, OnCircle(n, X, a, b)
  PROVE  /\ a * a + b * b <= r * r
         /\ r > 1 => 4 * (a * a + b * b) >= (2 * r - 3) * (2 * r - 3)
<1>1. PICK k \in 0 .. n : \/ AbsVal(b) = k /\ AbsVal(a) = X[k]
                          \/ AbsVal(a) = k /\ AbsVal(b) = X[k]
  BY DEF OnCircle
<1> DEFINE x == X[k]
           xx == x * x
           kk == k * k
           rr == r * r
           d == xx + kk
           s == x + k
           m == 2 * r - 3
<1>2. x \in Nat /\ k \in Nat
  <2>1. n \in Nat /\ X \in [0 .. n -> Int] /\ k <= X[k]
    BY DEF IsEighth
  <2> QED BY <2>1
<1>3. d + 2 * k <= rr /\ rr <= d + 2 * s
  <2>1. /\ x * x + k * k + 2 * k <= r * r
        /\ r * r <= x * x + k * k + 2 * k + 2 * x
    BY DEF IsEighth
  <2>2. xx \in Nat /\ kk \in Nat /\ rr \in Nat
    BY <1>2
  <2>3. xx + kk + 2 * k <= rr /\ rr <= xx + kk + 2 * k + 2 * x
    BY <2>1
  <2> HIDE DEF xx, kk, rr, x
  <2> QED BY <1>2, <2>2, <2>3
<1>4. xx \in Nat /\ kk \in Nat /\ rr \in Nat /\ s \in Nat /\ m \in Int
  BY <1>2
<1>5. a * a + b * b = d
  <2>1. \A i \in Int : AbsVal(i) * AbsVal(i) = i * i /\ i * i \in Nat
    BY DEF AbsVal
  <2>2. (a * a = xx /\ b * b = kk) \/ (a * a = kk /\ b * b = xx)
    BY <1>1, <2>1
  <2> HIDE DEF xx, kk
  <2> QED BY <1>4, <2>1, <2>2
<1>6. ASSUME r > 1, 4 * d < m * m PROVE FALSE
  <2> DEFINE mm == m * m
             ss == s * s
  <2>1. mm = 4 * rr - 12 * r + 9 /\ m \in Nat /\ mm \in Nat /\ m > 0
    BY <1>6
  <2>2. ss <= 2 * d
    <3> DEFINE y == x - k
               xk == x * k
    <3>1. y * y >= 0 /\ xk \in Nat
      BY <1>2
    <3>2. y * y = xx - 2 * xk + kk /\ ss = xx + 2 * xk + kk
      BY <1>2
    <3> HIDE DEF y, xk, xx, kk, ss
    <3> QED BY <1>4, <3>1, <3>2
  <2>3. ss \in Nat
    BY <1>4
  <2>4. 16 * ss < 9 * mm
    <3> HIDE DEF ss, mm, xx, kk
    <3> QED BY <1>4, <1>6, <2>1, <2>2, <2>3 DEF mm
  <2>5. 4 * s < 3 * m
    <3> SUFFICES ASSUME 3 * m <= 4 * s PROVE FALSE
      BY <1>4
    <3> DEFINE u == 3 * m
               v == 4 * s
    <3>1. u \in Nat /\ v \in Nat /\ u <= v
      BY <1>4, <2>1
    <3>2. u * u = 9 * mm /\ v * v = 16 * ss
      BY <1>4
    <3>3. u * u <= v * v
      <4> HIDE DEF u, v
      <4>1. u * u <= u * v /\ u * v <= v * v
        BY <3>1
      <4> QED BY <3>1, <4>1
    <3> HIDE DEF u, v, ss, mm
    <3> QED BY <2>1, <2>3, <2>4, <3>2, <3>3
  <2>6. 4 * d + 8 * s >= 4 * rr
    <3> HIDE DEF xx, kk, rr, s
    <3> QED BY <1>3, <1>4
  <2>7. 4 * d < mm
    BY <1>6
  <2>8. r = r /\ 2 * r = m + 3 /\ d \in Nat /\ r \in Nat
    BY <1>4
  <2> HIDE DEF mm, m, rr, s, d
  <2> QED BY <1>4, <2>1, <2>5, <2>6, <2>7, <2>8
<1>7. d <= rr
  <2> HIDE DEF xx, kk, rr
  <2> QED BY <1>2, <1>3, <1>4
<1>8. m * m \in Int /\ d \in Nat
  BY <1>4
<1> HIDE DEF d
<1> QED BY <1>5, <1>6, <1>7, <1>8

(* Two other pixels of the circle that touch <<a, b>>.                     *)
Touch(a, b, a1, b1) ==
  AbsVal(a1 - a) <= 1 /\ AbsVal(b1 - b) <= 1 /\ (a1 # a \/ b1 # b)

HasTwo(n, X, a, b) ==
  \E a1, b1, a2, b2 \in Int :
    /\ OnCircle(n, X, a1, b1) /\ Touch(a, b, a1, b1)
    /\ OnCircle(n, X, a2, b2) /\ Touch(a, b, a2, b2)
    /\ a1 # a2 \/ b1 # b2

(* A circle is its own mirror image.                                       *)
LEMMA Mirrored ==
  ASSUME NEW n, NEW X, NEW a \in Int, NEW b \in Int
  PROVE  /\ OnCircle(n, X, a, b) => OnCircle(n, X, b, a)
         /\ OnCircle(n, X, a, b) => OnCircle(n, X, -a, b)
         /\ HasTwo(n, X, a, b) => HasTwo(n, X, b, a)
         /\ HasTwo(n, X, a, b) => HasTwo(n, X, -a, b)
<1>1. \A w \in Int : AbsVal(-w) = AbsVal(w) /\ AbsVal(w) \in Int
  BY DEF AbsVal
<1>2. \A d, e \in Int : OnCircle(n, X, d, e) => OnCircle(n, X, e, d) /\ OnCircle(n, X, -d, e)
  BY <1>1 DEF OnCircle
<1>3. ASSUME HasTwo(n, X, a, b) PROVE HasTwo(n, X, b, a)
  <2>1. PICK a1, b1, a2, b2 \in Int :
          /\ OnCircle(n, X, a1, b1) /\ Touch(a, b, a1, b1)
          /\ OnCircle(n, X, a2, b2) /\ Touch(a, b, a2, b2)
          /\ a1 # a2 \/ b1 # b2
    BY <1>3 DEF HasTwo
  <2>2. Touch(b, a, b1, a1) /\ Touch(b, a, b2, a2)
    BY <2>1 DEF Touch
  <2>3. OnCircle(n, X, b1, a1) /\ OnCircle(n, X, b2, a2)
    BY <1>2, <2>1
  <2> QED BY <2>1, <2>2, <2>3 DEF HasTwo
<1>4. ASSUME HasTwo(n, X, a, b) PROVE HasTwo(n, X, -a, b)
  <2>1. PICK a1, b1, a2, b2 \in Int :
          /\ OnCircle(n, X, a1, b1) /\ Touch(a, b, a1, b1)
          /\ OnCircle(n, X, a2, b2) /\ Touch(a, b, a2, b2)
          /\ a1 # a2 \/ b1 # b2
    BY <1>4 DEF HasTwo
  <2>2. Touch(-a, b, -a1, b1) /\ Touch(-a, b, -a2, b2)
    BY <2>1 DEF Touch, AbsVal
  <2>3. OnCircle(n, X, -a1, b1) /\ OnCircle(n, X, -a2, b2)
    BY <1>2, <2>1
  <2>4. -a1 \in Int /\ -a2 \in Int /\ (-a1 # -a2 \/ b1 # b2)
    BY <2>1
  <2> QED BY <2>2, <2>3, <2>4 DEF HasTwo
<1> QED BY <1>2, <1>3, <1>4

(* In the first eighth, a pixel touches those of the rows before and after *)
(* it; the first and the last one touch mirror images.                     *)
LEMMA EighthIsClosed ==
  ASSUME NEW r \in Nat \ {0}, NEW n, NEW X, IsEighth(r, n, X), NEW k \in 0 .. n
  PROVE  HasTwo(n, X, X[k], k)
<1>1. /\ n \in Nat /\ X \in [0 .. n -> Int] /\ X[0] = r /\ X[n] \in {n, n + 1}
      /\ \A j \in 0 .. n : j <= X[j]
      /\ \A j \in 1 .. n : X[j] \in {X[j - 1] - 1, X[j - 1]}
  BY DEF IsEighth
<1>2. ASSUME NEW j \in 0 .. n
      PROVE  /\ X[j] \in Nat /\ j \in Nat
             /\ OnCircle(n, X, X[j], j) /\ OnCircle(n, X, j, X[j]) /\ OnCircle(n, X, X[j], -j)
  <2>1. X[j] \in Nat /\ j \in Nat
    <3>1. X[j] \in Int /\ j <= X[j] /\ j \in Nat
      BY <1>1
    <3> QED BY <3>1
  <2>2. AbsVal(X[j]) = X[j] /\ AbsVal(j) = j /\ AbsVal(-j) = j
    BY <2>1 DEF AbsVal
  <2> QED BY <2>1, <2>2 DEF OnCircle
<1>3. CASE k = 0 /\ n = 0
  <2>1. X[0] = 1 /\ OnCircle(n, X, 0, 1) /\ OnCircle(n, X, 0, -1)
    <3>1. X[0] = 1
      BY <1>1, <1>3
    <3>2. \A w \in Nat : AbsVal(w) = w /\ AbsVal(-w) = w
      BY DEF AbsVal
    <3>3. AbsVal(0) = 0 /\ AbsVal(1) = 1 /\ AbsVal(-1) = 1
      <4>1. 0 \in Nat /\ 1 \in Nat
        OBVIOUS
      <4> QED BY <3>2, <4>1
    <3> QED BY <1>3, <3>1, <3>3 DEF OnCircle
  <2>2. Touch(1, 0, 0, 1) /\ Touch(1, 0, 0, -1)
    BY DEF Touch, AbsVal
  <2>3. 0 \in Int /\ 1 \in Int /\ -1 \in Int /\ 1 # -1
    OBVIOUS
  <2> QED BY <1>3, <2>1, <2>2, <2>3 DEF HasTwo
<1>4. CASE k = 0 /\ n > 0
  <2>1. 1 \in 0 .. n /\ 1 \in 1 .. n /\ 0 \in 0 .. n /\ 1 - 1 = 0
    BY <1>1, <1>4
  <2>2. X[1] \in {X[0] - 1, X[0]}
    BY <1>1, <2>1
  <2>3. X[1] \in Nat /\ X[0] \in Nat /\ OnCircle(n, X, X[1], 1) /\ OnCircle(n, X, X[1], -1)
    BY <1>2, <2>1
  <2>4. Touch(X[0], 0, X[1], 1) /\ Touch(X[0], 0, X[1], -1)
    BY <2>2, <2>3 DEF Touch, AbsVal
  <2>5. X[1] \in Int /\ 1 \in Int /\ -1 \in Int /\ 1 # -1
    BY <2>3
  <2> QED BY <1>4, <2>3, <2>4, <2>5 DEF HasTwo
<1>5. ASSUME k > 0
      PROVE  /\ k - 1 \in 0 .. n /\ k \in Nat /\ X[k] \in Nat /\ X[k - 1] \in Nat
             /\ X[k] \in {X[k - 1] - 1, X[k - 1]}
             /\ OnCircle(n, X, X[k - 1], k - 1) /\ Touch(X[k], k, X[k - 1], k - 1)
  <2>1. k - 1 \in 0 .. n /\ k \in 1 .. n
    BY <1>1, <1>5
  <2>2. /\ X[k] \in {X[k - 1] - 1, X[k - 1]} /\ X[k] \in Nat /\ X[k - 1] \in Nat /\ k \in Nat
        /\ OnCircle(n, X, X[k - 1], k - 1)
    BY <1>1, <1>2, <2>1
  <2>3. Touch(X[k], k, X[k - 1], k - 1)
    BY <2>2 DEF Touch, AbsVal
  <2> QED BY <2>1, <2>2, <2>3
<1>6. CASE k > 0 /\ k < n
  <2>1. k + 1 \in 0 .. n /\ k + 1 \in 1 .. n /\ (k + 1) - 1 = k
    BY <1>1, <1>6
  <2>2. X[k + 1] \in {X[k] - 1, X[k]} /\ X[k + 1] \in Nat /\ OnCircle(n, X, X[k + 1], k + 1)
    BY <1>1, <1>2, <2>1
  <2>3. Touch(X[k], k, X[k + 1], k + 1)
    BY <1>5, <1>6, <2>2 DEF Touch, AbsVal
  <2>4. k + 1 \in Int /\ k - 1 \in Int /\ k + 1 # k - 1 /\ X[k - 1] \in Int /\ X[k + 1] \in Int
    BY <1>5, <1>6, <2>2
  <2> QED BY <1>5, <1>6, <2>2, <2>3, <2>4 DEF HasTwo
<1>7. CASE k > 0 /\ k = n /\ X[k] = n + 1
  <2>1. OnCircle(n, X, k, X[k])
    BY <1>2
  <2>2. Touch(X[k], k, k, X[k])
    BY <1>5, <1>7 DEF Touch, AbsVal
  <2>3. X[k] # k - 1 /\ X[k] \in Int /\ k \in Int /\ k - 1 \in Int /\ X[k - 1] \in Int
    BY <1>5, <1>7
  <2> QED BY <1>5, <1>7, <2>1, <2>2, <2>3 DEF HasTwo
<1>8. CASE k > 0 /\ k = n /\ X[k] = n
  <2>1. OnCircle(n, X, k - 1, X[k - 1])
    BY <1>2, <1>5, <1>8
  <2>2. Touch(X[k], k, k - 1, X[k - 1])
    BY <1>5, <1>8 DEF Touch, AbsVal
  <2>3. k - 1 # X[k - 1] /\ k - 1 \in Int /\ X[k - 1] \in Int
    BY <1>5, <1>8
  <2> QED BY <1>5, <1>8, <2>1, <2>2, <2>3 DEF HasTwo
<1>9. k = 0 \/ k > 0
  BY <1>1
<1> QED BY <1>1, <1>3, <1>4, <1>6, <1>7, <1>8, <1>9

(* So does every pixel of the circle, by symmetry.                         *)
LEMMA AllTouchTwo ==
  ASSUME NEW r \in Nat \ {0}, NEW n, NEW X, IsEighth(r, n, X),
         NEW a \in Int, NEW b \in Int, OnCircle(n, X, a, b)
  PROVE  HasTwo(n, X, a, b)
<1>1. \A w \in Int : AbsVal(w) \in Int /\ (w = AbsVal(w) \/ w = -AbsVal(w))
  BY DEF AbsVal
<1>2. ASSUME NEW d \in Int, NEW e \in Int, HasTwo(n, X, AbsVal(d), AbsVal(e))
      PROVE  HasTwo(n, X, d, e)
  <2>1. AbsVal(d) \in Int /\ AbsVal(e) \in Int
    BY <1>1
  <2>2. HasTwo(n, X, d, AbsVal(e))
    BY <1>1, <1>2, <2>1, Mirrored
  <2>3. HasTwo(n, X, AbsVal(e), d)
    BY <2>1, <2>2, Mirrored
  <2>4. HasTwo(n, X, e, d)
    BY <1>1, <2>1, <2>3, Mirrored
  <2> QED BY <2>4, Mirrored
<1>3. HasTwo(n, X, AbsVal(a), AbsVal(b))
  <2>1. CASE AbsVal(b) \in 0 .. n /\ AbsVal(a) = X[AbsVal(b)]
    BY <2>1, EighthIsClosed
  <2>2. CASE AbsVal(a) \in 0 .. n /\ AbsVal(b) = X[AbsVal(a)]
    <3>1. HasTwo(n, X, AbsVal(b), AbsVal(a))
      BY <2>2, EighthIsClosed
    <3> QED BY <1>1, <3>1, Mirrored
  <2> QED BY <2>1, <2>2 DEF OnCircle
<1> QED BY <1>2, <1>3

(* A finite stretch of whole numbers has its ends.                         *)
LEMMA EndsOfSide ==
  ASSUME NEW S \in SUBSET Int, S # {}, NEW lo \in Int, NEW hi \in Int,
         \A i \in S : lo <= i /\ i <= hi
  PROVE  /\ Min(S) \in S /\ \A i \in S : Min(S) <= i
         /\ Max(S) \in S /\ \A i \in S : i <= Max(S)
<1>1. \E i \in S : \A j \in S : i <= j
  <2> DEFINE T == {k \in Nat : lo + k \in S}
  <2>1. \A j \in S : j - lo \in T
    <3>1. ASSUME NEW j \in S PROVE j - lo \in Nat /\ lo + (j - lo) = j
      OBVIOUS
    <3> QED BY <3>1
  <2>2. PICK m \in T : \A k \in T : m <= k
    <3>1. T # {} /\ T \in SUBSET Nat
      BY <2>1
    <3> HIDE DEF T
    <3> QED BY <3>1, LeastNumber
  <2>3. m \in Nat /\ lo + m \in S
    OBVIOUS
  <2> HIDE DEF T
  <2>4. ASSUME NEW j \in S PROVE lo + m <= j
    <3>1. m <= j - lo /\ j \in Int
      BY <2>1, <2>2
    <3> QED BY <2>3, <3>1
  <2> QED BY <2>3, <2>4
<1>2. \E i \in S : \A j \in S : i >= j
  <2> DEFINE T == {k \in Nat : hi - k \in S}
  <2>1. \A j \in S : hi - j \in T
    <3>1. ASSUME NEW j \in S PROVE hi - j \in Nat /\ hi - (hi - j) = j
      OBVIOUS
    <3> QED BY <3>1
  <2>2. PICK m \in T : \A k \in T : m <= k
    <3>1. T # {} /\ T \in SUBSET Nat
      BY <2>1
    <3> HIDE DEF T
    <3> QED BY <3>1, LeastNumber
  <2>3. m \in Nat /\ hi - m \in S
    OBVIOUS
  <2> HIDE DEF T
  <2>4. ASSUME NEW j \in S PROVE hi - m >= j
    <3>1. m <= hi - j /\ j \in Int
      BY <2>1, <2>2
    <3> QED BY <2>3, <3>1
  <2> QED BY <2>3, <2>4
<1>3. Min(S) \in S /\ \A i \in S : Min(S) <= i
  BY <1>1 DEF Min
<1>4. Max(S) \in S /\ \A i \in S : Max(S) >= i
  BY <1>2 DEF Max
<1>5. \A i \in S : i <= Max(S)
  BY <1>4
<1> QED BY <1>3, <1>4, <1>5

-----------------------------------------------------------------------------
(* Circles as they are drawn.                                              *)

(* The pixels of the circle that touch q.                                  *)
Touching(c, q) ==
  {t \in Circle(c) \ {q} : AbsVal(t[1] - q[1]) <= 1 /\ AbsVal(t[2] - q[2]) <= 1}

(* A circle has no gap and no end, whatever its radius: each of its pixels *)
(* touches two others.                                                     *)
THEOREM CircleIsClosed ==
  ASSUME NEW c, c.x0 \in Int, c.y0 \in Int, c.x1 \in Int, c.x1 > 0, NEW q \in Circle(c)
  PROVE  Cardinality(Touching(c, q)) >= 2
<1>1. c.x1 \in Nat \ {0}
  OBVIOUS
<1>2. PICK n, X : IsEighth(c.x1, n, X)
  BY <1>1, ArcIsEighth
<1>3. PICK a \in Int, b \in Int : q = <<c.x0 + a, c.y0 + b>> /\ OnCircle(n, X, a, b)
  <2>1. PICK a \in Int, b \in Int : q = <<c.x0 + a, c.y0 + b>>
    BY <1>2, CircleIs
  <2>2. OnCircle(n, X, a, b)
    BY <1>2, <2>1, CircleIs
  <2> QED BY <2>1, <2>2
<1>4. PICK a1, b1, a2, b2 \in Int :
        /\ OnCircle(n, X, a1, b1) /\ Touch(a, b, a1, b1)
        /\ OnCircle(n, X, a2, b2) /\ Touch(a, b, a2, b2)
        /\ a1 # a2 \/ b1 # b2
  BY <1>1, <1>2, <1>3, AllTouchTwo DEF HasTwo
<1> DEFINE u == <<c.x0 + a1, c.y0 + b1>>
           v == <<c.x0 + a2, c.y0 + b2>>
           N == Touching(c, q)
<1>5. u \in Circle(c) /\ v \in Circle(c)
  BY <1>2, <1>4, CircleIs
<1>6. ASSUME NEW d \in Int, NEW e \in Int, Touch(a, b, d, e)
      PROVE  LET t == <<c.x0 + d, c.y0 + e>>
             IN  t # q /\ AbsVal(t[1] - q[1]) <= 1 /\ AbsVal(t[2] - q[2]) <= 1
  <2> DEFINE x0 == c.x0
             y0 == c.y0
             t == <<x0 + d, y0 + e>>
  <2>1. t[1] = x0 + d /\ t[2] = y0 + e /\ q[1] = x0 + a /\ q[2] = y0 + b
    BY <1>3
  <2>2. x0 \in Int /\ y0 \in Int
    OBVIOUS
  <2> HIDE DEF x0, y0, t
  <2>3. t[1] - q[1] = d - a /\ t[2] - q[2] = e - b /\ (d # a => t[1] # q[1]) /\ (e # b => t[2] # q[2])
    BY <2>1, <2>2
  <2>4. t # q /\ AbsVal(t[1] - q[1]) <= 1 /\ AbsVal(t[2] - q[2]) <= 1
    BY <1>6, <2>3 DEF Touch
  <2> QED BY <2>4 DEF t, x0, y0
<1>7. u \in N /\ v \in N
  BY <1>4, <1>5, <1>6 DEF Touching
<1>8. u # v
  <2> DEFINE x0 == c.x0
             y0 == c.y0
  <2>1. u[1] = x0 + a1 /\ v[1] = x0 + a2 /\ u[2] = y0 + b1 /\ v[2] = y0 + b2
    OBVIOUS
  <2>2. x0 \in Int /\ y0 \in Int
    OBVIOUS
  <2> HIDE DEF x0, y0, u, v
  <2> QED BY <1>4, <2>1, <2>2
<1>9. IsFiniteSet(N)
  <2> DEFINE A == (q[1] - 1) .. (q[1] + 1)
             B == (q[2] - 1) .. (q[2] + 1)
  <2>1. q[1] \in Int /\ q[2] \in Int
    BY <1>3
  <2>2. IsFiniteSet(A) /\ IsFiniteSet(B)
    <3>1. q[1] - 1 \in Int /\ q[1] + 1 \in Int /\ q[2] - 1 \in Int /\ q[2] + 1 \in Int
      BY <2>1
    <3> QED BY <3>1, FS_Interval
  <2>3. IsFiniteSet(A \X B)
    <3> HIDE DEF A, B
    <3> QED BY <2>2, FS_Product
  <2>4. ASSUME NEW t \in N PROVE t \in A \X B
    <3>1. /\ t \in Circle(c) /\ AbsVal(t[1] - q[1]) <= 1 /\ AbsVal(t[2] - q[2]) <= 1
      BY DEF Touching
    <3>2. t \in Int \X Int
      BY <1>2, <3>1, CircleIs
    <3>3. t[1] \in A /\ t[2] \in B
      BY <2>1, <3>1, <3>2 DEF AbsVal
    <3> QED BY <3>2, <3>3
  <2>5. N \in SUBSET (A \X B)
    BY <2>4
  <2> HIDE DEF N, A, B
  <2> QED BY <2>3, <2>5, FS_Subset
<1> HIDE DEF u, v, N
<1>10. IsFiniteSet({u}) /\ Cardinality({u}) = 1
  BY FS_Singleton
<1>11. Cardinality({u} \cup {v}) = 2
  BY <1>8, <1>10, FS_AddElement
<1>12. {u} \cup {v} \in SUBSET N
  BY <1>7
<1>13. Cardinality({u} \cup {v}) <= Cardinality(N) /\ Cardinality(N) \in Nat
  BY <1>9, <1>12, FS_Subset, FS_CardinalityType
<1> QED BY <1>11, <1>13 DEF N

(* A circle is round: none of its pixels is outside the radius, and none   *)
(* more than a pixel and a half within it.                                 *)
THEOREM CircleIsRound ==
  ASSUME NEW c, c.x0 \in Int, c.y0 \in Int, c.x1 \in Int, c.x1 > 0, NEW q \in Circle(c)
  PROVE  LET d == (q[1] - c.x0) * (q[1] - c.x0) + (q[2] - c.y0) * (q[2] - c.y0)
         IN  d <= c.x1 * c.x1 /\ (c.x1 > 1 => 4 * d >= (2 * c.x1 - 3) * (2 * c.x1 - 3))
<1>1. c.x1 \in Nat \ {0}
  OBVIOUS
<1>2. PICK n, X : IsEighth(c.x1, n, X)
  BY <1>1, ArcIsEighth
<1>3. PICK a \in Int, b \in Int : q = <<c.x0 + a, c.y0 + b>> /\ OnCircle(n, X, a, b)
  <2>1. PICK a \in Int, b \in Int : q = <<c.x0 + a, c.y0 + b>>
    BY <1>2, CircleIs
  <2>2. OnCircle(n, X, a, b)
    BY <1>2, <2>1, CircleIs
  <2> QED BY <2>1, <2>2
<1>4. q[1] - c.x0 = a /\ q[2] - c.y0 = b
  <2> DEFINE x0 == c.x0
             y0 == c.y0
  <2>1. q[1] = x0 + a /\ q[2] = y0 + b /\ x0 \in Int /\ y0 \in Int
    BY <1>3
  <2> HIDE DEF x0, y0
  <2>2. q[1] - x0 = a /\ q[2] - y0 = b
    BY <2>1
  <2> QED BY <2>2 DEF x0, y0
<1>5. /\ a * a + b * b <= c.x1 * c.x1
      /\ c.x1 > 1 => 4 * (a * a + b * b) >= (2 * c.x1 - 3) * (2 * c.x1 - 3)
  BY <1>1, <1>2, <1>3, EighthIsRound
<1> QED BY <1>4, <1>5

(* The disc of that circle.                                                *)
Disc(c) == fill_circle(c.x0, c.y0, c.x1, c.color, c.key)

(* The columns in which row y of the circle has pixels.                    *)
Side(c, y) == {t[1] : t \in {p \in Circle(c) : p[2] = y}}

(* Where the disc is: in every row, no further from the middle than some   *)
(* pixel of the circle.                                                    *)
LEMMA DiscIs ==
  ASSUME NEW c, c.x0 \in Int, c.y0 \in Int, c.x1 \in Int, c.x1 > 0,
         NEW n, NEW X, IsEighth(c.x1, n, X), NEW q \in Int \X Int
  PROVE  Times(Disc(c), q) > 0
           <=> \E a \in Int : OnCircle(n, X, a, q[2] - c.y0) /\ AbsVal(q[1] - c.x0) <= AbsVal(a)
<1> DEFINE d == Disc(c)
           r == c.x1
           x0 == c.x0
           y0 == c.y0
           A == Arc(r)
           Hits(p, i) == Spans(d, p)[i][1] = q[2] /\ AbsVal(q[1] - x0) <= Spans(d, p)[i][2]
           T == {s \in A \X (1 .. 4) : Hits(s[1], s[2])}
<1>1. d.op = "FillCircle" /\ d.x0 = x0 /\ d.y0 = y0 /\ d.x1 = r
  BY DEF Disc, fill_circle, Cmd
<1>2. Times(d, q) = Cardinality(T)
  <2>1. Times(d, q) = Cardinality({s \in Arc(d.x1) \X (1 .. 4) :
                            /\ d.x1 > 0 /\ Spans(d, s[1])[s[2]][1] = q[2]
                            /\ AbsVal(q[1] - d.x0) <= Spans(d, s[1])[s[2]][2]})
    <3> HIDE DEF d
    <3> QED BY <1>1 DEF Times
  <2> HIDE DEF d
  <2> QED BY <1>1, <2>1
<1>3. IsFiniteSet(T)
  <2>1. IsFiniteSet(A)
    BY ArcIsFinite
  <2>2. IsFiniteSet(1 .. 4)
    <3>1. 1 \in Int /\ 4 \in Int
      OBVIOUS
    <3> QED BY <3>1, FS_Interval
  <2>3. IsFiniteSet(A \X (1 .. 4))
    <3> HIDE DEF A
    <3> QED BY <2>1, <2>2, FS_Product
  <2>4. T \in SUBSET (A \X (1 .. 4))
    <3> HIDE DEF A, Hits
    <3> QED OBVIOUS
  <2> HIDE DEF T, A
  <2> QED BY <2>3, <2>4, FS_Subset
<1>4. Times(d, q) > 0 <=> T # {}
  <2>1. Cardinality(T) \in Nat /\ (Cardinality(T) = 0 <=> T = {})
    <3> HIDE DEF T
    <3> QED BY <1>3, FS_CardinalityType, FS_EmptySet
  <2> HIDE DEF T, d
  <2> QED BY <1>2, <2>1
<1>5. T # {} <=> \E p \in A, i \in 1 .. 4 : Hits(p, i)
  <2> HIDE DEF A, Hits
  <2>1. ASSUME T # {} PROVE \E p \in A, i \in 1 .. 4 : Hits(p, i)
    BY <2>1
  <2>2. ASSUME NEW p \in A, NEW i \in 1 .. 4, Hits(p, i) PROVE T # {}
    <3>1. <<p, i>> \in T
      BY <2>2
    <3> QED BY <3>1
  <2> QED BY <2>1, <2>2
<1>6. /\ n \in Nat /\ X \in [0 .. n -> Int] /\ \A k \in 0 .. n : k <= X[k]
      /\ \A p \in A : p.y \in 0 .. n /\ p.x = X[p.y]
      /\ \A k \in 0 .. n : \E p \in A : p.y = k /\ p.x = X[k]
  BY DEF IsEighth
<1>7. ASSUME NEW p \in A
      PROVE  /\ p.x \in Nat /\ p.y \in Nat
             /\ Spans(d, p)[1] = <<y0 + p.y, p.x>> /\ Spans(d, p)[2] = <<y0 - p.y, p.x>>
             /\ Spans(d, p)[3] = <<y0 + p.x, p.y>> /\ Spans(d, p)[4] = <<y0 - p.x, p.y>>
  <2>1. p.x \in Nat /\ p.y \in Nat
    <3>1. p.y \in 0 .. n /\ p.x = X[p.y] /\ X[p.y] \in Int /\ p.y <= X[p.y]
      BY <1>6
    <3> QED BY <3>1, <1>6
  <2> HIDE DEF d, A
  <2> QED BY <1>1, <2>1 DEF Spans
<1>8. \A w \in Nat : AbsVal(w) = w /\ AbsVal(-w) = w
  BY DEF AbsVal
<1>9. x0 \in Int /\ y0 \in Int /\ q[1] \in Int /\ q[2] \in Int
  OBVIOUS
<1>10. ASSUME NEW p \in A, NEW i \in 1 .. 4, Hits(p, i)
       PROVE  \E a \in Int : OnCircle(n, X, a, q[2] - y0) /\ AbsVal(q[1] - x0) <= AbsVal(a)
  <2> DEFINE x == p.x
             y == p.y
             e == q[2] - y0
  <2>1. x \in Nat /\ y \in Nat /\ y \in 0 .. n /\ x = X[y]
    BY <1>6, <1>7
  <2>2. \/ Spans(d, p)[i] = <<y0 + y, x>> \/ Spans(d, p)[i] = <<y0 - y, x>>
        \/ Spans(d, p)[i] = <<y0 + x, y>> \/ Spans(d, p)[i] = <<y0 - x, y>>
    <3>1. i = 1 \/ i = 2 \/ i = 3 \/ i = 4
      OBVIOUS
    <3> HIDE DEF d, A
    <3> QED BY <1>7, <3>1
  <2>3. Spans(d, p)[i][1] = q[2] /\ AbsVal(q[1] - x0) <= Spans(d, p)[i][2]
    BY <1>10
  <2> HIDE DEF d, A, Hits, x, y, x0, y0
  <2>4. \/ (q[2] = y0 + y \/ q[2] = y0 - y) /\ AbsVal(q[1] - x0) <= x
        \/ (q[2] = y0 + x \/ q[2] = y0 - x) /\ AbsVal(q[1] - x0) <= y
    BY <2>2, <2>3
  <2>5. \/ (e = y \/ e = -y) /\ AbsVal(q[1] - x0) <= x
        \/ (e = x \/ e = -x) /\ AbsVal(q[1] - x0) <= y
    BY <1>9, <2>1, <2>4
  <2> HIDE DEF e
  <2>6. AbsVal(x) = x /\ AbsVal(y) = y /\ x \in Int /\ y \in Int
    BY <1>8, <2>1
  <2>7. \/ AbsVal(e) = y /\ AbsVal(q[1] - x0) <= x
        \/ AbsVal(e) = x /\ AbsVal(q[1] - x0) <= y
    BY <1>8, <2>1, <2>5
  <2>8. CASE AbsVal(e) = y /\ AbsVal(q[1] - x0) <= x
    <3>1. OnCircle(n, X, x, e)
      BY <2>1, <2>6, <2>8 DEF OnCircle
    <3> QED BY <2>6, <2>8, <3>1 DEF e
  <2>9. CASE AbsVal(e) = x /\ AbsVal(q[1] - x0) <= y
    <3>1. OnCircle(n, X, y, e)
      BY <2>1, <2>6, <2>9 DEF OnCircle
    <3> QED BY <2>6, <2>9, <3>1 DEF e
  <2> QED BY <2>7, <2>8, <2>9
<1>11. ASSUME NEW a \in Int, OnCircle(n, X, a, q[2] - y0), AbsVal(q[1] - x0) <= AbsVal(a)
       PROVE  \E p \in A, i \in 1 .. 4 : Hits(p, i)
  <2> DEFINE e == q[2] - y0
  <2>1. PICK k \in 0 .. n : \/ AbsVal(e) = k /\ AbsVal(a) = X[k]
                            \/ AbsVal(a) = k /\ AbsVal(e) = X[k]
    BY <1>11 DEF OnCircle
  <2>2. PICK p \in A : p.y = k /\ p.x = X[k]
    BY <1>6
  <2> DEFINE x == p.x
             y == p.y
  <2>3. x \in Nat /\ y \in Nat
    BY <1>7
  <2>4. \/ AbsVal(e) = y /\ AbsVal(a) = x
        \/ AbsVal(a) = y /\ AbsVal(e) = x
    BY <2>1, <2>2
  <2>5. /\ Spans(d, p)[1] = <<y0 + y, x>> /\ Spans(d, p)[2] = <<y0 - y, x>>
        /\ Spans(d, p)[3] = <<y0 + x, y>> /\ Spans(d, p)[4] = <<y0 - x, y>>
    BY <1>7
  <2>6. e = AbsVal(e) \/ e = -AbsVal(e)
    BY <1>9 DEF AbsVal
  <2> HIDE DEF d, A, x, y, x0, y0, e
  <2>7. AbsVal(q[1] - x0) <= AbsVal(a)
    BY <1>11 DEF x0, y0
  <2>8. q[2] = y0 + e
    BY <1>9 DEF e
  <2>9. \/ (q[2] = y0 + y \/ q[2] = y0 - y) /\ AbsVal(q[1] - x0) <= x
        \/ (q[2] = y0 + x \/ q[2] = y0 - x) /\ AbsVal(q[1] - x0) <= y
    <3>1. e \in Int
      BY <1>9 DEF e
    <3> QED BY <1>9, <2>3, <2>4, <2>6, <2>7, <2>8, <3>1
  <2>10. \E i \in 1 .. 4 : Spans(d, p)[i][1] = q[2] /\ AbsVal(q[1] - x0) <= Spans(d, p)[i][2]
    BY <2>5, <2>9
  <2> QED BY <2>10
<1> HIDE DEF T, A, Hits, d
<1> QED BY <1>4, <1>5, <1>10, <1>11 DEF d

(* FillCircle fills what Circle encloses, row by row.                      *)
THEOREM DiscFillsCircle ==
  ASSUME NEW c, c.x0 \in Int, c.y0 \in Int, c.x1 \in Int, c.x1 > 0, NEW q \in Int \X Int
  PROVE  Times(Disc(c), q) > 0
           <=> /\ Side(c, q[2]) # {}
               /\ Min(Side(c, q[2])) <= q[1] /\ q[1] <= Max(Side(c, q[2]))
<1>1. c.x1 \in Nat \ {0}
  OBVIOUS
<1>2. PICK n, X : IsEighth(c.x1, n, X)
  BY <1>1, ArcIsEighth
<1> DEFINE r == c.x1
           x0 == c.x0
           y0 == c.y0
           e == q[2] - y0
           S == Side(c, q[2])
<1>3. x0 \in Int /\ y0 \in Int /\ e \in Int /\ r \in Int /\ q[1] \in Int /\ q[2] \in Int /\ q[2] = y0 + e
  OBVIOUS
<1>4. ASSUME NEW a \in Int, OnCircle(n, X, a, e)
      PROVE  x0 + a \in S /\ x0 - a \in S
  <2>1. OnCircle(n, X, -a, e) /\ -a \in Int
    BY <1>3, <1>4, Mirrored
  <2>2. <<x0 + a, y0 + e>> \in Circle(c) /\ <<x0 + (-a), y0 + e>> \in Circle(c)
    BY <1>2, <1>3, <1>4, <2>1, CircleIs
  <2>3. x0 + (-a) = x0 - a
    BY <1>3
  <2> HIDE DEF x0, y0, e
  <2> QED BY <1>3, <2>2, <2>3 DEF Side
<1>5. ASSUME NEW i \in S
      PROVE  i \in Int /\ OnCircle(n, X, i - x0, e) /\ i - x0 \in Int
  <2>1. PICK t \in Circle(c) : t[2] = q[2] /\ t[1] = i
    BY DEF Side
  <2>2. PICK a, b \in Int : t = <<x0 + a, y0 + b>>
    BY <1>2, CircleIs
  <2>3. OnCircle(n, X, a, b)
    BY <1>2, <2>2, CircleIs
  <2> HIDE DEF x0, y0, e, S
  <2>4. i = x0 + a /\ y0 + b = y0 + e
    BY <1>3, <2>1, <2>2
  <2>5. b = e /\ i - x0 = a /\ i \in Int
    BY <1>3, <2>4
  <2> QED BY <2>3, <2>5
<1>6. ASSUME NEW a \in Int, OnCircle(n, X, a, e) PROVE -r <= a /\ a <= r
  <2>1. PICK k \in 0 .. n : AbsVal(a) = X[k] \/ AbsVal(a) = k
    BY <1>6 DEF OnCircle
  <2>2. n \in Nat /\ X \in [0 .. n -> Int] /\ k <= X[k] /\ X[k] <= r
    BY <1>2 DEF IsEighth
  <2>3. X[k] \in Int /\ k \in Int
    BY <2>2
  <2> HIDE DEF r
  <2>4. AbsVal(a) <= r
    BY <1>3, <2>1, <2>2, <2>3
  <2> QED BY <1>3, <2>4 DEF AbsVal
<1>7. ASSUME S # {}
      PROVE  /\ Min(S) \in S /\ \A i \in S : Min(S) <= i
             /\ Max(S) \in S /\ \A i \in S : i <= Max(S)
  <2> DEFINE lo == x0 - r
             hi == x0 + r
  <2>1. S \in SUBSET Int
    BY <1>5
  <2>2. ASSUME NEW i \in S PROVE lo <= i /\ i <= hi
    <3>1. i \in Int /\ -r <= i - x0 /\ i - x0 <= r
      BY <1>5, <1>6
    <3> HIDE DEF S, x0, r, e
    <3> QED BY <1>3, <3>1
  <2>3. lo \in Int /\ hi \in Int
    BY <1>3
  <2> HIDE DEF S, lo, hi
  <2> QED BY <1>7, <2>1, <2>2, <2>3, EndsOfSide
<1>8. ASSUME NEW a \in Int, OnCircle(n, X, a, e), AbsVal(q[1] - x0) <= AbsVal(a)
      PROVE  S # {} /\ Min(S) <= q[1] /\ q[1] <= Max(S)
  <2>1. x0 + a \in S /\ x0 - a \in S
    BY <1>4, <1>8
  <2>2. /\ Min(S) \in Int /\ Min(S) <= x0 + a /\ Min(S) <= x0 - a
        /\ Max(S) \in Int /\ x0 + a <= Max(S) /\ x0 - a <= Max(S)
    <3> HIDE DEF S, x0
    <3> QED BY <1>5, <1>7, <2>1
  <2>3. AbsVal(q[1] - x0) <= AbsVal(a)
    BY <1>8
  <2> DEFINE lo == Min(S)
             hi == Max(S)
  <2> HIDE DEF S, x0, lo, hi
  <2>4. lo <= q[1] /\ q[1] <= hi
    BY <1>3, <2>2, <2>3 DEF AbsVal, lo, hi
  <2> QED BY <2>1, <2>4 DEF lo, hi
<1>9. ASSUME S # {}, Min(S) <= q[1], q[1] <= Max(S)
      PROVE  \E a \in Int : OnCircle(n, X, a, e) /\ AbsVal(q[1] - x0) <= AbsVal(a)
  <2> DEFINE lo == Min(S)
             hi == Max(S)
  <2>1. /\ lo \in Int /\ OnCircle(n, X, lo - x0, e) /\ lo - x0 \in Int
        /\ hi \in Int /\ OnCircle(n, X, hi - x0, e) /\ hi - x0 \in Int
    <3>1. Min(S) \in S /\ Max(S) \in S
      BY <1>7, <1>9
    <3> QED BY <1>5, <3>1
  <2>2. lo <= q[1] /\ q[1] <= hi
    BY <1>9
  <2> HIDE DEF S, x0, lo, hi, e
  <2>3. \/ AbsVal(q[1] - x0) <= AbsVal(lo - x0)
        \/ AbsVal(q[1] - x0) <= AbsVal(hi - x0)
    BY <1>3, <2>1, <2>2 DEF AbsVal
  <2> QED BY <2>1, <2>3
<1>10. Times(Disc(c), q) > 0
         <=> \E a \in Int : OnCircle(n, X, a, e) /\ AbsVal(q[1] - x0) <= AbsVal(a)
  BY <1>2, DiscIs
<1> HIDE DEF S, e, x0
<1> QED BY <1>8, <1>9, <1>10 DEF S
=============================================================================
