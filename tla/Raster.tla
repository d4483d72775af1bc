------------------------------- MODULE Raster -------------------------------
(***************************************************************************)
(* What one command does to the pixels: execute_tile_() of                 *)
(* src/gfx/software_renderer.cpp for each operation of RenderQueue::Op.    *)
(*                                                                         *)
(* Every operation but Clear and BlitSprite writes one colour, so it is    *)
(* given by how often it writes each pixel (Times): a translucent colour   *)
(* written twice is not the colour written once.  Coordinates are far from *)
(* the limits of int.                                                      *)
(***************************************************************************)
EXTENDS Color, Sequences, FiniteSets

AbsVal(n) == IF n < 0 THEN -n ELSE n

(* One entry of m_cmds, with what it points to: the pixels of a sprite or  *)
(* the characters of a text ("ink", "space", "newline").                   *)
Cmd(op, color, key, x0, y0, x1, y1, u0, data) ==
  [op |-> op, color |-> color, key |-> key,
   x0 |-> x0, y0 |-> y0, x1 |-> x1, y1 |-> y1, u0 |-> u0, data |-> data]

Ops == {"Clear", "PutPixel", "FillRect", "RectOutline", "Line", "HLine", "VLine",
        "BlendRect", "FillCircle", "Circle", "BlitSprite", "Text"}
Chars == {"ink", "space", "newline"}

(* The rows of a sprite, stride pixels apart, are all in pixels. *)
HasRows(pixels, w, h, stride) ==
  w > 0 /\ h > 0 /\ stride > 0 => (h - 1) * stride + w <= Len(pixels)

(* A command with what its operation reads. *)
IsCmd(c) ==
  /\ c.op \in Ops /\ c.color \in Colors /\ c.key \in Nat
  /\ c.x0 \in Int /\ c.y0 \in Int /\ c.x1 \in Int /\ c.y1 \in Int /\ c.u0 \in Nat
  /\ c.op = "Text" => c.data \in Seq(Chars)
  /\ c.op = "BlitSprite" => c.data \in Seq(Colors) /\ HasRows(c.data, c.x1, c.y1, c.u0)

clear(c, k)                   == Cmd("Clear", c, k, 0, 0, 0, 0, 0, << >>)
put_pixel(x, y, c, k)         == Cmd("PutPixel", c, k, x, y, 0, 0, 0, << >>)
fill_rect(x, y, w, h, c, k)   == Cmd("FillRect", c, k, x, y, w, h, 0, << >>)
rect_outline(x, y, w, h, t, c, k) == Cmd("RectOutline", c, k, x, y, w, h, t, << >>)
line(x0, y0, x1, y1, c, k)    == Cmd("Line", c, k, x0, y0, x1, y1, 0, << >>)
blend_rect(x, y, w, h, c, k)  == Cmd("BlendRect", c, k, x, y, w, h, 0, << >>)
fill_circle(x, y, r, c, k)    == Cmd("FillCircle", c, k, x, y, r, 0, 0, << >>)
circle(x, y, r, c, k)         == Cmd("Circle", c, k, x, y, r, 0, 0, << >>)
hline(x0, x1, y, c, k)        == Cmd("HLine", c, k, x0, y, x1, 0, 0, << >>)
vline(x, y0, y1, c, k)        == Cmd("VLine", c, k, x, y0, 0, y1, 0, << >>)
blit_sprite(x, y, pixels, w, h, stride, tint, k) ==
  Cmd("BlitSprite", tint, k, x, y, w, h, stride, pixels)
text(x, y, s, c, k, scale)    ==
  Cmd("Text", c, k, x, y, 0, Len(s), IF scale = 0 THEN 1 ELSE scale, s)

(* make_sort_key() and sort_layer(): layer, order and tie are 8, 16 and 16 *)
(* bits wide; 12 bits of the last two are kept.                            *)
MutSortKey(layer, order, tie) ==                              \* no masks
  layer * 2^24 + order * 2^12 + tie
MakeSortKey(layer, order, tie) ==
  layer * 2^24 + (order % 2^12) * 2^12 + (tie % 2^12)
SortLayer(key) == key \div 2^24

-----------------------------------------------------------------------------
(* raster_line(): the points in the order they are plotted.                *)

(* One turn of the loop; both tests look at the err of its beginning. *)
MutLineStep(c, s) ==                      \* the second test sees the new err
  LET dx == AbsVal(c.x1 - c.x0)
      dy == -AbsVal(c.y1 - c.y0)
      right == 2 * s.err >= dy
      mid == s.err + (IF right THEN dy ELSE 0)
      down == 2 * mid <= dx
  IN  [x |-> IF right THEN s.x + (IF c.x0 < c.x1 THEN 1 ELSE -1) ELSE s.x,
       y |-> IF down THEN s.y + (IF c.y0 < c.y1 THEN 1 ELSE -1) ELSE s.y,
       err |-> mid + (IF down THEN dx ELSE 0)]

LineStep(c, s) ==
  LET dx == AbsVal(c.x1 - c.x0)
      dy == -AbsVal(c.y1 - c.y0)
      right == 2 * s.err >= dy
      down == 2 * s.err <= dx
  IN  [x |-> IF right THEN s.x + (IF c.x0 < c.x1 THEN 1 ELSE -1) ELSE s.x,
       y |-> IF down THEN s.y + (IF c.y0 < c.y1 THEN 1 ELSE -1) ELSE s.y,
       err |-> s.err + (IF right THEN dy ELSE 0) + (IF down THEN dx ELSE 0)]

(* Each turn takes a step along at least one axis, so it is over after     *)
(* dx + |dy| turns or has missed its end.                                  *)
LineTurns(c) == AbsVal(c.x1 - c.x0) + AbsVal(c.y1 - c.y0)

LineStates(c) ==
  LET s[k \in 0 .. LineTurns(c)] ==
        IF k = 0 THEN [x |-> c.x0, y |-> c.y0,
                       err |-> AbsVal(c.x1 - c.x0) - AbsVal(c.y1 - c.y0)]
        ELSE LineStep(c, s[k - 1])
  IN  s

LinePoints(c) ==
  LET s == LineStates(c)
      AtEnd(k) == s[k].x = c.x1 /\ s[k].y = c.y1
      shown == {k \in 0 .. LineTurns(c) : \A j \in 0 .. k - 1 : ~AtEnd(j)}
  IN  [k \in 1 .. Cardinality(shown) |-> <<s[k - 1].x, s[k - 1].y>>]

-----------------------------------------------------------------------------
(* Circle and FillCircle: the eighth of the circle the loop walks along.   *)

MutArcStep(s) ==                                          \* y is not counted
  LET up == s.err <= 0
      err == s.err + (IF up THEN 2 * s.y + 1 ELSE 0)
      in == err > 0
      x == IF in THEN s.x - 1 ELSE s.x
  IN  [x |-> x, y |-> IF up THEN s.y + 1 ELSE s.y,
       err |-> IF in THEN err - (4 * x + 1) ELSE err]

ArcStep(s) ==
  LET y == IF s.err <= 0 THEN s.y + 1 ELSE s.y
      err == IF s.err <= 0 THEN s.err + 2 * y + 1 ELSE s.err
      x == IF err > 0 THEN s.x - 1 ELSE s.x
  IN  [x |-> x, y |-> y, err |-> IF err > 0 THEN err - (2 * x + 1) ELSE err]

(* y - x, which is -r at first, grows in every turn. *)
ArcStates(r) ==
  LET s[k \in 0 .. r] == IF k = 0 THEN [x |-> r, y |-> 0, err |-> 0] ELSE ArcStep(s[k - 1])
  IN  s

Arc(r) == LET s == ArcStates(r) IN {s[k] : k \in {i \in 0 .. r : s[i].x >= s[i].y}}

(* plot8 *)
Octants(c, p) ==
  << <<c.x0 + p.x, c.y0 + p.y>>, <<c.x0 + p.y, c.y0 + p.x>>,
     <<c.x0 - p.y, c.y0 + p.x>>, <<c.x0 - p.x, c.y0 + p.y>>,
     <<c.x0 - p.x, c.y0 - p.y>>, <<c.x0 - p.y, c.y0 - p.x>>,
     <<c.x0 + p.y, c.y0 - p.x>>, <<c.x0 + p.x, c.y0 - p.y>> >>

(* hspan: rows as <<row, half its width>>; the rows of a disc. *)
Spans(c, p) == << <<c.y0 + p.y, p.x>>, <<c.y0 - p.y, p.x>>,
                  <<c.y0 + p.x, p.y>>, <<c.y0 - p.x, p.y>> >>

-----------------------------------------------------------------------------
(* How often a command writes pixel q.                                     *)

Between(n, a, b) == IF a <= b THEN a <= n /\ n <= b ELSE b <= n /\ n <= a
InRect(q, x, y, w, h) == x <= q[1] /\ q[1] < x + w /\ y <= q[2] /\ q[2] < y + h

(* The four sides for each i; i counts from the edge inwards. *)
MutOutlineTimes(c, q) ==                            \* y + h - i, x + w - i
  LET inX == c.x0 <= q[1] /\ q[1] < c.x0 + c.x1
      inY == c.y0 <= q[2] /\ q[2] < c.y0 + c.y1
  IN  Cardinality({s \in (0 .. c.u0 - 1) \X (1 .. 4) :       \* i and the side
        \/ s[2] = 1 /\ inX /\ q[2] = c.y0 + s[1]
        \/ s[2] = 2 /\ inX /\ q[2] = c.y0 + c.y1 - s[1]
        \/ s[2] = 3 /\ inY /\ q[1] = c.x0 + s[1]
        \/ s[2] = 4 /\ inY /\ q[1] = c.x0 + c.x1 - s[1]})

OutlineTimes(c, q) ==
  LET inX == c.x0 <= q[1] /\ q[1] < c.x0 + c.x1
      inY == c.y0 <= q[2] /\ q[2] < c.y0 + c.y1
  IN  Cardinality({s \in (0 .. c.u0 - 1) \X (1 .. 4) :       \* i and the side
        \/ s[2] = 1 /\ inX /\ q[2] = c.y0 + s[1]
        \/ s[2] = 2 /\ inX /\ q[2] = c.y0 + c.y1 - 1 - s[1]
        \/ s[2] = 3 /\ inY /\ q[1] = c.x0 + s[1]
        \/ s[2] = 4 /\ inY /\ q[1] = c.x0 + c.x1 - 1 - s[1]})

(* Where the pen is before character i. *)
MutPens(c) ==                     \* the next block touches the last one's end
  LET pen[i \in 1 .. Len(c.data) + 1] ==
        IF i = 1 THEN <<c.x0, c.y0>>
        ELSE IF c.data[i - 1] = "newline" THEN <<c.x0, pen[i - 1][2] + 8 * c.u0>>
        ELSE <<pen[i - 1][1] + 4 * c.u0 - 1, pen[i - 1][2]>>
  IN  pen

Pens(c) ==
  LET pen[i \in 1 .. Len(c.data) + 1] ==
        IF i = 1 THEN <<c.x0, c.y0>>
        ELSE IF c.data[i - 1] = "newline" THEN <<c.x0, pen[i - 1][2] + 8 * c.u0>>
        ELSE <<pen[i - 1][1] + 4 * c.u0 + 1, pen[i - 1][2]>>
  IN  pen

(* A character that is not blank is a block of 4 by 6. *)
TextTimes(c, q) ==
  LET pen == Pens(c)
  IN  Cardinality({i \in 1 .. Len(c.data) :
        c.data[i] = "ink" /\ InRect(q, pen[i][1], pen[i][2], 4 * c.u0, 6 * c.u0)})

Times(c, q) ==
  CASE c.op = "PutPixel" -> IF q = <<c.x0, c.y0>> THEN 1 ELSE 0
    [] c.op \in {"FillRect", "BlendRect"} -> IF InRect(q, c.x0, c.y0, c.x1, c.y1) THEN 1 ELSE 0
    [] c.op = "RectOutline" -> OutlineTimes(c, q)
    [] c.op = "Line" -> LET p == LinePoints(c) IN Cardinality({k \in DOMAIN p : p[k] = q})
    [] c.op = "HLine" -> IF q[2] = c.y0 /\ Between(q[1], c.x0, c.x1) THEN 1 ELSE 0
    [] c.op = "VLine" -> IF q[1] = c.x0 /\ Between(q[2], c.y0, c.y1) THEN 1 ELSE 0
    [] c.op = "Circle" -> Cardinality({s \in Arc(c.x1) \X (1 .. 8) :
                            c.x1 > 0 /\ Octants(c, s[1])[s[2]] = q})
    [] c.op = "FillCircle" -> Cardinality({s \in Arc(c.x1) \X (1 .. 4) :
                            /\ c.x1 > 0 /\ Spans(c, s[1])[s[2]][1] = q[2]
                            /\ AbsVal(q[1] - c.x0) <= Spans(c, s[1])[s[2]][2]})
    [] c.op = "Text" -> TextTimes(c, q)

-----------------------------------------------------------------------------
(* Pixel q, which is d, after command c.                                   *)

SpritePixel(c, q) == c.data[(q[2] - c.y0) * c.u0 + (q[1] - c.x0) + 1]

(* Pixel d after colour s has been written over it so many times. *)
OverTimes(d, s, times) ==
  LET after[k \in 0 .. times] == IF k = 0 THEN d ELSE Over(after[k - 1], s)
  IN  after[times]

DrawPixel(c, q, d) ==
  CASE c.op = "Clear" -> c.color                    \* whatever its alpha
    [] c.op = "BlitSprite" ->
         IF c.x1 > 0 /\ c.y1 > 0 /\ c.u0 > 0 /\ InRect(q, c.x0, c.y0, c.x1, c.y1)
         THEN Over(d, Modulate(SpritePixel(c, q), c.color)) ELSE d
    [] OTHER -> OverTimes(d, c.color, Times(c, q))

(* Command c on the pixels of area only; the others keep their value. *)
Draw(c, area, picture) ==
  [q \in DOMAIN picture |-> IF q \in area THEN DrawPixel(c, q, picture[q]) ELSE picture[q]]
=============================================================================
