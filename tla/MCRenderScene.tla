---------------------------- MODULE MCRenderScene ----------------------------
(* Scenes of RenderScene for TLC. *)
EXTENDS RenderScene

RGBA(r, g, b, a) == [r |-> r, g |-> g, b |-> b, a |-> a]
White == RGBA(255, 255, 255, 255)
Blue == RGBA(0, 0, 255, 255)
Glass == RGBA(255, 255, 255, 128)
Rose == RGBA(255, 0, 128, 77)
None == RGBA(9, 9, 9, 0)

MCPapers == {RGBA(0, 0, 0, 255), RGBA(254, 254, 254, 254)}
MCSizes == {<<5, 3>>, <<2, 2>>, <<0, 3>>}

Rect(x, y, w, h, t, c, z) ==
  [x |-> x, y |-> y, w |-> w, h |-> h, outline |-> t, color |-> c, z |-> z]
Sprite(x, y, w, h, stride, pixels, c, z) ==
  [x |-> x, y |-> y, w |-> w, h |-> h, stride |-> stride, pixels |-> pixels, color |-> c, z |-> z]
Text(x, y, s, scale, c, z) == [x |-> x, y |-> y, text |-> s, scale |-> scale, color |-> c, z |-> z]

Scene(rects, sprites, texts, client) ==
  [rect |-> rects, sprite |-> sprites, text |-> texts, client |-> client]
OfClient(c) == Scene(<< >>, << >>, << >>, <<c>>)

R1 == Rect(-3, 1, 9, 4, 0, Rose, <<1, 5000, 0>>)
R2 == Rect(2, -1, 6, 6, 1, Glass, <<1, 1, 4095>>)
R3 == Rect(5, 2, 9, 9, 0, Blue, NoOrder)
S1 == Sprite(1, 1, 3, 2, 0, <<White, Glass, None, Blue, White, Rose>>, Glass, <<2, 0, 9000>>)
S2 == Sprite(5, -2, 2, 2, 3, <<Rose, White, None, White, Blue, None>>, White, <<1, 1, 4095>>)
S3 == Sprite(0, 0, 0, 2, 0, <<White>>, White, NoOrder)
T1 == Text(0, -4, <<"ink", "space", "newline", "ink">>, 0, Glass, <<3, 0, 0>>)
T2 == Text(0, 0, << >>, 1, White, NoOrder)

(* Entities of every kind, with the client's commands and without; some    *)
(* with more than KMax = 4, and one of which two chunks push at once and   *)
(* which leaves room for the client's command.                             *)
Mixed == {
  Scene(<< >>, << >>, << >>, << >>),
  Scene(<<R1, R2, R3>>, <<S3>>, <<T2>>, << >>),
  Scene(<<R2>>, <<S3, S1, S2>>, << >>, << >>),
  Scene(<<R1, R2>>, <<S3>>, <<T1>>, <<hline(0, 4, 1, Blue, MakeSortKey(1, 1, 4095))>>),
  Scene(<<R2, R1, R3, R1, R2>>, << >>, << >>, <<clear(White, 0)>>),
  Scene(<< >>, <<S2>>, <<T1, T2>>, <<clear(RGBA(9, 9, 9, 200), MakeSortKey(0, 0, 0))>>),
  Scene(<<R1, R2, R3>>, <<S1>>, <<T1>>, <<hline(4, 0, 1, Rose, MakeSortKey(4, 0, 0))>>)}

(* The shapes on their own. *)
Shapes ==
  {line(0, 0, x, y, Rose, 0) : x \in -6 .. 6, y \in -6 .. 6}
  \cup {circle(2, 1, r, Rose, 0) : r \in -1 .. 12}
  \cup {fill_circle(1, 1, r, Rose, 0) : r \in 0 .. 3}
  \cup {rect_outline(0, 0, w, h, t, Glass, 0) : w \in 3 .. 5, h \in 2 .. 3, t \in 0 .. 3}
  \cup {put_pixel(4, 2, Glass, 7), blend_rect(1, 1, 9, 1, Rose, 0), hline(3, 1, 2, Glass, 0),
        vline(1, 9, -9, Rose, 0), text(-3, -5, <<"ink", "ink">>, Glass, 0, 2), clear(None, 0)}

MCScenes == Mixed \cup {OfClient(c) : c \in Shapes}
=============================================================================
