----------------------------- MODULE RenderScene -----------------------------
(***************************************************************************)
(* The drawing of one frame: install_render_prep_2d() turns entities into  *)
(* commands, chunk by chunk on the workers (RenderPrep2D.hpp), the client  *)
(* adds its own, SoftwareRenderer::execute() sorts them and draws them     *)
(* tile by tile on the workers (software_renderer.cpp).                    *)
(*                                                                         *)
(* A push is one step here and TaskGroup::wait() complete; RenderQueue and *)
(* TaskGroup are about that, and about a worker too few for the joins to   *)
(* return (MCTaskGroupNested).  What a push on several threads may lose is *)
(* kept: MendingPush shows that the first push after a join publishes all  *)
(* that was recorded before.  The text arena has room for the texts.       *)
(***************************************************************************)
EXTENDS Raster, SequencesExt

CONSTANTS
  KMax,       \* RenderQueue::kMax, kMaxItems
  KTile,      \* kTile
  Scenes,     \* what there may be to draw: for each kind a sequence of
              \* entities, and the commands of the client's render_prep()
  Workers,    \* what worker_count() may be
  Sizes,      \* <<width, height>> of the canvas
  Papers      \* the colours the canvas may have before

Kinds == <<"rect", "sprite", "text">>
NoOrder == << >>      \* an entity without RenderOrder2D

(* The components of an entity (Basic2D.hpp).  Positions and sizes are in  *)
(* halves, where the code has floats; z is what the key of RenderOrder2D   *)
(* was made from: layer, order and tie.                                    *)
UInt16 == 0 .. 2^16 - 1
RenderOrder2D == {NoOrder} \cup (Byte \X UInt16 \X UInt16)
Rect2D == [x : Int, y : Int, w : Int, h : Int, outline : UInt16, color : Colors,
           z : RenderOrder2D]
Sprite2D == [x : Int, y : Int, w : Int, h : Int, stride : UInt16, pixels : Seq(Colors),
             color : Colors, z : RenderOrder2D]
Text2D == [x : Int, y : Int, text : Seq(Chars), scale : Byte,
           color : Colors, z : RenderOrder2D]

Stride(e) == IF e.stride # 0 THEN e.stride ELSE e.w % 2^16

ASSUME SceneAssumption ==
  /\ \A s \in Scenes :
       /\ s.rect \in Seq(Rect2D) /\ s.sprite \in Seq(Sprite2D) /\ s.text \in Seq(Text2D)
       /\ \A i \in DOMAIN s.sprite : LET e == s.sprite[i]
                                    IN  HasRows(e.pixels, e.w, e.h, Stride(e))
       /\ s.client \in Seq(Range(s.client)) /\ \A c \in Range(s.client) : IsCmd(c)
  /\ KMax \in Nat \ {0} /\ KTile \in Nat \ {0}
  /\ Workers \subseteq Nat /\ Sizes \subseteq Nat \X Nat /\ Papers \subseteq Colors

VARIABLES
  scene,      \* one of Scenes
  workers,    \* worker_count()
  drawers,    \* worker_count() as execute() sees it: run() calls it without
              \* a context, and then there is no pool
  items,      \* the snapshot, which the main thread takes before anything
              \* else runs: for each kind the commands its items become
  stage,      \* the kind whose chunks run, or what comes next
  next,       \* how many of its items each chunk has emitted
  queue,      \* the claimed slots of the queue: <<kind, index of the item>>
  sure,       \* so many of them are published whatever the store buffers do
  order,      \* order
  painted,    \* how many commands each tile has drawn
  canvas,     \* the pixels
  before      \* the canvas as the frame found it

vars == <<scene, workers, drawers, items, stage, next, queue, sure, order, painted, canvas, before>>

-----------------------------------------------------------------------------
(* The snapshot of the registry.                                           *)

(* (int) of a float: towards zero. *)
Trunc(halves) == IF halves >= 0 THEN halves \div 2 ELSE -((-halves) \div 2)

Key(e) == IF e.z = NoOrder THEN 0 ELSE MakeSortKey(e.z[1], e.z[2], e.z[3])

Drawn(kind, e) == CASE kind = "rect" -> TRUE
                    [] kind = "sprite" -> e.pixels # << >> /\ e.w > 0 /\ e.h > 0
                    [] kind = "text" -> e.text # << >>

DrawnOnes(kind, all) ==
  LET drawn[i \in 0 .. Len(all)] ==
        IF i = 0 THEN << >>
        ELSE IF Drawn(kind, all[i]) THEN Append(drawn[i - 1], all[i]) ELSE drawn[i - 1]
  IN  drawn[Len(all)]

(* What emit_one pushes for an entity. *)
CommandOf(kind, e) ==
  LET x == Trunc(e.x)
      y == Trunc(e.y)
  IN  CASE kind = "rect" ->
             IF e.outline > 0
             THEN rect_outline(x, y, Trunc(e.w), Trunc(e.h), e.outline, e.color, Key(e))
             ELSE fill_rect(x, y, Trunc(e.w), Trunc(e.h), e.color, Key(e))
        [] kind = "sprite" ->
             blit_sprite(x, y, e.pixels, e.w, e.h, Stride(e), e.color, Key(e))
        [] kind = "text" -> text(x, y, e.text, e.color, Key(e), e.scale)

(* rects, sprites and texts, at most KMax of each. *)
Snapshot(kind, all) ==
  LET drawn == DrawnOnes(kind, all)
  IN  [i \in 1 .. Min({Len(drawn), KMax}) |-> CommandOf(kind, drawn[i])]

-----------------------------------------------------------------------------
Pixels(size) == (0 .. size[1] - 1) \X (0 .. size[2] - 1)

Stages == {"rect", "sprite", "text", "client", "sort", "tiles", "done"}

Init ==
  /\ scene \in Scenes /\ workers \in Workers /\ drawers \in {0, workers}
  /\ items = [kind \in Range(Kinds) \cup {"client"} |->
                IF kind = "client" THEN scene.client ELSE Snapshot(kind, scene[kind])]
  /\ stage = "rect"
  /\ next = [ci \in 0 .. Max({workers, 1}) - 1 |-> 0]
  /\ queue = << >> /\ sure = 0 /\ order = << >> /\ painted = << >>
  /\ \E size \in Sizes, paper \in Papers : canvas = [q \in Pixels(size) |-> paper]
  /\ before = canvas

(* run_chunks(): the items [b, e) of chunk ci; without workers there is one. *)
MutChunk(ci) ==                                     \* chunk_size rounded down
  LET count == Len(items[stage])
      chunk_size == count \div Cardinality(DOMAIN next)
  IN  [b |-> ci * chunk_size, e |-> Min({(ci + 1) * chunk_size, count})]

Chunk(ci) ==
  LET count == Len(items[stage])
      chunks == Cardinality(DOMAIN next)
      chunk_size == (count + chunks - 1) \div chunks
  IN  [b |-> ci * chunk_size, e |-> Min({(ci + 1) * chunk_size, count})]

Left(ci) == Chunk(ci).b + next[ci] < Chunk(ci).e

(* The queue after a push, and what is certainly published: all up to a    *)
(* push that comes before any of another thread since the last join.       *)
EmitOne(ci) ==
  /\ stage \in Range(Kinds) /\ Left(ci)
  /\ next' = [next EXCEPT ![ci] = @ + 1]
  /\ IF Len(queue) >= KMax THEN UNCHANGED <<queue, sure>>
     ELSE /\ queue' = Append(queue, <<stage, Chunk(ci).b + next[ci] + 1>>)
          /\ sure' = IF \A cj \in DOMAIN next \ {ci} : next[cj] = 0
                     THEN Len(queue') ELSE sure
  /\ UNCHANGED <<scene, workers, drawers, items, stage, order, painted, canvas, before>>

(* tg.wait() of a kind; the next kind. *)
JoinChunks ==
  /\ stage \in Range(Kinds) /\ \A ci \in DOMAIN next : ~Left(ci)
  /\ stage' = CASE stage = "rect" -> "sprite" [] stage = "sprite" -> "text"
                [] stage = "text" -> "client"
  /\ next' = [ci \in DOMAIN next |-> 0]
  /\ UNCHANGED <<scene, workers, drawers, items, queue, sure, order, painted, canvas, before>>

(* Client::render_prep(), on the main thread. *)
ClientRecords ==
  /\ stage = "client"
  /\ LET ids == [i \in DOMAIN items.client |-> <<"client", i>>]
     IN  /\ queue' = SubSeq(queue \o ids, 1, Min({Len(queue) + Len(ids), KMax}))
         /\ sure' = IF queue' = queue THEN sure ELSE Len(queue')
  /\ stage' = "sort"
  /\ UNCHANGED <<scene, workers, drawers, items, next, order, painted, canvas, before>>

-----------------------------------------------------------------------------
(* execute().                                                              *)

Width == Cardinality({q[1] : q \in DOMAIN canvas})
Height == Cardinality({q[2] : q \in DOMAIN canvas})

(* The part of the canvas, KTile wide and high, that begins at <<x0, y0>>. *)
TileAt(x0, y0) == (x0 .. Min({x0 + KTile, Width}) - 1) \X (y0 .. Min({y0 + KTile, Height}) - 1)

MutTiles ==                                       \* the last tiles are missing
  LET tiles_x == Width \div KTile
      tiles_y == Height \div KTile
  IN  IF drawers > 0 /\ tiles_x * tiles_y >= 2
      THEN [k \in 1 .. tiles_x * tiles_y |->
              TileAt(((k - 1) % tiles_x) * KTile, ((k - 1) \div tiles_x) * KTile)]
      ELSE <<DOMAIN canvas>>

(* Row by row, as execute() hands them out. *)
Tiles ==
  LET tiles_x == (Width + KTile - 1) \div KTile
      tiles_y == (Height + KTile - 1) \div KTile
  IN  IF drawers > 0 /\ tiles_x * tiles_y >= 2
      THEN [k \in 1 .. tiles_x * tiles_y |->
              TileAt(((k - 1) % tiles_x) * KTile, ((k - 1) \div tiles_x) * KTile)]
      ELSE <<DOMAIN canvas>>

Queued(i) == items[queue[i][1]][queue[i][2]]

(* The published commands in an order std::sort may leave them in. *)
Sort ==
  /\ stage = "sort"
  /\ \E n \in sure .. Len(queue) :
       IF n = 0 THEN stage' = "done" /\ UNCHANGED <<order, painted>>
       ELSE /\ order' \in {s \in SetToSeqs(1 .. n) : \A i \in 1 .. n - 1 :
                             Queued(s[i]).key <= Queued(s[i + 1]).key}
            /\ painted' = [k \in DOMAIN Tiles |-> 0]
            /\ stage' = "tiles"
  /\ UNCHANGED <<scene, workers, drawers, items, next, queue, sure, canvas, before>>

(* The workers take the tiles in turn, so at most one for each worker has  *)
(* been taken and is not finished.                                         *)
Taken(k) == drawers = 0 \/ Cardinality({j \in 1 .. k - 1 : painted[j] < Len(order)}) < drawers

(* execute_tile_(): the next command on tile k. *)
DrawNext(k) ==
  /\ stage = "tiles" /\ painted[k] < Len(order) /\ Taken(k)
  /\ canvas' = Draw(Queued(order[painted[k] + 1]), Tiles[k], canvas)
  /\ painted' = [painted EXCEPT ![k] = @ + 1]
  /\ UNCHANGED <<scene, workers, drawers, items, stage, next, queue, sure, order, before>>

(* tg.wait() *)
JoinTiles ==
  /\ stage = "tiles" /\ \A k \in DOMAIN painted : painted[k] = Len(order)
  /\ stage' = "done"
  /\ UNCHANGED <<scene, workers, drawers, items, next, queue, sure, order, painted, canvas, before>>

Next ==
  \/ \E ci \in DOMAIN next : EmitOne(ci)
  \/ JoinChunks \/ ClientRecords \/ Sort
  \/ \E k \in DOMAIN painted : DrawNext(k)
  \/ JoinTiles

Spec == Init /\ [][Next]_vars

-----------------------------------------------------------------------------
(* Also: no pixel leaves the range of a byte, so the casts of blend_over() *)
(* and modulate() cut nothing off.                                         *)
TypeOK ==
  /\ stage \in Stages
  /\ next \in [DOMAIN next -> 0 .. KMax]
  /\ \A i \in DOMAIN queue : queue[i][2] \in DOMAIN items[queue[i][1]]
  /\ Len(queue) <= KMax /\ sure \in 0 .. Len(queue)
  /\ Range(order) \subseteq DOMAIN queue
  /\ canvas \in [DOMAIN before -> Colors]

(* Once the client has recorded, every drawable entity and every command   *)
(* of the client is in the queue exactly once, however the items divide    *)
(* among the chunks; when there are too many, the queue is full, and no    *)
(* slot is given to one of them twice.                                     *)
QueueHoldsScene ==
  stage \in {"sort", "tiles", "done"} =>
    /\ IsInjective(queue)
    /\ Len(queue) = Min({Len(DrawnOnes("rect", scene.rect)) + Len(DrawnOnes("sprite", scene.sprite))
                          + Len(DrawnOnes("text", scene.text)) + Len(scene.client), KMax})

(* The picture is the one a single painter makes: it does not show how the *)
(* work was divided into chunks and tiles, nor in which order they ran.    *)
Recorded == items.rect \o items.sprite \o items.text \o items.client
Picture == IF stage = "done" THEN canvas ELSE before
P == INSTANCE Painter WITH
       Capacity <- KMax,
       commands <- Recorded,
       joined <- workers <= 1 \/ (items.client # << >> /\ Len(Recorded) <= KMax),
       picture <- Picture,
       shown <- stage = "done"
ImplementsPainter == P!Spec

(* An entity of a higher layer is drawn after one of a lower layer,        *)
(* whatever their order and tie: values of these that are too wide for     *)
(* their 12 bits do not spill into the layer (RenderQueue.hpp, "z-index"). *)
LayersStack ==
  LET Layer(i) == LET id == queue[order[i]]
                      z == DrawnOnes(id[1], scene[id[1]])[id[2]].z
                  IN  IF id[1] = "client" THEN SortLayer(items.client[id[2]].key)
                      ELSE IF z = NoOrder THEN 0 ELSE z[1]
  IN  \A i, j \in DOMAIN order : i < j => Layer(i) <= Layer(j)

(* On an opaque canvas that is cleared with opaque colours every pixel     *)
(* stays opaque: truncating divisions take nothing off alpha.              *)
CanvasStaysOpaque ==
  /\ \A q \in DOMAIN before : before[q].a = 255
  /\ \A i \in DOMAIN scene.client : scene.client[i].op = "Clear" => scene.client[i].color.a = 255
  => \A q \in DOMAIN canvas : canvas[q].a = 255

(* The shapes are looked at once per scene, when its frame is done.        *)
Commands(ops) == {c \in Range(Recorded) : stage = "done" /\ c.op \in ops}

(* raster_line() ends, at its second end point, after as many points as    *)
(* the longer axis has, and no point is further than half a pixel (along   *)
(* the shorter axis) from the ideal line.                                  *)
LinesAreStraight ==
  \A c \in Commands({"Line"}) :
    LET p == LinePoints(c)
        dx == c.x1 - c.x0
        dy == c.y1 - c.y0
        longer == Max({AbsVal(dx), AbsVal(dy)})
    IN  /\ Len(p) = longer + 1 /\ p[Len(p)] = <<c.x1, c.y1>>
        /\ \A k \in DOMAIN p :
             2 * AbsVal(dy * (p[k][1] - c.x0) - dx * (p[k][2] - c.y0)) <= longer

(* A circle has no gap: each of its pixels has two neighbours on it.  None *)
(* is outside the radius or more than a pixel and a half inside it, and    *)
(* the disc of FillCircle is what the circle encloses, row by row.         *)
CirclesAreClosed ==
  \A c \in Commands({"Circle"}) : c.x1 > 0 =>
    LET pts == {Octants(c, p)[i] : p \in Arc(c.x1), i \in 1 .. 8}
        Dist2(q) == (q[1] - c.x0) * (q[1] - c.x0) + (q[2] - c.y0) * (q[2] - c.y0)
        Near(q) == {n \in pts \ {q} : AbsVal(n[1] - q[1]) <= 1 /\ AbsVal(n[2] - q[2]) <= 1}
        disc == fill_circle(c.x0, c.y0, c.x1, c.color, c.key)
    IN  /\ \A q \in pts : /\ Cardinality(Near(q)) >= 2
                          /\ Dist2(q) <= c.x1 * c.x1
                          /\ c.x1 > 1 => 4 * Dist2(q) >= (2 * c.x1 - 3) * (2 * c.x1 - 3)
        /\ \A q \in DOMAIN canvas :
             LET side == {p[1] : p \in {n \in pts : n[2] = q[2]}}
             IN  (Times(disc, q) > 0) <=>
                   side # {} /\ Min(side) <= q[1] /\ q[1] <= Max(side)

(* An outline that fits is the rectangle less the one that lies inside it. *)
OutlineIsRing ==
  \A c \in Commands({"RectOutline"}) : c.u0 <= Min({c.x1, c.y1}) =>
    \A q \in DOMAIN canvas :
      (Times(c, q) > 0) <=>
        /\ InRect(q, c.x0, c.y0, c.x1, c.y1)
        /\ ~InRect(q, c.x0 + c.u0, c.y0 + c.u0, c.x1 - 2 * c.u0, c.y1 - 2 * c.u0)

(* A translucent rectangle, line or text is blended evenly: these write no *)
(* pixel twice (outlines and circles do, at their corners and octants).    *)
BlendsOnce ==
  \A c \in Commands({"FillRect", "BlendRect", "Line", "HLine", "VLine", "Text"}) :
    \A q \in DOMAIN canvas : Times(c, q) <= 1
=============================================================================
