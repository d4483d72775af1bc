-------------------------- MODULE RenderSceneProofs --------------------------
(***************************************************************************)
(* Proofs about RenderScene, for every scene, every number of workers and  *)
(* every canvas: what is in the queue when the client has recorded, that   *)
(* layers stack, that an opaque canvas stays opaque, that the shapes of a  *)
(* frame are what they should be, and that a frame implements Painter.     *)
(***************************************************************************)
EXTENDS RenderScene, RasterProofs

AllKinds == {"rect", "sprite", "text"}

(* Everything there may be in the queue. *)
Ids == UNION {{kind} \X DOMAIN items[kind] : kind \in AllKinds}
AllIds == Ids \cup ({"client"} \X DOMAIN items["client"])

Rank(s) == CASE s = "rect" -> 1 [] s = "sprite" -> 2 [] s = "text" -> 3 [] OTHER -> 4

(* What the chunks have emitted so far: all of the earlier kinds, and of   *)
(* this one the items each chunk has got to.                               *)
Emitted ==
  {id \in Ids : \/ Rank(id[1]) < Rank(stage)
                \/ /\ id[1] = stage
                   /\ \E ci \in DOMAIN next :
                        Chunk(ci).b < id[2] /\ id[2] <= Chunk(ci).b + next[ci]}

(* What Init sets and no step changes. *)
FrameInv ==
  /\ scene \in Scenes /\ workers \in Nat
  /\ items = [kind \in Range(Kinds) \cup {"client"} |->
                IF kind = "client" THEN scene.client ELSE Snapshot(kind, scene[kind])]
  /\ before \in [DOMAIN before -> Colors] /\ DOMAIN before \subseteq Int \X Int

(* No chunk runs over its end. *)
ChunkInv ==
  /\ stage \in Stages
  /\ DOMAIN next = 0 .. Max({workers, 1}) - 1
  /\ next \in [DOMAIN next -> 0 .. KMax]
  /\ stage \in AllKinds =>
       \A ci \in DOMAIN next : next[ci] = 0 \/ Chunk(ci).b + next[ci] <= Chunk(ci).e

(* The queue holds what was emitted, each once, as far as it has room.     *)
QueueInv ==
  /\ queue \in Seq(AllIds) /\ IsInjective(queue) /\ sure \in 0 .. Len(queue)
  /\ stage \in AllKinds \cup {"client"} =>
       Range(queue) \subseteq Emitted /\ Len(queue) = Min({Cardinality(Emitted), KMax})
  /\ stage \notin AllKinds \cup {"client"} =>
       Len(queue) = Min({Cardinality(Ids) + Len(items["client"]), KMax})

(* The order is one of the keys. *)
OrderInv ==
  /\ order \in Seq(1 .. Len(queue)) /\ painted \in [DOMAIN painted -> 0 .. Len(order)]
  /\ stage \notin {"tiles", "done"} => order = << >> /\ painted = << >>
  /\ \A i \in 1 .. Len(order) - 1 : Queued(order[i]).key <= Queued(order[i + 1]).key

CanvasInv == canvas \in [DOMAIN before -> Colors] /\ CanvasStaysOpaque

SceneInv == FrameInv /\ ChunkInv /\ QueueInv /\ OrderInv /\ CanvasInv

-----------------------------------------------------------------------------
(* Entities and their commands.                                            *)

(* The smaller of two numbers, as std::min() takes it.                      *)
LEMMA MinOfTwo ==
  ASSUME NEW a \in Int, NEW b \in Int
  PROVE  Min({a, b}) = IF a <= b THEN a ELSE b
BY DEF Min

(* The larger of two numbers, as std::max() takes it.                       *)
LEMMA MaxOfTwo ==
  ASSUME NEW a \in Int, NEW b \in Int
  PROVE  Max({a, b}) = IF a >= b THEN a ELSE b
BY DEF Max

(* The components of an entity of a kind in a scene.                       *)
Entity(kind) ==
  CASE kind = "rect" -> Rect2D
    [] kind = "sprite" -> {e \in Sprite2D : HasRows(e.pixels, e.w, e.h, Stride(e))}
    [] kind = "text" -> Text2D

(* The cast to int gives a whole number.                                    *)
LEMMA TruncIsInt ==
  ASSUME NEW n \in Int
  PROVE  Trunc(n) \in Int
BY DEF Trunc

(* sort_layer() undoes make_sort_key(), whatever order and tie are: they   *)
(* do not reach the bits of the layer.                                     *)
THEOREM LayerOfKey ==
  ASSUME NEW l \in Nat, NEW o \in Nat, NEW t \in Nat
  PROVE  MakeSortKey(l, o, t) \in Nat /\ SortLayer(MakeSortKey(l, o, t)) = l
<1> DEFINE a == o % 2^12
           b == t % 2^12
<1>1. 2^12 = 4096 /\ 2^24 = 16777216
  OBVIOUS
<1>2. a \in 0 .. 4095 /\ b \in 0 .. 4095
  BY <1>1
<1>3. MakeSortKey(l, o, t) = l * 16777216 + a * 4096 + b
  BY <1>1 DEF MakeSortKey
<1> HIDE DEF a, b
<1>4. l * 16777216 + a * 4096 + b \in Nat
      /\ (l * 16777216 + a * 4096 + b) \div 16777216 = l
  BY <1>2
<1> QED BY <1>1, <1>3, <1>4 DEF SortLayer

(* The fields of a sort key are numbers.                                    *)
LEMMA SmallNumbers == Byte \subseteq Nat /\ UInt16 \subseteq Nat
<1>1. 2^16 = 65536
  OBVIOUS
<1> QED BY <1>1 DEF Byte, UInt16

(* The layer of an entity can be read off its key; one without an order is  *)
(* in layer 0.                                                              *)
LEMMA KeyOfEntity ==
  ASSUME NEW e, e.z \in RenderOrder2D
  PROVE  Key(e) \in Nat /\ SortLayer(Key(e)) = IF e.z = NoOrder THEN 0 ELSE e.z[1]
<1>1. CASE e.z = NoOrder
  <2>1. Key(e) = 0 /\ 2^24 = 16777216
    BY <1>1 DEF Key
  <2> QED BY <1>1, <2>1 DEF SortLayer
<1>2. CASE e.z # NoOrder
  <2>1. e.z \in Byte \X UInt16 \X UInt16
    BY <1>2 DEF RenderOrder2D
  <2> DEFINE l == e.z[1]
             o == e.z[2]
             t == e.z[3]
  <2>2. l \in Nat /\ o \in Nat /\ t \in Nat
    BY <2>1, SmallNumbers
  <2>3. Key(e) = MakeSortKey(l, o, t)
    BY <1>2 DEF Key
  <2>4. (IF e.z = NoOrder THEN 0 ELSE e.z[1]) = l
    BY <1>2
  <2> HIDE DEF l, o, t
  <2>5. MakeSortKey(l, o, t) \in Nat /\ SortLayer(MakeSortKey(l, o, t)) = l
    BY <2>2, LayerOfKey
  <2> QED BY <2>3, <2>4, <2>5
<1> QED BY <1>1, <1>2

(* What an entity becomes is a command whose key is its own, and no Clear. *)
LEMMA CommandOfEntity ==
  ASSUME NEW kind \in AllKinds, NEW e \in Entity(kind)
  PROVE  /\ IsCmd(CommandOf(kind, e)) /\ CommandOf(kind, e).op # "Clear"
         /\ CommandOf(kind, e).key = Key(e) /\ e.z \in RenderOrder2D
<1>1. CASE kind = "rect"
  <2>1. /\ e.x \in Int /\ e.y \in Int /\ e.w \in Int /\ e.h \in Int /\ e.outline \in Nat
        /\ e.color \in Colors /\ e.z \in RenderOrder2D
    BY <1>1, SmallNumbers DEF Entity, Rect2D
  <2>2. /\ Trunc(e.x) \in Int /\ Trunc(e.y) \in Int /\ Trunc(e.w) \in Int /\ Trunc(e.h) \in Int
        /\ Key(e) \in Nat
    BY <2>1, TruncIsInt, KeyOfEntity
  <2>3. CommandOf(kind, e) =
          IF e.outline > 0
          THEN rect_outline(Trunc(e.x), Trunc(e.y), Trunc(e.w), Trunc(e.h), e.outline, e.color, Key(e))
          ELSE fill_rect(Trunc(e.x), Trunc(e.y), Trunc(e.w), Trunc(e.h), e.color, Key(e))
    BY <1>1 DEF CommandOf
  <2> QED BY <2>1, <2>2, <2>3 DEF IsCmd, Ops, Cmd, rect_outline, fill_rect
<1>2. CASE kind = "sprite"
  <2>1. /\ e.x \in Int /\ e.y \in Int /\ e.w \in Int /\ e.h \in Int /\ e.stride \in Nat
        /\ e.color \in Colors /\ e.z \in RenderOrder2D /\ e.pixels \in Seq(Colors)
        /\ HasRows(e.pixels, e.w, e.h, Stride(e))
    BY <1>2, SmallNumbers DEF Entity, Sprite2D
  <2>2. Trunc(e.x) \in Int /\ Trunc(e.y) \in Int /\ Key(e) \in Nat /\ Stride(e) \in Nat
    <3>1. 2^16 = 65536
      OBVIOUS
    <3>2. e.w % 65536 \in Nat
      BY <2>1
    <3>3. Stride(e) \in Nat
      BY <2>1, <3>1, <3>2 DEF Stride
    <3>4. Trunc(e.x) \in Int /\ Trunc(e.y) \in Int
      BY <2>1, TruncIsInt
    <3> QED BY <2>1, <3>3, <3>4, KeyOfEntity
  <2>3. CommandOf(kind, e) =
          blit_sprite(Trunc(e.x), Trunc(e.y), e.pixels, e.w, e.h, Stride(e), e.color, Key(e))
    BY <1>2 DEF CommandOf
  <2> QED BY <2>1, <2>2, <2>3 DEF IsCmd, Ops, Cmd, blit_sprite
<1>3. CASE kind = "text"
  <2>1. /\ e.x \in Int /\ e.y \in Int /\ e.scale \in Nat
        /\ e.color \in Colors /\ e.z \in RenderOrder2D /\ e.text \in Seq(Chars)
    BY <1>3, SmallNumbers DEF Entity, Text2D
  <2>2. Trunc(e.x) \in Int /\ Trunc(e.y) \in Int /\ Key(e) \in Nat
    BY <2>1, TruncIsInt, KeyOfEntity
  <2>3. CommandOf(kind, e) = text(Trunc(e.x), Trunc(e.y), e.text, e.color, Key(e), e.scale)
    BY <1>3 DEF CommandOf
  <2> QED BY <2>1, <2>2, <2>3 DEF IsCmd, Ops, Cmd, text
<1> QED BY <1>1, <1>2, <1>3 DEF AllKinds

(* The entities that have something to draw are entities of the scene.     *)
LEMMA DrawnAreEntities ==
  ASSUME scene \in Scenes, NEW kind \in AllKinds
  PROVE  DrawnOnes(kind, scene[kind]) \in Seq(Entity(kind))
<1> DEFINE all == scene[kind]
           n == Len(all)
           S == Seq(Entity(kind))
           Keep(i, s) == IF Drawn(kind, all[i]) THEN Append(s, all[i]) ELSE s
           F == [t \in Nat \X S |-> IF t[1] \in 1 .. n THEN Keep(t[1], t[2]) ELSE t[2]]
           drawn[i \in 0 .. n] == IF i = 0 THEN << >> ELSE Keep(i, drawn[i - 1])
<1>1. all \in S
  <2>1. /\ scene.rect \in Seq(Rect2D) /\ scene.sprite \in Seq(Sprite2D) /\ scene.text \in Seq(Text2D)
        /\ \A i \in DOMAIN scene.sprite :
             HasRows(scene.sprite[i].pixels, scene.sprite[i].w, scene.sprite[i].h,
                     Stride(scene.sprite[i]))
    BY SceneAssumption
  <2>2. CASE kind = "rect"
    BY <2>1, <2>2 DEF Entity
  <2>3. CASE kind = "text"
    BY <2>1, <2>3 DEF Entity
  <2>4. CASE kind = "sprite"
    <3> DEFINE E == {e \in Sprite2D : HasRows(e.pixels, e.w, e.h, Stride(e))}
    <3>1. Entity(kind) = E /\ all = scene.sprite
      BY <2>4 DEF Entity
    <3> DEFINE m == Len(scene.sprite)
    <3>2. m \in Nat /\ DOMAIN scene.sprite = 1 .. m /\ scene.sprite \in [1 .. m -> Sprite2D]
      BY <2>1, LenProperties
    <3>3. scene.sprite \in [1 .. m -> E]
      BY <2>1, <3>2
    <3> HIDE DEF E, m
    <3>4. scene.sprite \in Seq(E)
      BY <3>2, <3>3
    <3> QED BY <3>1, <3>4
  <2> QED BY <2>2, <2>3, <2>4 DEF AllKinds
<1>2. n \in Nat /\ \A i \in 1 .. n : all[i] \in Entity(kind)
  BY <1>1
<1>3. ASSUME NEW i \in 1 .. n, NEW s \in S PROVE Keep(i, s) \in S
  <2>1. all[i] \in Entity(kind)
    BY <1>2
  <2>2. Append(s, all[i]) \in S
    BY <2>1, AppendProperties
  <2> QED BY <2>2
<1>4. F \in [Nat \X S -> S] /\ << >> \in S
  <2>1. << >> \in S
    BY EmptySeq
  <2> HIDE DEF S, Keep
  <2> QED BY <1>3, <2>1
<1>5. PICK v : IsRun(v, S, << >>, n, F)
  <2> HIDE DEF S, F, n, drawn, Keep, all
  <2> QED BY <1>2, <1>4, LoopRuns
<1>6. ASSUME NEW i \in 0 .. n, i # 0 PROVE v[i] = Keep(i, v[i - 1])
  <2>1. i - 1 \in 0 .. n /\ i \in 1 .. n /\ i \in Nat
    BY <1>2, <1>6
  <2>2. v[i - 1] \in S /\ v[i] = F[<<i, v[i - 1]>>]
    BY <1>5, <2>1 DEF IsRun
  <2> HIDE DEF S, Keep
  <2>3. F[<<i, v[i - 1]>>] = Keep(i, v[i - 1])
    BY <2>1, <2>2
  <2> HIDE DEF F
  <2> QED BY <2>2, <2>3
<1>7. v = [i \in 0 .. n |-> IF i = 0 THEN << >> ELSE Keep(i, v[i - 1])]
  <2> HIDE DEF F, S, n, Keep
  <2> QED BY <1>5, <1>6 DEF IsRun
<1>8. drawn = [i \in 0 .. n |-> IF i = 0 THEN << >> ELSE Keep(i, drawn[i - 1])]
  <2> HIDE DEF F, S, n, Keep
  <2> QED BY <1>7
<1>9. DrawnOnes(kind, scene[kind]) = drawn[n]
  BY DEF DrawnOnes
<1> HIDE DEF drawn, n, all, S, Keep
<1> DEFINE G == {i \in 0 .. n : drawn[i] \in S}
<1>10. \A i \in 0 .. n : i \in G
  <2>1. 0 \in G
    BY <1>2, <1>4, <1>8
  <2>2. ASSUME NEW i \in 0 .. n, i > 0, i - 1 \in G PROVE i \in G
    <3>1. drawn[i] = Keep(i, drawn[i - 1]) /\ i \in 1 .. n /\ drawn[i - 1] \in S
      BY <1>8, <2>2
    <3> QED BY <1>3, <3>1
  <2>3. 0 \in Int /\ n \in Int
    BY <1>2
  <2> HIDE DEF G
  <2> QED BY <2>1, <2>2, <2>3, IntervalInduction
<1> QED BY <1>2, <1>9, <1>10 DEF S

(* The snapshot of a kind: its commands, and which entity each is of.      *)
LEMMA SnapshotOfKind ==
  ASSUME scene \in Scenes, NEW kind \in AllKinds
  PROVE  LET drawn == DrawnOnes(kind, scene[kind])
             n == IF Len(drawn) <= KMax THEN Len(drawn) ELSE KMax
         IN  /\ Len(drawn) \in Nat /\ Snapshot(kind, scene[kind]) = [i \in 1 .. n |-> CommandOf(kind, drawn[i])]
             /\ \A i \in 1 .. n : drawn[i] \in Entity(kind)
<1> DEFINE drawn == DrawnOnes(kind, scene[kind])
           n == IF Len(drawn) <= KMax THEN Len(drawn) ELSE KMax
<1>1. drawn \in Seq(Entity(kind)) /\ Len(drawn) \in Nat /\ KMax \in Nat
  BY DrawnAreEntities, SceneAssumption
<1>2. Min({Len(drawn), KMax}) = n
  BY <1>1, MinOfTwo
<1>3. Snapshot(kind, scene[kind]) = [i \in 1 .. n |-> CommandOf(kind, drawn[i])]
  <2> HIDE DEF n
  <2> QED BY <1>2 DEF Snapshot
<1>4. \A i \in 1 .. n : drawn[i] \in Entity(kind)
  <2> HIDE DEF drawn
  <2> QED BY <1>1, ElementOfSeq
<1> QED BY <1>1, <1>3, <1>4

(* What the snapshot is made of.                                           *)
LEMMA ItemsOfFrame ==
  ASSUME FrameInv
  PROVE  /\ \A kind \in AllKinds :
              LET drawn == DrawnOnes(kind, scene[kind])
                  n == Len(items[kind])
              IN  /\ n \in 0 .. KMax /\ DOMAIN items[kind] = 1 .. n
                  /\ Len(drawn) \in Nat /\ n = IF Len(drawn) <= KMax THEN Len(drawn) ELSE KMax
                  /\ items[kind] \in [1 .. n -> Range(items[kind])]
                  /\ \A i \in 1 .. n :
                       /\ IsCmd(items[kind][i]) /\ items[kind][i].op # "Clear"
                       /\ items[kind][i].key = Key(drawn[i]) /\ drawn[i].z \in RenderOrder2D
         /\ items["client"] = scene.client /\ scene.client \in Seq(Range(scene.client))
         /\ Len(scene.client) \in Nat /\ DOMAIN scene.client = 1 .. Len(scene.client)
         /\ \A i \in DOMAIN scene.client : IsCmd(scene.client[i])
<1>1. Range(Kinds) = AllKinds
  <2>1. DOMAIN Kinds = 1 .. 3 /\ Kinds[1] = "rect" /\ Kinds[2] = "sprite" /\ Kinds[3] = "text"
    BY DEF Kinds
  <2>2. Range(Kinds) = {Kinds[i] : i \in 1 .. 3}
    BY <2>1 DEF Range
  <2>3. ASSUME NEW k \in AllKinds PROVE k \in Range(Kinds)
    BY <2>1, <2>2 DEF AllKinds
  <2>4. ASSUME NEW k \in Range(Kinds) PROVE k \in AllKinds
    <3>1. PICK i \in 1 .. 3 : k = Kinds[i]
      BY <2>2
    <3>2. i = 1 \/ i = 2 \/ i = 3
      BY <3>1
    <3> QED BY <2>1, <3>1, <3>2 DEF AllKinds
  <2> QED BY <2>3, <2>4
<1>2. scene \in Scenes /\ KMax \in Nat
  BY SceneAssumption DEF FrameInv
<1>3. items = [kind \in AllKinds \cup {"client"} |->
                IF kind = "client" THEN scene.client ELSE Snapshot(kind, scene[kind])]
  BY <1>1 DEF FrameInv
<1>4. items["client"] = scene.client
  BY <1>3
<1>5. ASSUME NEW kind \in AllKinds PROVE items[kind] = Snapshot(kind, scene[kind])
  BY <1>3 DEF AllKinds
<1>6. ASSUME NEW kind \in AllKinds
      PROVE  LET drawn == DrawnOnes(kind, scene[kind])
                 n == Len(items[kind])
             IN  /\ n \in 0 .. KMax /\ DOMAIN items[kind] = 1 .. n
                 /\ Len(drawn) \in Nat /\ n = IF Len(drawn) <= KMax THEN Len(drawn) ELSE KMax
                 /\ items[kind] \in [1 .. n -> Range(items[kind])]
                 /\ \A i \in 1 .. n :
                      /\ IsCmd(items[kind][i]) /\ items[kind][i].op # "Clear"
                      /\ items[kind][i].key = Key(drawn[i]) /\ drawn[i].z \in RenderOrder2D
  <2> DEFINE drawn == DrawnOnes(kind, scene[kind])
             m == IF Len(drawn) <= KMax THEN Len(drawn) ELSE KMax
             s == items[kind]
  <2>1. /\ Len(drawn) \in Nat /\ s = [i \in 1 .. m |-> CommandOf(kind, drawn[i])]
        /\ \A i \in 1 .. m : drawn[i] \in Entity(kind)
    BY <1>2, <1>5, SnapshotOfKind
  <2>2. m \in 0 .. KMax
    BY <1>2, <2>1
  <2> HIDE DEF drawn, m, s
  <2>3. Len(s) = m /\ DOMAIN s = 1 .. m
    BY <2>1, <2>2
  <2>4. s \in [1 .. m -> Range(s)]
    BY <2>1 DEF Range
  <2>5. ASSUME NEW i \in 1 .. m
        PROVE  /\ IsCmd(s[i]) /\ s[i].op # "Clear" /\ s[i].key = Key(drawn[i])
               /\ drawn[i].z \in RenderOrder2D
    <3>1. s[i] = CommandOf(kind, drawn[i]) /\ drawn[i] \in Entity(kind)
      BY <2>1
    <3> QED BY <3>1, CommandOfEntity
  <2>6. m = IF Len(drawn) <= KMax THEN Len(drawn) ELSE KMax
    BY DEF m
  <2> QED BY <2>1, <2>2, <2>3, <2>4, <2>5, <2>6 DEF s, drawn
<1>7. /\ scene.client \in Seq(Range(scene.client))
      /\ \A c \in Range(scene.client) : IsCmd(c)
  BY <1>2, SceneAssumption
<1>8. /\ Len(scene.client) \in Nat /\ DOMAIN scene.client = 1 .. Len(scene.client)
      /\ \A i \in DOMAIN scene.client : IsCmd(scene.client[i])
  <2> DEFINE s == scene.client
  <2>1. s \in Seq(Range(s))
    BY <1>7
  <2>2. \A i \in DOMAIN s : s[i] \in Range(s)
    BY DEF Range
  <2> HIDE DEF s
  <2>3. Len(s) \in Nat /\ DOMAIN s = 1 .. Len(s)
    BY <2>1
  <2> QED BY <1>7, <2>2, <2>3 DEF s
<1> QED BY <1>4, <1>6, <1>7, <1>8

-----------------------------------------------------------------------------
(* Chunks.                                                                 *)

(* Intervals of the same length, one behind the other, that reach to       *)
(* count: every number up to it is in one of them, and in no other.        *)
LEMMA Intervals ==
  ASSUME NEW N \in Nat \ {0}, NEW count \in Nat
  PROVE  LET size == (count + N - 1) \div N
         IN  /\ size \in Nat
             /\ \A ci, cj \in 0 .. N - 1 : ci < cj => (ci + 1) * size <= cj * size
             /\ \A i \in 1 .. count : \E ci \in 0 .. N - 1 :
                  ci * size < i /\ i <= (ci + 1) * size
<1> DEFINE size == (count + N - 1) \div N
<1>1. size \in Nat /\ count <= N * size
  <2>1. size \in Int /\ N * size <= count + N - 1 /\ count + N - 1 < N * size + N
    OBVIOUS
  <2>2. count + N - 1 >= 0
    OBVIOUS
  <2> DEFINE p == N * size
  <2>3. p \in Int /\ p <= count + N - 1 /\ count + N - 1 < p + N
    BY <2>1
  <2>4. size >= 0
    OBVIOUS
  <2> HIDE DEF p, size
  <2>5. count <= p
    BY <2>3
  <2> QED BY <2>1, <2>4, <2>5 DEF p
<1> HIDE DEF size
<1>2. ASSUME NEW ci \in 0 .. N - 1, NEW cj \in 0 .. N - 1, ci < cj
      PROVE  (ci + 1) * size <= cj * size
  <2>1. cj - (ci + 1) \in Nat
    BY <1>2
  <2>2. (cj - (ci + 1)) * size \in Nat /\ cj * size = (ci + 1) * size + (cj - (ci + 1)) * size
        /\ (ci + 1) * size \in Int
    BY <1>1, <2>1
  <2> DEFINE u == (ci + 1) * size
             v == (cj - (ci + 1)) * size
  <2>3. v \in Nat /\ cj * size = u + v /\ u \in Int
    BY <2>2
  <2> HIDE DEF u, v
  <2>4. u <= u + v
    BY <2>3
  <2> QED BY <2>3, <2>4 DEF u
<1>3. ASSUME NEW i \in 1 .. count
      PROVE  \E ci \in 0 .. N - 1 : ci * size < i /\ i <= (ci + 1) * size
  <2>1. size # 0
    <3> SUFFICES ASSUME size = 0 PROVE FALSE
      OBVIOUS
    <3>1. N * size = 0
      OBVIOUS
    <3> QED BY <1>1, <3>1
  <2> DEFINE ci == (i - 1) \div size
  <2>2. ci \in Int /\ ci >= 0 /\ size * ci <= i - 1 /\ i - 1 < size * ci + size
    BY <1>1, <2>1
  <2> HIDE DEF ci
  <2>3. ci <= N - 1
    <3> SUFFICES ASSUME ci >= N PROVE FALSE
      BY <2>2
    <3>1. (ci - N) * size \in Nat /\ size * ci = N * size + (ci - N) * size
      <4>1. ci - N \in Nat
        BY <2>2
      <4> QED BY <1>1, <2>2, <4>1
    <3> DEFINE u == N * size
               v == (ci - N) * size
    <3>2. u \in Int /\ v \in Nat /\ count <= u /\ u + v <= i - 1
      BY <1>1, <2>2, <3>1
    <3> HIDE DEF u, v
    <3> QED BY <3>2
  <2>4. ci * size = size * ci /\ (ci + 1) * size = size * ci + size /\ size * ci \in Int
    BY <1>1, <2>2
  <2> DEFINE u == size * ci
  <2>5. u <= i - 1 /\ i - 1 < u + size /\ u \in Int
    BY <2>2, <2>4
  <2>6. ci * size = u /\ (ci + 1) * size = u + size
    BY <2>4
  <2> HIDE DEF u
  <2>7. u < i /\ i <= u + size
    BY <1>1, <2>5
  <2> QED BY <2>2, <2>3, <2>6, <2>7
<1> QED BY <1>1, <1>2, <1>3 DEF size

(* The chunks of a kind: every item belongs to one of them, and to no      *)
(* other.                                                                  *)
LEMMA Chunks ==
  ASSUME FrameInv, DOMAIN next = 0 .. Max({workers, 1}) - 1, stage \in AllKinds
  PROVE  LET n == Len(items[stage])
         IN  /\ n \in Nat
             /\ \A ci \in DOMAIN next :
                  Chunk(ci).b \in Nat /\ Chunk(ci).e \in Nat /\ Chunk(ci).e <= n
             /\ \A ci, cj \in DOMAIN next : \A i \in Nat :
                  /\ Chunk(ci).b < i /\ i <= Chunk(ci).e
                  /\ Chunk(cj).b < i /\ i <= Chunk(cj).e
                  => ci = cj
             /\ \A i \in 1 .. n : \E ci \in DOMAIN next : Chunk(ci).b < i /\ i <= Chunk(ci).e
<1> DEFINE n == Len(items[stage])
           N == IF workers >= 1 THEN workers ELSE 1
           size == (n + N - 1) \div N
           top(ci) == IF (ci + 1) * size <= n THEN (ci + 1) * size ELSE n
<1>1. n \in Nat
  BY ItemsOfFrame
<1>2. N \in Nat \ {0} /\ DOMAIN next = 0 .. N - 1
  <2>1. workers \in Nat
    BY DEF FrameInv
  <2>2. Max({workers, 1}) = N
    BY <2>1, MaxOfTwo
  <2> QED BY <2>1, <2>2
<1>3. Cardinality(DOMAIN next) = N
  <2>1. 0 \in Int /\ N - 1 \in Int
    BY <1>2
  <2> HIDE DEF N
  <2>2. Cardinality(0 .. N - 1) = IF 0 > N - 1 THEN 0 ELSE (N - 1) - 0 + 1
    BY <2>1, FS_Interval
  <2> QED BY <1>2, <2>2
<1>4. /\ size \in Nat
      /\ \A ci, cj \in 0 .. N - 1 : ci < cj => (ci + 1) * size <= cj * size
      /\ \A i \in 1 .. n : \E ci \in 0 .. N - 1 : ci * size < i /\ i <= (ci + 1) * size
  <2> HIDE DEF n, N
  <2> QED BY <1>1, <1>2, Intervals
<1>5. ASSUME NEW ci \in 0 .. N - 1
      PROVE  /\ Chunk(ci).b = ci * size /\ Chunk(ci).e = top(ci)
             /\ ci * size \in Nat /\ (ci + 1) * size \in Nat
  <2>1. Chunk(ci) = [b |-> ci * size, e |-> Min({(ci + 1) * size, n})]
    BY <1>3 DEF Chunk
  <2>2. ci * size \in Nat /\ (ci + 1) * size \in Nat
    <3>1. ci \in Nat /\ ci + 1 \in Nat
      BY <1>2
    <3> HIDE DEF size
    <3> QED BY <1>4, <3>1
  <2> DEFINE u == (ci + 1) * size
  <2>3. u \in Int /\ n \in Int
    BY <1>1, <2>2
  <2> HIDE DEF u, n, N, size
  <2>4. Min({u, n}) = IF u <= n THEN u ELSE n
    BY <2>3, MinOfTwo
  <2> QED BY <2>1, <2>2, <2>4 DEF u
<1> HIDE DEF n, N, size
<1>6. ASSUME NEW ci \in DOMAIN next
      PROVE  Chunk(ci).b \in Nat /\ Chunk(ci).e \in Nat /\ Chunk(ci).e <= n
  <2>1. Chunk(ci).b = ci * size /\ Chunk(ci).e = top(ci) /\ ci * size \in Nat
        /\ (ci + 1) * size \in Nat
    BY <1>2, <1>5
  <2> DEFINE u == (ci + 1) * size
  <2> HIDE DEF u
  <2> QED BY <1>1, <2>1 DEF u
<1>7. ASSUME NEW ci \in DOMAIN next, NEW cj \in DOMAIN next, NEW i \in Nat, ci < cj,
             i <= Chunk(ci).e, Chunk(cj).b < i
      PROVE  FALSE
  <2> DEFINE u == (ci + 1) * size
             v == cj * size
  <2>1. Chunk(ci).e = (IF u <= n THEN u ELSE n) /\ u \in Nat /\ Chunk(cj).b = v /\ v \in Nat
    BY <1>2, <1>5
  <2>2. u <= v
    BY <1>2, <1>4, <1>7
  <2> HIDE DEF u, v
  <2> QED BY <1>1, <1>7, <2>1, <2>2
<1>8. ASSUME NEW ci \in DOMAIN next, NEW cj \in DOMAIN next, NEW i \in Nat,
             Chunk(ci).b < i, i <= Chunk(ci).e, Chunk(cj).b < i, i <= Chunk(cj).e
      PROVE  ci = cj
  <2>1. ci \in Int /\ cj \in Int
    BY <1>2
  <2>2. ~(ci < cj)
    BY <1>7, <1>8
  <2>3. ~(cj < ci)
    BY <1>7, <1>8
  <2> QED BY <2>1, <2>2, <2>3
<1>9. ASSUME NEW i \in 1 .. n
      PROVE  \E ci \in DOMAIN next : Chunk(ci).b < i /\ i <= Chunk(ci).e
  <2>1. PICK ci \in 0 .. N - 1 : ci * size < i /\ i <= (ci + 1) * size
    BY <1>4
  <2>2. Chunk(ci).b = ci * size /\ Chunk(ci).e = top(ci)
    BY <1>5
  <2> DEFINE u == (ci + 1) * size
  <2>3. i <= (IF u <= n THEN u ELSE n)
    BY <2>1
  <2> HIDE DEF u
  <2> QED BY <1>2, <2>1, <2>2, <2>3 DEF u
<1> QED BY <1>1, <1>6, <1>8, <1>9 DEF n

-----------------------------------------------------------------------------
(* What was emitted.                                                       *)

(* There is one entry to queue for each item of the snapshots.              *)
LEMMA IdsOfKinds ==
  ASSUME FrameInv
  PROVE  /\ IsFiniteSet(Ids)
         /\ Cardinality(Ids) = Len(items["rect"]) + Len(items["sprite"]) + Len(items["text"])
<1> DEFINE S(kind) == {kind} \X DOMAIN items[kind]
           n(kind) == Len(items[kind])
<1>1. ASSUME NEW kind \in AllKinds
      PROVE  IsFiniteSet(S(kind)) /\ Cardinality(S(kind)) = n(kind) /\ n(kind) \in Nat
  <2>1. n(kind) \in Nat /\ DOMAIN items[kind] = 1 .. n(kind)
    BY ItemsOfFrame
  <2> DEFINE D == DOMAIN items[kind]
             m == n(kind)
  <2>2. 1 \in Int /\ m \in Int
    BY <2>1
  <2> HIDE DEF m, n
  <2>3. IsFiniteSet(1 .. m) /\ Cardinality(1 .. m) = IF 1 > m THEN 0 ELSE m - 1 + 1
    BY <2>2, FS_Interval
  <2>4. IsFiniteSet(D) /\ Cardinality(D) = m
    <3>1. D = 1 .. m /\ m \in Nat
      BY <2>1 DEF m
    <3> HIDE DEF D
    <3> QED BY <2>3, <3>1
  <2>5. IsFiniteSet({kind}) /\ Cardinality({kind}) = 1
    BY FS_Singleton
  <2> HIDE DEF D
  <2>6. IsFiniteSet({kind} \X D) /\ Cardinality({kind} \X D) = Cardinality({kind}) * Cardinality(D)
    BY <2>4, <2>5, FS_Product
  <2>7. Cardinality({kind} \X D) = m
    BY <2>1, <2>4, <2>5, <2>6 DEF m
  <2> QED BY <2>1, <2>6, <2>7 DEF D, m
<1> DEFINE A == S("rect")
           B == S("sprite")
           C == S("text")
<1>2. Ids = (A \cup B) \cup C
  BY DEF Ids, AllKinds
<1>3. A \cap B = {} /\ (A \cup B) \cap C = {}
  OBVIOUS
<1>4. /\ IsFiniteSet(A) /\ Cardinality(A) = n("rect") /\ n("rect") \in Nat
      /\ IsFiniteSet(B) /\ Cardinality(B) = n("sprite") /\ n("sprite") \in Nat
      /\ IsFiniteSet(C) /\ Cardinality(C) = n("text") /\ n("text") \in Nat
  BY <1>1 DEF AllKinds
<1> HIDE DEF A, B, C
<1>5. Cardinality({}) = 0
  BY FS_EmptySet
<1>6. IsFiniteSet(A \cup B) /\ Cardinality(A \cup B) = Cardinality(A) + Cardinality(B) - Cardinality(A \cap B)
  BY <1>4, FS_Union
<1> DEFINE D == A \cup B
<1>7. IsFiniteSet(D) /\ Cardinality(D) = n("rect") + n("sprite") /\ D \cap C = {}
  <2> DEFINE a == n("rect")
             b == n("sprite")
  <2>1. a \in Nat /\ b \in Nat /\ Cardinality(D) = a + b - 0
    BY <1>3, <1>4, <1>5, <1>6
  <2> HIDE DEF a, b, n
  <2>2. Cardinality(D) = a + b
    BY <2>1
  <2> QED BY <1>3, <1>6, <2>2 DEF a, b
<1> HIDE DEF D
<1>8. IsFiniteSet(D \cup C) /\ Cardinality(D \cup C) = Cardinality(D) + Cardinality(C) - Cardinality(D \cap C)
  BY <1>4, <1>7, FS_Union
<1>9. Cardinality(D \cup C) = n("rect") + n("sprite") + n("text")
  <2> DEFINE a == n("rect")
             b == n("sprite")
             d == n("text")
  <2>1. a \in Nat /\ b \in Nat /\ d \in Nat /\ Cardinality(D \cup C) = (a + b) + d - 0
    BY <1>4, <1>5, <1>7, <1>8
  <2> HIDE DEF a, b, d, n
  <2>2. Cardinality(D \cup C) = a + b + d
    BY <2>1
  <2> QED BY <2>2 DEF a, b, d
<1> QED BY <1>2, <1>8, <1>9 DEF D

(* The kinds come one after the other, and the client after them.           *)
LEMMA RankOfKinds ==
  /\ Rank("rect") = 1 /\ Rank("sprite") = 2 /\ Rank("text") = 3
  /\ Rank("client") = 4 /\ Rank("sort") = 4 /\ Rank("tiles") = 4 /\ Rank("done") = 4
BY DEF Rank

(* What was emitted can be counted; when the kinds are done it is           *)
(* everything.                                                              *)
LEMMA EmittedIsFinite ==
  ASSUME FrameInv
  PROVE  /\ IsFiniteSet(Emitted) /\ Cardinality(Emitted) \in Nat
         /\ stage = "client" => Emitted = Ids
<1>1. Emitted \in SUBSET Ids
  BY DEF Emitted
<1>2. IsFiniteSet(Emitted)
  <2> HIDE DEF Emitted
  <2> QED BY <1>1, IdsOfKinds, FS_Subset
<1>3. ASSUME stage = "client" PROVE Emitted = Ids
  <2>1. ASSUME NEW id \in Ids PROVE Rank(id[1]) < Rank(stage)
    <3>1. id[1] \in AllKinds
      BY DEF Ids
    <3> QED BY <1>3, <3>1, RankOfKinds DEF AllKinds
  <2> QED BY <2>1 DEF Emitted
<1> QED BY <1>2, <1>3, FS_CardinalityType

-----------------------------------------------------------------------------
(* The beginning.                                                          *)

(* A frame begins with the snapshots and a canvas of one colour.            *)
LEMMA FrameBegins == Init => FrameInv /\ CanvasInv
<1> SUFFICES ASSUME Init PROVE FrameInv /\ CanvasInv
  OBVIOUS
<1>1. scene \in Scenes /\ workers \in Nat
  BY SceneAssumption DEF Init
<1>2. PICK size \in Sizes, paper \in Papers : canvas = [q \in Pixels(size) |-> paper]
  BY DEF Init
<1>3. before = canvas
  BY DEF Init
<1>4. size \in Nat \X Nat /\ paper \in Colors
  BY SceneAssumption
<1>5. Pixels(size) \subseteq Int \X Int
  BY <1>4 DEF Pixels
<1>6. DOMAIN before = Pixels(size) /\ before \in [Pixels(size) -> Colors]
  BY <1>2, <1>3, <1>4
<1>7. FrameInv
  BY <1>1, <1>5, <1>6 DEF FrameInv, Init
<1>8. CanvasInv
  BY <1>3, <1>6 DEF CanvasInv, CanvasStaysOpaque
<1> QED BY <1>7, <1>8

(* A frame begins with an empty queue.                                      *)
LEMMA QueueBegins == Init => ChunkInv /\ QueueInv /\ OrderInv
<1> SUFFICES ASSUME Init PROVE ChunkInv /\ QueueInv /\ OrderInv
  OBVIOUS
<1>1. FrameInv
  BY FrameBegins
<1>2. /\ stage = "rect" /\ queue = << >> /\ sure = 0 /\ order = << >> /\ painted = << >>
      /\ next = [ci \in 0 .. Max({workers, 1}) - 1 |-> 0]
  BY DEF Init
<1>3. KMax \in Nat \ {0}
  BY SceneAssumption
<1>4. stage \in AllKinds /\ stage \in Stages
  BY <1>2 DEF AllKinds, Stages
<1>5. ChunkInv
  <2>1. DOMAIN next = 0 .. Max({workers, 1}) - 1 /\ \A ci \in DOMAIN next : next[ci] = 0
    BY <1>2
  <2>2. next \in [DOMAIN next -> 0 .. KMax]
    BY <1>2, <1>3, <2>1
  <2> QED BY <1>4, <2>1, <2>2 DEF ChunkInv
<1>6. Emitted = {}
  <2> SUFFICES ASSUME NEW id \in Emitted PROVE FALSE
    OBVIOUS
  <2>1. id \in Ids /\ \/ Rank(id[1]) < Rank(stage)
                      \/ \E ci \in DOMAIN next : Chunk(ci).b < id[2] /\ id[2] <= Chunk(ci).b + next[ci]
    BY DEF Emitted
  <2>2. id[1] \in AllKinds /\ id[2] \in DOMAIN items[id[1]]
    BY <2>1 DEF Ids
  <2>3. ~(Rank(id[1]) < Rank(stage))
    BY <1>2, <2>2, RankOfKinds DEF AllKinds
  <2>4. PICK ci \in DOMAIN next : Chunk(ci).b < id[2] /\ id[2] <= Chunk(ci).b + next[ci]
    BY <2>1, <2>3
  <2>5. next[ci] = 0
    BY <1>2
  <2>6. Chunk(ci).b \in Nat
    BY <1>1, <1>4, <1>5, Chunks DEF ChunkInv
  <2>7. id[2] \in Nat
    BY <1>1, <2>2, ItemsOfFrame
  <2> QED BY <2>4, <2>5, <2>6, <2>7
<1>7. QueueInv
  <2>1. Len(queue) = 0 /\ queue \in Seq(AllIds) /\ IsInjective(queue) /\ Range(queue) = {}
    BY <1>2 DEF IsInjective, Range
  <2>2. Cardinality(Emitted) = 0
    BY <1>6, FS_EmptySet
  <2>3. Min({0, KMax}) = 0
    BY <1>3, MinOfTwo
  <2> QED BY <1>2, <1>4, <2>1, <2>2, <2>3 DEF QueueInv
<1>8. OrderInv
  <2>1. Len(order) = 0 /\ order \in Seq(1 .. Len(queue)) /\ painted \in [DOMAIN painted -> 0 .. Len(order)]
    BY <1>2
  <2> QED BY <1>2, <2>1 DEF OrderInv
<1> QED BY <1>5, <1>7, <1>8

-----------------------------------------------------------------------------
(* The steps.                                                              *)

StepOf == \/ \E ci \in DOMAIN next : EmitOne(ci)
          \/ JoinChunks \/ ClientRecords \/ Sort
          \/ \E k \in DOMAIN painted : DrawNext(k)
          \/ JoinTiles \/ UNCHANGED vars

(* The steps of a frame, those of all chunks and tiles taken together.      *)
LEMMA StepCases == [Next]_vars => StepOf
BY DEF Next, StepOf

(* No step changes the snapshots or the canvas the frame began with.        *)
LEMMA FrameStays == FrameInv /\ [Next]_vars => FrameInv' /\ items' = items /\ scene' = scene
                                              /\ before' = before /\ workers' = workers
<1> SUFFICES ASSUME FrameInv, [Next]_vars
             PROVE  FrameInv' /\ items' = items /\ scene' = scene /\ before' = before
                    /\ workers' = workers
  OBVIOUS
<1>1. items' = items /\ scene' = scene /\ before' = before /\ workers' = workers
  <2>1. ASSUME NEW ci \in DOMAIN next, EmitOne(ci)
        PROVE  items' = items /\ scene' = scene /\ before' = before /\ workers' = workers
    BY <2>1 DEF EmitOne
  <2>2. ASSUME NEW k \in DOMAIN painted, DrawNext(k)
        PROVE  items' = items /\ scene' = scene /\ before' = before /\ workers' = workers
    BY <2>2 DEF DrawNext
  <2>3. CASE JoinChunks
    BY <2>3 DEF JoinChunks
  <2>4. CASE ClientRecords
    BY <2>4 DEF ClientRecords
  <2>5. CASE Sort
    BY <2>5 DEF Sort
  <2>6. CASE JoinTiles
    BY <2>6 DEF JoinTiles
  <2>7. CASE UNCHANGED vars
    BY <2>7 DEF vars
  <2> QED BY <2>1, <2>2, <2>3, <2>4, <2>5, <2>6, <2>7, StepCases DEF StepOf
<1> QED BY <1>1 DEF FrameInv

(* As long as the kind stays, its chunks do.                                *)
LEMMA ChunksStay ==
  ASSUME items' = items, stage' = stage, DOMAIN next' = DOMAIN next
  PROVE  \A ci \in DOMAIN next : Chunk(ci)' = Chunk(ci)
BY DEF Chunk

(* The entries that there are to queue stay the same.                       *)
LEMMA IdsStay ==
  ASSUME items' = items
  PROVE  Ids' = Ids /\ AllIds' = AllIds
BY DEF Ids, AllIds

(* How far a chunk is, is a number.                                         *)
LEMMA NextIsNat ==
  ASSUME ChunkInv
  PROVE  \A ci \in DOMAIN next : next[ci] \in 0 .. KMax /\ next[ci] \in Nat
<1> DEFINE D == DOMAIN next
<1>1. next \in [D -> 0 .. KMax] /\ KMax \in Nat
  BY SceneAssumption DEF ChunkInv
<1> HIDE DEF D
<1>2. \A ci \in D : next[ci] \in 0 .. KMax
  BY <1>1
<1> QED BY <1>1, <1>2 DEF D

(* No chunk gets past its end.                                             *)
LEMMA ChunkStep == FrameInv /\ ChunkInv /\ [Next]_vars => ChunkInv'
<1> SUFFICES ASSUME FrameInv, ChunkInv, [Next]_vars PROVE ChunkInv'
  OBVIOUS
<1>1. items' = items /\ workers' = workers
  BY FrameStays
<1>2. KMax \in Nat \ {0}
  BY SceneAssumption
<1>3. /\ stage \in Stages /\ DOMAIN next = 0 .. Max({workers, 1}) - 1
      /\ next \in [DOMAIN next -> 0 .. KMax]
      /\ stage \in AllKinds =>
           \A ci \in DOMAIN next : next[ci] = 0 \/ Chunk(ci).b + next[ci] <= Chunk(ci).e
  BY DEF ChunkInv
<1>4. ASSUME NEW ci \in DOMAIN next, EmitOne(ci) PROVE ChunkInv'
  <2>1. /\ stage \in AllKinds /\ stage' = stage /\ Chunk(ci).b + next[ci] < Chunk(ci).e
        /\ next' = [next EXCEPT ![ci] = @ + 1]
    <3>1. stage \in Range(Kinds)
      BY <1>4 DEF EmitOne
    <3>2. stage \in AllKinds
      BY <3>1 DEF Range, Kinds, AllKinds
    <3> QED BY <1>4, <3>2 DEF EmitOne, Left
  <2>2. DOMAIN next' = DOMAIN next /\ \A cj \in DOMAIN next :
          next'[cj] = IF cj = ci THEN next[ci] + 1 ELSE next[cj]
    BY <2>1
  <2>3. \A cj \in DOMAIN next : Chunk(cj)' = Chunk(cj)
    BY <1>1, <2>1, <2>2, ChunksStay
  <2>4. /\ Chunk(ci).b \in Nat /\ Chunk(ci).e \in Nat /\ Chunk(ci).e <= Len(items[stage])
        /\ Len(items[stage]) \in 0 .. KMax
    BY <1>3, <2>1, Chunks, ItemsOfFrame
  <2>5. next[ci] \in Nat
    BY NextIsNat
  <2>6. next[ci] + 1 \in 0 .. KMax /\ Chunk(ci).b + (next[ci] + 1) <= Chunk(ci).e
    BY <1>2, <2>1, <2>4, <2>5
  <2>7. next' \in [DOMAIN next' -> 0 .. KMax]
    BY <1>3, <2>1, <2>2, <2>6
  <2>8. \A cj \in DOMAIN next' : next'[cj] = 0 \/ Chunk(cj)'.b + next'[cj] <= Chunk(cj)'.e
    <3> TAKE cj \in DOMAIN next'
    <3>1. cj \in DOMAIN next /\ Chunk(cj)' = Chunk(cj)
      BY <2>2, <2>3
    <3>2. CASE cj = ci
      BY <2>2, <2>6, <3>1, <3>2
    <3>3. CASE cj # ci
      BY <1>3, <2>1, <2>2, <3>1, <3>3
    <3> QED BY <3>2, <3>3
  <2>9. DOMAIN next' = 0 .. Max({workers', 1}) - 1
    BY <1>1, <1>3, <2>2
  <2> QED BY <1>3, <2>1, <2>7, <2>8, <2>9 DEF ChunkInv
<1>5. CASE JoinChunks
  <2>1. next' = [ci \in DOMAIN next |-> 0]
    BY <1>5 DEF JoinChunks
  <2>2. DOMAIN next' = DOMAIN next /\ \A ci \in DOMAIN next : next'[ci] = 0
    BY <2>1
  <2>3. stage' \in Stages
    <3>1. stage \in AllKinds
      BY <1>5 DEF JoinChunks, Range, Kinds, AllKinds
    <3> QED BY <1>5, <3>1 DEF JoinChunks, AllKinds, Stages
  <2>4. next' \in [DOMAIN next' -> 0 .. KMax]
    BY <1>2, <2>1, <2>2
  <2>5. DOMAIN next' = 0 .. Max({workers', 1}) - 1
    BY <1>1, <1>3, <2>2
  <2> QED BY <2>2, <2>3, <2>4, <2>5 DEF ChunkInv
<1>6. ASSUME stage' \in {"sort", "tiles", "done"}, next' = next PROVE ChunkInv'
  <2>1. stage' \in Stages /\ stage' \notin AllKinds
    BY <1>6 DEF Stages, AllKinds
  <2>2. DOMAIN next' = 0 .. Max({workers', 1}) - 1 /\ next' \in [DOMAIN next' -> 0 .. KMax]
    BY <1>1, <1>3, <1>6
  <2> QED BY <2>1, <2>2 DEF ChunkInv
<1>7. CASE ClientRecords
  BY <1>6, <1>7 DEF ClientRecords
<1>8. CASE Sort
  <2>1. stage' = "done" \/ stage' = "tiles"
    BY <1>8 DEF Sort
  <2> QED BY <1>6, <1>8, <2>1 DEF Sort
<1>9. ASSUME NEW k \in DOMAIN painted, DrawNext(k) PROVE ChunkInv'
  BY <1>6, <1>9 DEF DrawNext
<1>10. CASE JoinTiles
  BY <1>6, <1>10 DEF JoinTiles
<1>11. CASE UNCHANGED vars
  <2>1. next' = next /\ stage' = stage
    BY <1>11 DEF vars
  <2>2. \A ci \in DOMAIN next : Chunk(ci)' = Chunk(ci)
    BY <1>1, <2>1, ChunksStay
  <2>3. stage' \in AllKinds =>
           \A ci \in DOMAIN next' : next'[ci] = 0 \/ Chunk(ci)'.b + next'[ci] <= Chunk(ci)'.e
    BY <1>3, <2>1, <2>2
  <2> QED BY <1>1, <1>3, <2>1, <2>3 DEF ChunkInv
<1> QED BY <1>4, <1>5, <1>7, <1>8, <1>9, <1>10, <1>11, StepCases DEF StepOf

(* A chunk begins at a number.                                              *)
LEMMA ChunksBegin ==
  FrameInv /\ ChunkInv /\ stage \in AllKinds => \A ci \in DOMAIN next : Chunk(ci).b \in Nat
BY Chunks DEF ChunkInv

(* The same after a step.                                                   *)
LEMMA ChunksBeginNext ==
  (FrameInv /\ ChunkInv /\ stage \in AllKinds => \A ci \in DOMAIN next : Chunk(ci).b \in Nat)'
BY ChunksBegin, PTL

(* A new identifier at the end of a sequence without repetitions.          *)
LEMMA AppendsNew ==
  ASSUME NEW S, NEW s \in Seq(S), NEW x \in S, IsInjective(s), x \notin Range(s)
  PROVE  /\ Append(s, x) \in Seq(S) /\ IsInjective(Append(s, x))
         /\ Range(Append(s, x)) = Range(s) \cup {x} /\ Len(Append(s, x)) = Len(s) + 1
<1> DEFINE t == Append(s, x)
           n == Len(s)
<1>1. /\ t \in Seq(S) /\ Len(t) = n + 1 /\ n \in Nat
      /\ \A i \in 1 .. n : t[i] = s[i] /\ s[i] \in S
      /\ t[n + 1] = x /\ DOMAIN t = 1 .. n + 1 /\ DOMAIN s = 1 .. n
  OBVIOUS
<1> HIDE DEF t, n
<1>2. ASSUME NEW i \in 1 .. n PROVE s[i] # x
  BY <1>1 DEF Range
<1>3. IsInjective(t)
  <2> SUFFICES ASSUME NEW i \in 1 .. n + 1, NEW j \in 1 .. n + 1, t[i] = t[j] PROVE i = j
    BY <1>1 DEF IsInjective
  <2>1. (i \in 1 .. n \/ i = n + 1) /\ (j \in 1 .. n \/ j = n + 1)
    BY <1>1
  <2>2. CASE i \in 1 .. n /\ j \in 1 .. n
    BY <1>1, <2>2 DEF IsInjective
  <2>3. CASE i \in 1 .. n /\ j = n + 1
    BY <1>1, <1>2, <2>3
  <2>4. CASE i = n + 1 /\ j \in 1 .. n
    BY <1>1, <1>2, <2>4
  <2> QED BY <2>1, <2>2, <2>3, <2>4
<1>4. Range(t) = Range(s) \cup {x}
  <2>1. ASSUME NEW y \in Range(t) PROVE y \in Range(s) \cup {x}
    <3>1. PICK i \in 1 .. n + 1 : y = t[i]
      BY <1>1, <2>1 DEF Range
    <3>2. i \in 1 .. n \/ i = n + 1
      BY <1>1
    <3> QED BY <1>1, <3>1, <3>2 DEF Range
  <2>2. ASSUME NEW y \in Range(s) PROVE y \in Range(t)
    <3>1. PICK i \in 1 .. n : y = s[i]
      BY <1>1, <2>2 DEF Range
    <3>2. i \in 1 .. n + 1 /\ t[i] = y
      BY <1>1, <3>1
    <3> QED BY <1>1, <3>2 DEF Range
  <2>3. x \in Range(t)
    <3>1. n + 1 \in 1 .. n + 1
      BY <1>1
    <3> QED BY <1>1, <3>1 DEF Range
  <2> QED BY <2>1, <2>2, <2>3
<1> QED BY <1>1, <1>3, <1>4 DEF t, n

(* A push adds one item to what was emitted.                               *)
LEMMA EmitsOne ==
  ASSUME FrameInv, ChunkInv, NEW ci \in DOMAIN next, EmitOne(ci), items' = items
  PROVE  LET x == <<stage, Chunk(ci).b + next[ci] + 1>>
         IN  /\ stage \in AllKinds /\ stage' = stage /\ x \in Ids /\ x \notin Emitted
             /\ Emitted' = Emitted \cup {x}
<1> DEFINE i == Chunk(ci).b + next[ci] + 1
           x == <<stage, i>>
           n == Len(items[stage])
<1>1. /\ stage \in AllKinds /\ stage' = stage /\ Chunk(ci).b + next[ci] < Chunk(ci).e
      /\ next' = [next EXCEPT ![ci] = @ + 1]
  <2>1. stage \in Range(Kinds)
    BY DEF EmitOne
  <2>2. stage \in AllKinds
    BY <2>1 DEF Range, Kinds, AllKinds
  <2> QED BY <2>2 DEF EmitOne, Left
<1>2. /\ DOMAIN next = 0 .. Max({workers, 1}) - 1
      /\ \A cj \in DOMAIN next : next[cj] \in Nat
      /\ \A cj \in DOMAIN next : next[cj] = 0 \/ Chunk(cj).b + next[cj] <= Chunk(cj).e
  <2>1. DOMAIN next = 0 .. Max({workers, 1}) - 1 /\ \A c \in DOMAIN next : next[c] \in Nat
    BY NextIsNat DEF ChunkInv
  <2>2. \A c \in DOMAIN next : next[c] = 0 \/ Chunk(c).b + next[c] <= Chunk(c).e
    BY <1>1 DEF ChunkInv
  <2> QED BY <2>1, <2>2
<1>3. /\ n \in Nat
      /\ \A cj \in DOMAIN next : Chunk(cj).b \in Nat /\ Chunk(cj).e \in Nat /\ Chunk(cj).e <= n
      /\ \A ck, cj \in DOMAIN next : \A k \in Nat :
           /\ Chunk(ck).b < k /\ k <= Chunk(ck).e
           /\ Chunk(cj).b < k /\ k <= Chunk(cj).e
           => ck = cj
  BY <1>1, <1>2, Chunks
<1>4. DOMAIN next' = DOMAIN next /\ \A cj \in DOMAIN next :
        next'[cj] = IF cj = ci THEN next[ci] + 1 ELSE next[cj]
  BY <1>1
<1>5. \A cj \in DOMAIN next : Chunk(cj)' = Chunk(cj)
  BY <1>1, <1>4, ChunksStay
<1>6. i \in 1 .. n /\ i \in Nat /\ i <= Chunk(ci).e /\ Chunk(ci).b < i
  <2> DEFINE b == Chunk(ci).b
             e == Chunk(ci).e
             m == next[ci]
  <2>1. b \in Nat /\ e \in Nat /\ m \in Nat /\ n \in Nat /\ b + m < e /\ e <= n
    BY <1>1, <1>2, <1>3
  <2>2. i = b + m + 1
    OBVIOUS
  <2> HIDE DEF b, e, m, n, i
  <2>3. i \in 1 .. n /\ i \in Nat /\ i <= e /\ b < i
    BY <2>1, <2>2
  <2> QED BY <2>3 DEF b, e
<1>7. x \in Ids
  <2>1. DOMAIN items[stage] = 1 .. n
    BY <1>1, ItemsOfFrame
  <2> QED BY <1>1, <1>6, <2>1 DEF Ids
<1>8. x \notin Emitted
  <2> SUFFICES ASSUME x \in Emitted PROVE FALSE
    OBVIOUS
  <2>1. x[1] = stage /\ x[2] = i
    OBVIOUS
  <2>2. ~(Rank(stage) < Rank(stage))
    BY <1>1, RankOfKinds DEF AllKinds
  <2>3. PICK cj \in DOMAIN next : Chunk(cj).b < i /\ i <= Chunk(cj).b + next[cj]
    <3> HIDE DEF i, x
    <3> QED BY <2>1, <2>2 DEF Emitted
  <2>4. i <= Chunk(cj).e
    <3> DEFINE b == Chunk(cj).b
               e == Chunk(cj).e
               m == next[cj]
    <3>1. /\ b \in Nat /\ e \in Nat /\ m \in Nat /\ i \in Nat /\ b < i /\ i <= b + m
          /\ m = 0 \/ b + m <= e
      BY <1>2, <1>3, <1>6, <2>3
    <3> HIDE DEF b, e, m, i
    <3>2. i <= e
      BY <3>1
    <3> QED BY <3>2 DEF e
  <2>6. ci = cj
    <3> HIDE DEF i
    <3> QED BY <1>3, <1>6, <2>3, <2>4
  <2>7. Chunk(ci).b \in Nat /\ next[ci] \in Nat /\ i <= Chunk(ci).b + next[ci]
    BY <1>2, <1>3, <2>3, <2>6
  <2> QED BY <2>7
<1>9. Emitted' = Emitted \cup {x}
  <2>1. Ids' = Ids
    BY IdsStay
  <2>2. Emitted' = {id \in Ids : \/ Rank(id[1]) < Rank(stage)
                                 \/ /\ id[1] = stage
                                    /\ \E cj \in DOMAIN next :
                                         Chunk(cj)'.b < id[2] /\ id[2] <= Chunk(cj)'.b + next'[cj]}
    BY <1>1, <1>4, <2>1 DEF Emitted
  <2>3. ASSUME NEW id \in Emitted PROVE id \in Emitted'
    <3>1. id \in Ids /\ id[2] \in Nat
      <4>1. id \in Ids /\ id[1] \in AllKinds /\ id[2] \in DOMAIN items[id[1]]
        BY <2>3 DEF Emitted, Ids
      <4> QED BY <4>1, ItemsOfFrame
    <3>2. CASE Rank(id[1]) < Rank(stage)
      BY <2>2, <3>1, <3>2
    <3>3. CASE ~(Rank(id[1]) < Rank(stage))
      <4>1. PICK cj \in DOMAIN next : Chunk(cj).b < id[2] /\ id[2] <= Chunk(cj).b + next[cj]
        BY <2>3, <3>3 DEF Emitted
      <4>2. id[1] = stage
        BY <2>3, <3>3 DEF Emitted
      <4>3. Chunk(cj)'.b < id[2] /\ id[2] <= Chunk(cj)'.b + next'[cj]
        <5>1. Chunk(cj)' = Chunk(cj) /\ Chunk(cj).b \in Nat /\ next[cj] \in Nat
          BY <1>2, <1>3, <1>5
        <5>2. next'[cj] = next[cj] \/ next'[cj] = next[cj] + 1
          BY <1>4
        <5> QED BY <3>1, <4>1, <5>1, <5>2
      <4> QED BY <2>2, <3>1, <4>2, <4>3
    <3> QED BY <3>2, <3>3
  <2>4. x \in Emitted'
    <3>1. x[1] = stage /\ x[2] = i
      OBVIOUS
    <3>2. Chunk(ci)'.b < i /\ i <= Chunk(ci)'.b + next'[ci]
      <4>1. Chunk(ci)' = Chunk(ci) /\ Chunk(ci).b \in Nat /\ next[ci] \in Nat /\ next'[ci] = next[ci] + 1
        BY <1>2, <1>3, <1>4, <1>5
      <4> QED BY <4>1
    <3> HIDE DEF x, i
    <3> QED BY <1>7, <2>2, <3>1, <3>2
  <2>5. ASSUME NEW id \in Emitted', id \notin Emitted PROVE id = x
    <3>1. id \in Ids /\ id[2] \in Nat /\ id = <<id[1], id[2]>>
      <4>1. id \in Ids /\ id[1] \in AllKinds /\ id[2] \in DOMAIN items[id[1]] /\ id = <<id[1], id[2]>>
        BY <2>2, <2>5 DEF Ids
      <4> QED BY <4>1, ItemsOfFrame
    <3>2. ~(Rank(id[1]) < Rank(stage))
      BY <2>5, <3>1 DEF Emitted
    <3>3. id[1] = stage
      BY <2>2, <2>5, <3>2
    <3>4. PICK cj \in DOMAIN next : Chunk(cj)'.b < id[2] /\ id[2] <= Chunk(cj)'.b + next'[cj]
      BY <2>2, <2>5, <3>2
    <3>5. Chunk(cj)' = Chunk(cj) /\ Chunk(cj).b \in Nat /\ next[cj] \in Nat
      BY <1>2, <1>3, <1>5
    <3>6. ~(Chunk(cj).b < id[2] /\ id[2] <= Chunk(cj).b + next[cj])
      BY <2>5, <3>1, <3>3 DEF Emitted
    <3>7. cj = ci
      BY <1>4, <3>4, <3>5, <3>6
    <3>8. id[2] = i
      <4>1. next'[ci] = next[ci] + 1
        BY <1>4
      <4> QED BY <3>1, <3>4, <3>5, <3>6, <3>7, <4>1
    <3> QED BY <3>1, <3>3, <3>8
  <2> HIDE DEF x
  <2> QED BY <2>3, <2>4, <2>5
<1> QED BY <1>1, <1>7, <1>8, <1>9

(* When the chunks of a kind are joined, all of it was emitted.            *)
LEMMA JoinsAll ==
  ASSUME FrameInv, ChunkInv, JoinChunks, items' = items
  PROVE  /\ stage \in AllKinds /\ stage' \in AllKinds \cup {"client"} /\ Emitted' = Emitted
<1>1. /\ stage \in AllKinds /\ \A ci \in DOMAIN next : ~Left(ci)
      /\ next' = [ci \in DOMAIN next |-> 0]
  <2>1. stage \in AllKinds
    BY DEF JoinChunks, Range, Kinds, AllKinds
  <2> QED BY <2>1 DEF JoinChunks
<1>2. stage' = CASE stage = "rect" -> "sprite" [] stage = "sprite" -> "text"
                 [] stage = "text" -> "client"
  BY DEF JoinChunks
<1>3. stage' \in AllKinds \cup {"client"} /\ Rank(stage') = Rank(stage) + 1 /\ Rank(stage) \in Nat
  BY <1>1, <1>2, RankOfKinds DEF AllKinds
<1>4. DOMAIN next' = DOMAIN next /\ \A ci \in DOMAIN next : next'[ci] = 0
  BY <1>1
<1>5. /\ DOMAIN next = 0 .. Max({workers, 1}) - 1
      /\ \A ci \in DOMAIN next : next[ci] \in Nat
      /\ \A ci \in DOMAIN next : next[ci] = 0 \/ Chunk(ci).b + next[ci] <= Chunk(ci).e
  <2>1. DOMAIN next = 0 .. Max({workers, 1}) - 1 /\ \A c \in DOMAIN next : next[c] \in Nat
    BY NextIsNat DEF ChunkInv
  <2>2. \A c \in DOMAIN next : next[c] = 0 \/ Chunk(c).b + next[c] <= Chunk(c).e
    BY <1>1 DEF ChunkInv
  <2> QED BY <2>1, <2>2
<1>6. /\ \A ci \in DOMAIN next : Chunk(ci).b \in Nat /\ Chunk(ci).e \in Nat
      /\ \A i \in 1 .. Len(items[stage]) :
           \E ci \in DOMAIN next : Chunk(ci).b < i /\ i <= Chunk(ci).e
  BY <1>1, <1>5, Chunks
<1>7. Ids' = Ids
  BY IdsStay
<1>8. ASSUME NEW id \in Ids
      PROVE  id[1] \in AllKinds /\ id[2] \in 1 .. Len(items[id[1]]) /\ id[2] \in Nat
  <2>1. id[1] \in AllKinds /\ id[2] \in DOMAIN items[id[1]]
    BY DEF Ids
  <2> QED BY <2>1, ItemsOfFrame
<1>9. ASSUME NEW id \in Ids PROVE id \in Emitted <=> Rank(id[1]) <= Rank(stage)
  <2>1. Rank(id[1]) \in Nat /\ (Rank(id[1]) = Rank(stage) <=> id[1] = stage)
    BY <1>1, <1>8, RankOfKinds DEF AllKinds
  <2>2. CASE id[1] = stage
    <3>1. PICK ci \in DOMAIN next : Chunk(ci).b < id[2] /\ id[2] <= Chunk(ci).e
      BY <1>6, <1>8, <2>2
    <3>2. ~(Chunk(ci).b + next[ci] < Chunk(ci).e)
      BY <1>1 DEF Left
    <3>3. id[2] <= Chunk(ci).b + next[ci]
      <4> DEFINE b == Chunk(ci).b
                 e == Chunk(ci).e
                 m == next[ci]
                 i == id[2]
      <4>1. b \in Nat /\ e \in Nat /\ m \in Nat /\ i \in Nat /\ ~(b + m < e) /\ i <= e
        BY <1>5, <1>6, <1>8, <3>1, <3>2
      <4> HIDE DEF b, e, m, i
      <4>2. i <= b + m
        BY <4>1
      <4> QED BY <4>2 DEF b, m, i
    <3>4. id \in Emitted
      BY <2>2, <3>1, <3>3 DEF Emitted
    <3> QED BY <1>3, <2>1, <2>2, <3>4
  <2>3. CASE id[1] # stage
    <3>1. id \in Emitted <=> Rank(id[1]) < Rank(stage)
      BY <2>3 DEF Emitted
    <3> QED BY <1>3, <2>1, <2>3, <3>1
  <2> QED BY <2>2, <2>3
<1>10. ASSUME NEW id \in Ids PROVE id \in Emitted' <=> Rank(id[1]) < Rank(stage')
  <2> SUFFICES ASSUME id \in Emitted', ~(Rank(id[1]) < Rank(stage')) PROVE FALSE
    BY <1>7 DEF Emitted
  <2>1. PICK ci \in DOMAIN next' : Chunk(ci)'.b < id[2] /\ id[2] <= Chunk(ci)'.b + next'[ci]
    BY DEF Emitted
  <2>2. id[1] = stage'
    BY DEF Emitted
  <2>3. stage' \in AllKinds
    BY <1>8, <2>2
  <2>4. FrameInv' /\ ChunkInv'
    <3>1. [Next]_vars
      BY DEF Next
    <3> QED BY <3>1, FrameStays, ChunkStep
  <2>5. Chunk(ci)'.b \in Nat
    BY <2>3, <2>4, ChunksBeginNext
  <2>6. next'[ci] = 0
    BY <1>4
  <2> QED BY <1>8, <2>1, <2>5, <2>6
<1>11. ASSUME NEW id \in Ids PROVE id \in Emitted' <=> id \in Emitted
  <2>1. Rank(id[1]) \in Nat
    BY <1>8, RankOfKinds DEF AllKinds
  <2> QED BY <1>3, <1>9, <1>10, <2>1
<1>12. Emitted \subseteq Ids /\ Emitted' \subseteq Ids
  BY <1>7 DEF Emitted
<1>13. Emitted' = Emitted
  BY <1>11, <1>12
<1> QED BY <1>1, <1>3, <1>13

(* The queue in the shape the steps need it: Min is an IF.                 *)
Fill(n) == IF n <= KMax THEN n ELSE KMax

(* The length of the queue, as a number of entries that fit.                *)
LEMMA QueueShape ==
  ASSUME FrameInv, ChunkInv
  PROVE  /\ Cardinality(Emitted) \in Nat /\ Cardinality(Ids) + Len(items["client"]) \in Nat
         /\ Min({Cardinality(Emitted), KMax}) = Fill(Cardinality(Emitted))
         /\ Min({Cardinality(Ids) + Len(items["client"]), KMax})
              = Fill(Cardinality(Ids) + Len(items["client"]))
<1>1. KMax \in Nat
  BY SceneAssumption
<1> DEFINE a == Cardinality(Emitted)
           b == Cardinality(Ids)
           d == Len(items["client"])
<1>2. a \in Nat
  BY EmittedIsFinite
<1>3. b \in Nat
  BY IdsOfKinds, FS_CardinalityType
<1>4. d \in Nat
  BY ItemsOfFrame
<1> HIDE DEF a, b, d
<1>5. Min({a, KMax}) = Fill(a) /\ b + d \in Nat
  BY <1>1, <1>2, <1>3, <1>4, MinOfTwo DEF Fill
<1>6. Min({b + d, KMax}) = Fill(b + d)
  BY <1>1, <1>5, MinOfTwo DEF Fill
<1> QED BY <1>2, <1>5, <1>6 DEF a, b, d

(* The same after a step.                                                   *)
LEMMA QueueShapeNext ==
  (FrameInv /\ ChunkInv =>
         /\ Cardinality(Emitted) \in Nat /\ Cardinality(Ids) + Len(items["client"]) \in Nat
         /\ Min({Cardinality(Emitted), KMax}) = Fill(Cardinality(Emitted))
         /\ Min({Cardinality(Ids) + Len(items["client"]), KMax})
              = Fill(Cardinality(Ids) + Len(items["client"])))'
<1>1. FrameInv /\ ChunkInv =>
         /\ Cardinality(Emitted) \in Nat /\ Cardinality(Ids) + Len(items["client"]) \in Nat
         /\ Min({Cardinality(Emitted), KMax}) = Fill(Cardinality(Emitted))
         /\ Min({Cardinality(Ids) + Len(items["client"]), KMax})
              = Fill(Cardinality(Ids) + Len(items["client"]))
  BY QueueShape
<1> QED BY <1>1, PTL

(* The beginning of two sequences without repetitions that share nothing.  *)
LEMMA JoinsDistinct ==
  ASSUME NEW S, NEW s \in Seq(S), NEW t \in Seq(S), IsInjective(s), IsInjective(t),
         Range(s) \cap Range(t) = {}, NEW m \in Nat, m <= Len(s) + Len(t)
  PROVE  LET u == SubSeq(s \o t, 1, m)
         IN  u \in Seq(S) /\ IsInjective(u) /\ Len(u) = m
<1> DEFINE v == s \o t
           u == SubSeq(v, 1, m)
           a == Len(s)
           b == Len(t)
<1>1. /\ a \in Nat /\ b \in Nat /\ DOMAIN s = 1 .. a /\ DOMAIN t = 1 .. b
      /\ v \in Seq(S) /\ Len(v) = a + b /\ m <= a + b
      /\ \A i \in 1 .. a : v[i] = s[i]
      /\ \A i \in 1 .. a + b : i > a => v[i] = t[i - a]
  OBVIOUS
<1> HIDE DEF v
<1>2. u \in Seq(S) /\ Len(u) = m /\ DOMAIN u = 1 .. m /\ \A i \in 1 .. m : u[i] = v[i]
  <2>1. u \in Seq(S) /\ Len(u) = m
    BY <1>1, SubSeqProperties
  <2>2. \A i \in 1 .. m : u[i] = v[i]
    BY <1>1, SubSeqProperties
  <2> QED BY <2>1, <2>2
<1> HIDE DEF u, a, b
<1>3. ASSUME NEW i \in 1 .. a, NEW j \in 1 .. b PROVE s[i] # t[j]
  <2>1. s[i] \in Range(s) /\ t[j] \in Range(t)
    BY <1>1 DEF Range
  <2> QED BY <2>1
<1>4. ASSUME NEW i \in 1 .. m, NEW j \in 1 .. m, u[i] = u[j] PROVE i = j
  <2>1. i \in 1 .. a + b /\ j \in 1 .. a + b /\ v[i] = v[j]
    BY <1>1, <1>2, <1>4
  <2>2. CASE i <= a /\ j <= a
    <3>1. i \in 1 .. a /\ j \in 1 .. a /\ s[i] = s[j]
      BY <1>1, <2>1, <2>2
    <3> QED BY <1>1, <3>1 DEF IsInjective
  <2>3. CASE i <= a /\ j > a
    <3>1. i \in 1 .. a /\ j - a \in 1 .. b
      BY <1>1, <2>1, <2>3
    <3> QED BY <1>1, <1>3, <2>1, <2>3, <3>1
  <2>4. CASE i > a /\ j <= a
    <3>1. j \in 1 .. a /\ i - a \in 1 .. b
      BY <1>1, <2>1, <2>4
    <3>2. s[j] # t[i - a]
      BY <1>3, <3>1
    <3> QED BY <1>1, <2>1, <2>4, <3>1, <3>2
  <2>5. CASE i > a /\ j > a
    <3>1. i - a \in 1 .. b /\ j - a \in 1 .. b /\ t[i - a] = t[j - a]
      BY <1>1, <2>1, <2>5
    <3>2. i - a = j - a
      BY <1>1, <3>1 DEF IsInjective
    <3> QED BY <1>1, <3>2
  <2> QED BY <1>1, <2>1, <2>2, <2>3, <2>4, <2>5
<1>5. IsInjective(u)
  BY <1>2, <1>4 DEF IsInjective
<1> QED BY <1>2, <1>5 DEF u, v

(* The queue keeps what was emitted, once, and leaves out nothing that it  *)
(* has room for.                                                           *)
LEMMA QueueStep == FrameInv /\ ChunkInv /\ QueueInv /\ [Next]_vars => QueueInv'
<1> SUFFICES ASSUME FrameInv, ChunkInv, QueueInv, [Next]_vars PROVE QueueInv'
  OBVIOUS
<1>1. items' = items /\ FrameInv' /\ ChunkInv'
  BY FrameStays, ChunkStep
<1>2. KMax \in Nat \ {0} /\ Ids' = Ids /\ AllIds' = AllIds
  BY <1>1, IdsStay, SceneAssumption
<1>3. /\ queue \in Seq(AllIds) /\ IsInjective(queue) /\ sure \in 0 .. Len(queue)
      /\ Len(queue) \in Nat
  BY DEF QueueInv
<1>4. stage \in AllKinds \cup {"client"} =>
        Range(queue) \subseteq Emitted /\ Len(queue) = Fill(Cardinality(Emitted))
  BY QueueShape DEF QueueInv
<1>5. stage \notin AllKinds \cup {"client"} =>
        Len(queue) = Fill(Cardinality(Ids) + Len(items["client"]))
  BY QueueShape DEF QueueInv
<1> DEFINE Goal == /\ queue' \in Seq(AllIds) /\ IsInjective(queue)' /\ sure' \in 0 .. Len(queue')
                   /\ stage' \in AllKinds \cup {"client"} =>
                        Range(queue)' \subseteq Emitted' /\ Len(queue') = Fill(Cardinality(Emitted)')
                   /\ stage' \notin AllKinds \cup {"client"} =>
                        Len(queue') = Fill(Cardinality(Ids) + Len(items["client"]))
<1>6. Goal => QueueInv'
  <2>1. /\ Min({Cardinality(Emitted'), KMax}) = Fill(Cardinality(Emitted'))
        /\ Min({Cardinality(Ids') + Len(items'["client"]), KMax})
              = Fill(Cardinality(Ids') + Len(items'["client"]))
    BY <1>1, QueueShapeNext
  <2> QED BY <1>1, <1>2, <2>1 DEF QueueInv
<1>7. ASSUME NEW ci \in DOMAIN next, EmitOne(ci) PROVE Goal
  <2> DEFINE x == <<stage, Chunk(ci).b + next[ci] + 1>>
  <2>1. /\ stage \in AllKinds /\ stage' = stage /\ x \in Ids /\ x \notin Emitted
        /\ Emitted' = Emitted \cup {x}
    BY <1>1, <1>7, EmitsOne
  <2>2. IsFiniteSet(Emitted) /\ Cardinality(Emitted) \in Nat
    BY EmittedIsFinite
  <2>3. /\ IF Len(queue) >= KMax THEN queue' = queue /\ sure' = sure
           ELSE /\ queue' = Append(queue, x)
                /\ sure' = Len(queue') \/ sure' = sure
    BY <1>7 DEF EmitOne
  <2>4. x \in AllIds
    BY <2>1 DEF AllIds
  <2>5. Range(queue) \subseteq Emitted /\ Len(queue) = Fill(Cardinality(Emitted))
    BY <1>4, <2>1
  <2> HIDE DEF x
  <2>6. Cardinality(Emitted') = Cardinality(Emitted) + 1
    <3> DEFINE E == Emitted
    <3>1. IsFiniteSet(E) /\ x \notin E
      BY <2>1, <2>2
    <3> HIDE DEF E
    <3>2. Cardinality(E \cup {x}) = Cardinality(E) + 1
      BY <3>1, FS_AddElement
    <3> QED BY <2>1, <3>2 DEF E
  <2> DEFINE m == Cardinality(Emitted)
             k == Cardinality(Emitted')
             l == Len(queue)
  <2>7. m \in Nat /\ k = m + 1 /\ l \in Nat /\ l = IF m <= KMax THEN m ELSE KMax
    BY <1>3, <2>2, <2>5, <2>6 DEF Fill
  <2>8. CASE l >= KMax
    <3>1. queue' = queue /\ sure' = sure
      BY <2>3, <2>8
    <3> HIDE DEF m, k, l
    <3>2. l = Fill(k)
      BY <1>2, <2>7, <2>8 DEF Fill
    <3> QED BY <1>3, <2>1, <2>5, <3>1, <3>2 DEF k, l
  <2>9. CASE ~(l >= KMax)
    <3>1. queue' = Append(queue, x) /\ (sure' = Len(queue') \/ sure' = sure)
      BY <2>3, <2>9
    <3>2. x \notin Range(queue)
      BY <2>1, <2>5
    <3>3. /\ queue' \in Seq(AllIds) /\ IsInjective(queue)'
          /\ Range(queue') = Range(queue) \cup {x} /\ Len(queue') = l + 1
      <4> DEFINE S == AllIds
                 s == queue
      <4>1. s \in Seq(S) /\ x \in S /\ IsInjective(s) /\ x \notin Range(s)
        BY <1>3, <2>4, <3>2
      <4> HIDE DEF S, s
      <4>2. /\ Append(s, x) \in Seq(S) /\ IsInjective(Append(s, x))
            /\ Range(Append(s, x)) = Range(s) \cup {x} /\ Len(Append(s, x)) = Len(s) + 1
        BY <4>1, AppendsNew
      <4> QED BY <3>1, <4>2 DEF S, s
    <3> HIDE DEF m, k, l
    <3>4. l + 1 = Fill(k)
      BY <1>2, <2>7, <2>9 DEF Fill
    <3>5. sure' \in 0 .. Len(queue')
      BY <1>3, <2>7, <3>1, <3>3 DEF l
    <3>6. Range(queue)' \subseteq Emitted'
      BY <2>1, <2>5, <3>3
    <3> QED BY <2>1, <3>3, <3>4, <3>5, <3>6 DEF k
  <2> QED BY <2>8, <2>9
<1>8. ASSUME JoinChunks PROVE Goal
  <2>1. /\ stage \in AllKinds /\ stage' \in AllKinds \cup {"client"} /\ Emitted' = Emitted
    BY <1>1, <1>8, JoinsAll
  <2>2. queue' = queue /\ sure' = sure
    BY <1>8 DEF JoinChunks
  <2> QED BY <1>3, <1>4, <2>1, <2>2
<1>9. ASSUME ClientRecords PROVE Goal
  <2> DEFINE c == items["client"]
             ids == [i \in DOMAIN items.client |-> <<"client", i>>]
             d == Len(c)
             l == Len(queue)
             n == Cardinality(Ids)
             w == Min({Len(queue) + Len(ids), KMax})
  <2>1. d \in Nat /\ DOMAIN c = 1 .. d
    BY ItemsOfFrame
  <2>2. ids = [i \in 1 .. d |-> <<"client", i>>]
    BY <2>1
  <2>3. ids \in Seq(AllIds) /\ Len(ids) = d /\ IsInjective(ids)
    <3>1. \A i \in 1 .. d : <<"client", i>> \in AllIds
      BY <2>1 DEF AllIds
    <3> HIDE DEF ids, d
    <3>2. ids \in [1 .. d -> AllIds] /\ DOMAIN ids = 1 .. d
      BY <2>2, <3>1
    <3>3. ids \in Seq(AllIds) /\ Len(ids) = d
      BY <2>1, <3>2 DEF d
    <3>4. ASSUME NEW i \in 1 .. d, NEW j \in 1 .. d, ids[i] = ids[j] PROVE i = j
      <4>1. ids[i][2] = i /\ ids[j][2] = j
        BY <2>2
      <4> QED BY <3>4, <4>1
    <3> QED BY <3>2, <3>3, <3>4 DEF IsInjective
  <2>4. stage = "client" /\ stage' = "sort" /\ queue' = SubSeq(queue \o ids, 1, w)
        /\ sure' = (IF queue' = queue THEN sure ELSE Len(queue'))
    BY <1>9 DEF ClientRecords
  <2>5. Range(queue) \subseteq Ids /\ Len(queue) = Fill(n) /\ n \in Nat
    <3>1. Emitted = Ids
      BY <2>4, EmittedIsFinite
    <3>2. n \in Nat
      BY <3>1, EmittedIsFinite
    <3> QED BY <1>4, <2>4, <3>1, <3>2
  <2>6. Range(queue) \cap Range(ids) = {}
    <3> SUFFICES ASSUME NEW id \in Range(queue), id \in Range(ids) PROVE FALSE
      OBVIOUS
    <3>1. id[1] \in AllKinds
      BY <2>5 DEF Ids
    <3>2. PICK i \in 1 .. d : id = <<"client", i>>
      BY <2>2 DEF Range
    <3>3. id[1] = "client"
      BY <3>2
    <3> QED BY <3>1, <3>3 DEF AllKinds
  <2> HIDE DEF ids, c, d
  <2>7. w = Fill(l + d) /\ w \in Nat /\ w <= l + d /\ l \in Nat
    <3>1. l \in Nat /\ d \in Nat /\ l + d \in Nat /\ w = Min({l + d, KMax})
      BY <1>3, <2>1, <2>3
    <3> HIDE DEF l, w
    <3>2. w = Fill(l + d)
      BY <1>2, <3>1, MinOfTwo DEF Fill
    <3> QED BY <1>2, <3>1, <3>2 DEF Fill
  <2> HIDE DEF w
  <2>8. queue' \in Seq(AllIds) /\ IsInjective(queue)' /\ Len(queue') = w
    <3> DEFINE S == AllIds
               s == queue
    <3>1. s \in Seq(S) /\ ids \in Seq(S) /\ IsInjective(s) /\ IsInjective(ids)
          /\ Range(s) \cap Range(ids) = {} /\ w \in Nat /\ w <= Len(s) + Len(ids)
      BY <1>3, <2>3, <2>6, <2>7
    <3> HIDE DEF S, s
    <3>2. SubSeq(s \o ids, 1, w) \in Seq(S) /\ IsInjective(SubSeq(s \o ids, 1, w))
          /\ Len(SubSeq(s \o ids, 1, w)) = w
      BY <3>1, JoinsDistinct
    <3> QED BY <2>4, <3>2 DEF S, s
  <2>9. Len(queue') = Fill(n + d)
    <3> HIDE DEF l, n
    <3>1. l = Fill(n)
      BY <2>5 DEF l
    <3> QED BY <1>2, <2>1, <2>5, <2>7, <2>8, <3>1 DEF Fill
  <2>10. sure' \in 0 .. Len(queue')
    BY <1>3, <2>4, <2>7, <2>8
  <2>11. stage' \notin AllKinds \cup {"client"}
    BY <2>4 DEF AllKinds
  <2> QED BY <2>8, <2>9, <2>10, <2>11 DEF n, d, c
<1>10. ASSUME stage \in {"sort", "tiles"}, stage' \in {"tiles", "done"}, queue' = queue, sure' = sure
       PROVE  Goal
  <2>1. stage \notin AllKinds \cup {"client"} /\ stage' \notin AllKinds \cup {"client"}
    BY <1>10 DEF AllKinds
  <2> QED BY <1>3, <1>5, <1>10, <2>1
<1>11. ASSUME Sort PROVE Goal
  <2>1. stage' = "done" \/ stage' = "tiles"
    BY <1>11 DEF Sort
  <2> QED BY <1>10, <1>11, <2>1 DEF Sort
<1>12. ASSUME NEW k \in DOMAIN painted, DrawNext(k) PROVE Goal
  BY <1>10, <1>12 DEF DrawNext
<1>13. ASSUME JoinTiles PROVE Goal
  BY <1>10, <1>13 DEF JoinTiles
<1>14. ASSUME UNCHANGED vars PROVE Goal
  <2>1. queue' = queue /\ sure' = sure /\ stage' = stage /\ next' = next
    BY <1>14 DEF vars
  <2>2. Emitted' = Emitted
    BY <1>14 DEF Emitted, Ids, Chunk, vars
  <2> QED BY <1>3, <1>4, <1>5, <2>1, <2>2
<1> HIDE DEF Goal
<1>15. Goal
  BY <1>7, <1>8, <1>9, <1>11, <1>12, <1>13, <1>14, StepCases DEF StepOf
<1> QED BY <1>6, <1>15

(* The order is a permutation of claimed slots whose keys do not decrease. *)
LEMMA OrderStep == FrameInv /\ ChunkInv /\ QueueInv /\ OrderInv /\ [Next]_vars => OrderInv'
<1> SUFFICES ASSUME FrameInv, ChunkInv, QueueInv, OrderInv, [Next]_vars PROVE OrderInv'
  OBVIOUS
<1>1. items' = items
  BY FrameStays
<1>2. /\ order \in Seq(1 .. Len(queue)) /\ painted \in [DOMAIN painted -> 0 .. Len(order)]
      /\ stage \notin {"tiles", "done"} => order = << >> /\ painted = << >>
      /\ \A i \in 1 .. Len(order) - 1 : Queued(order[i]).key <= Queued(order[i + 1]).key
  BY DEF OrderInv
<1>3. Len(queue) \in Nat /\ sure \in Nat
  BY DEF QueueInv
<1>4. ASSUME order' = << >>, painted' = << >> PROVE OrderInv'
  <2>1. Len(order') = 0 /\ order' \in Seq(1 .. Len(queue')) /\ painted' \in [DOMAIN painted' -> 0 .. Len(order')]
    BY <1>4
  <2> QED BY <1>4, <2>1 DEF OrderInv
<1>5. ASSUME stage \notin {"tiles", "done"}, order' = order, painted' = painted PROVE OrderInv'
  BY <1>2, <1>4, <1>5
<1>6. ASSUME NEW ci \in DOMAIN next, EmitOne(ci) PROVE OrderInv'
  <2>1. stage \notin {"tiles", "done"}
    BY <1>6 DEF EmitOne, Range, Kinds
  <2> QED BY <1>5, <1>6, <2>1 DEF EmitOne
<1>7. CASE JoinChunks
  <2>1. stage \notin {"tiles", "done"}
    BY <1>7 DEF JoinChunks, Range, Kinds
  <2> QED BY <1>5, <1>7, <2>1 DEF JoinChunks
<1>8. CASE ClientRecords
  BY <1>5, <1>8 DEF ClientRecords
<1>9. CASE Sort
  <2>1. stage = "sort" /\ queue' = queue
    BY <1>9 DEF Sort
  <2>2. PICK n \in sure .. Len(queue) :
          IF n = 0 THEN stage' = "done" /\ order' = order /\ painted' = painted
          ELSE /\ order' \in {s \in SetToSeqs(1 .. n) : \A i \in 1 .. n - 1 :
                                Queued(s[i]).key <= Queued(s[i + 1]).key}
               /\ painted' = [k \in DOMAIN Tiles |-> 0]
               /\ stage' = "tiles"
    BY <1>9 DEF Sort
  <2>3. CASE n = 0
    BY <1>5, <2>1, <2>2, <2>3
  <2>4. CASE n # 0
    <3>1. /\ order' \in SetToSeqs(1 .. n) /\ stage' = "tiles" /\ painted' = [k \in DOMAIN Tiles |-> 0]
          /\ \A i \in 1 .. n - 1 : Queued(order'[i]).key <= Queued(order'[i + 1]).key
      BY <2>2, <2>4
    <3>2. n \in Nat /\ n <= Len(queue)
      BY <1>3
    <3>3. Cardinality(1 .. n) = n
      <4>1. 1 \in Int /\ n \in Int
        BY <3>2
      <4>2. Cardinality(1 .. n) = IF 1 > n THEN 0 ELSE n - 1 + 1
        BY <4>1, FS_Interval
      <4> QED BY <3>2, <4>2
    <3>4. order' \in [1 .. n -> 1 .. n]
      BY <3>1, <3>3 DEF SetToSeqs
    <3>5. order' \in Seq(1 .. Len(queue)) /\ Len(order') = n
      <4>1. order' \in [1 .. n -> 1 .. Len(queue)]
        BY <1>3, <3>2, <3>4
      <4> QED BY <3>2, <4>1
    <3>6. painted' \in [DOMAIN painted' -> 0 .. Len(order')]
      BY <3>1, <3>2, <3>5
    <3>7. (\A i \in 1 .. Len(order) - 1 : Queued(order[i]).key <= Queued(order[i + 1]).key)'
      BY <1>1, <2>1, <3>1, <3>5 DEF Queued
    <3> QED BY <2>1, <3>1, <3>5, <3>6, <3>7 DEF OrderInv
  <2> QED BY <2>3, <2>4
<1>10. ASSUME order' = order, queue' = queue, stage' \notin {"tiles", "done"} => stage' = stage,
              painted' \in [DOMAIN painted' -> 0 .. Len(order)], painted = << >> => painted' = << >>
       PROVE  OrderInv'
  <2>1. (\A i \in 1 .. Len(order) - 1 : Queued(order[i]).key <= Queued(order[i + 1]).key)'
    BY <1>1, <1>2, <1>10 DEF Queued
  <2> QED BY <1>2, <1>10, <2>1 DEF OrderInv
<1>11. ASSUME NEW k \in DOMAIN painted, DrawNext(k) PROVE OrderInv'
  <2> DEFINE D == DOMAIN painted
             n == Len(order)
  <2>1. /\ painted[k] < n /\ painted' = [painted EXCEPT ![k] = @ + 1] /\ order' = order
        /\ queue' = queue /\ stage' = stage /\ stage = "tiles" /\ painted \in [D -> 0 .. n] /\ n \in Nat
    BY <1>2, <1>11 DEF DrawNext
  <2>2. DOMAIN painted' = D
    BY <2>1
  <2> HIDE DEF D, n
  <2>3. painted[k] + 1 \in 0 .. n
    BY <1>11, <2>1 DEF D
  <2>4. painted' \in [D -> 0 .. n]
    BY <2>1, <2>3
  <2>5. painted = << >> => painted' = << >>
    BY <1>11
  <2> QED BY <1>10, <2>1, <2>2, <2>4, <2>5 DEF n
<1>12. CASE JoinTiles
  BY <1>2, <1>10, <1>12 DEF JoinTiles
<1>13. CASE UNCHANGED vars
  BY <1>2, <1>10, <1>13 DEF vars
<1> QED BY <1>6, <1>7, <1>8, <1>9, <1>11, <1>12, <1>13, StepCases DEF StepOf

(* What a slot holds is a command; and only the client can clear.          *)
LEMMA QueuedIsCmd ==
  ASSUME FrameInv, QueueInv, NEW i \in 1 .. Len(queue)
  PROVE  /\ IsCmd(Queued(i))
         /\ Queued(i).op = "Clear" =>
              \E j \in DOMAIN scene.client : scene.client[j] = Queued(i)
<1>1. queue[i] \in AllIds
  BY DEF QueueInv
<1> DEFINE k == queue[i][1]
           j == queue[i][2]
<1>2. Queued(i) = items[k][j]
  BY DEF Queued
<1>3. \/ k \in AllKinds /\ j \in DOMAIN items[k]
      \/ k = "client" /\ j \in DOMAIN items["client"]
  BY <1>1 DEF AllIds, Ids
<1> HIDE DEF k, j
<1>4. CASE k \in AllKinds /\ j \in DOMAIN items[k]
  <2>1. IsCmd(items[k][j]) /\ items[k][j].op # "Clear"
    BY <1>4, ItemsOfFrame
  <2> QED BY <1>2, <2>1
<1>5. CASE k = "client" /\ j \in DOMAIN items["client"]
  <2>1. items["client"] = scene.client /\ IsCmd(scene.client[j]) /\ j \in DOMAIN scene.client
    BY <1>5, ItemsOfFrame
  <2> QED BY <1>2, <1>5, <2>1
<1> QED BY <1>3, <1>4, <1>5

(* A command leaves colours on the canvas, opaque ones if all were and it  *)
(* does not clear it with a translucent one.                               *)
LEMMA CanvasStep ==
  FrameInv /\ QueueInv /\ OrderInv /\ CanvasInv /\ [Next]_vars => CanvasInv'
<1> SUFFICES ASSUME FrameInv, QueueInv, OrderInv, CanvasInv, [Next]_vars PROVE CanvasInv'
  OBVIOUS
<1>1. before' = before /\ scene' = scene
  BY FrameStays
<1>2. ASSUME canvas' = canvas PROVE CanvasInv'
  BY <1>1, <1>2 DEF CanvasInv, CanvasStaysOpaque
<1>3. ASSUME NEW k \in DOMAIN painted, DrawNext(k) PROVE CanvasInv'
  <2> DEFINE n == painted[k] + 1
             c == Queued(order[n])
             D == DOMAIN before
  <2>1. painted[k] \in 0 .. Len(order) /\ painted[k] < Len(order) /\ Len(order) \in Nat
    <3> DEFINE E == DOMAIN painted
               m == Len(order)
    <3>1. painted \in [E -> 0 .. m] /\ k \in E /\ painted[k] < m /\ m \in Nat
      BY <1>3 DEF OrderInv, DrawNext
    <3> HIDE DEF E, m
    <3>2. painted[k] \in 0 .. m
      BY <3>1
    <3> QED BY <3>1, <3>2 DEF m
  <2>2. order[n] \in 1 .. Len(queue)
    <3>1. n \in 1 .. Len(order)
      BY <2>1
    <3> QED BY <3>1, ElementOfSeq DEF OrderInv
  <2>3. IsCmd(c) /\ (c.op = "Clear" => \E j \in DOMAIN scene.client : scene.client[j] = c)
    BY <2>2, QueuedIsCmd
  <2>4. canvas \in [D -> Colors] /\ D \subseteq Int \X Int
    BY DEF CanvasInv, FrameInv
  <2>5. canvas' = [q \in D |-> IF q \in Tiles[k] THEN DrawPixel(c, q, canvas[q]) ELSE canvas[q]]
    BY <1>3, <2>4 DEF DrawNext, Draw
  <2> HIDE DEF c, D
  <2>6. ASSUME NEW q \in D
        PROVE  /\ canvas'[q] = DrawPixel(c, q, canvas[q]) \/ canvas'[q] = canvas[q]
               /\ canvas[q] \in Colors /\ DrawPixel(c, q, canvas[q]) \in Colors
               /\ Opaque(canvas[q]) /\ (c.op = "Clear" => Opaque(c.color))
                    => Opaque(DrawPixel(c, q, canvas[q]))
    <3>1. q \in Int \X Int /\ canvas[q] \in Colors
      BY <2>4
    <3>2. /\ DrawPixel(c, q, canvas[q]) \in Colors
          /\ Opaque(canvas[q]) /\ (c.op = "Clear" => Opaque(c.color))
               => Opaque(DrawPixel(c, q, canvas[q]))
      BY <2>3, <3>1, DrawnIsColor
    <3>3. canvas'[q] = DrawPixel(c, q, canvas[q]) \/ canvas'[q] = canvas[q]
      BY <2>5
    <3> QED BY <3>1, <3>2, <3>3
  <2>7. canvas' \in [D -> Colors]
    <3>1. DOMAIN canvas' = D /\ \A q \in D : canvas'[q] \in Colors
      BY <2>5, <2>6
    <3> QED BY <2>5, <3>1
  <2>8. CanvasStaysOpaque'
    <3> DEFINE Hyp == /\ \A q \in D : before[q].a = 255
                      /\ \A i \in DOMAIN scene.client :
                           scene.client[i].op = "Clear" => scene.client[i].color.a = 255
    <3>1. DOMAIN canvas = D /\ DOMAIN canvas' = D
      BY <2>4, <2>5
    <3>2. ASSUME Hyp, NEW q \in D PROVE canvas'[q].a = 255
      <4>1. canvas[q].a = 255
        BY <3>1, <3>2 DEF CanvasInv, CanvasStaysOpaque, D
      <4>2. c.op = "Clear" => c.color.a = 255
        BY <2>3, <3>2
      <4> QED BY <2>6, <4>1, <4>2 DEF Opaque
    <3> QED BY <1>1, <3>1, <3>2 DEF CanvasStaysOpaque, D
  <2> QED BY <1>1, <2>7, <2>8 DEF CanvasInv, D
<1>4. ASSUME NEW ci \in DOMAIN next, EmitOne(ci) PROVE CanvasInv'
  BY <1>2, <1>4 DEF EmitOne
<1>5. CASE JoinChunks
  BY <1>2, <1>5 DEF JoinChunks
<1>6. CASE ClientRecords
  BY <1>2, <1>6 DEF ClientRecords
<1>7. CASE Sort
  BY <1>2, <1>7 DEF Sort
<1>8. CASE JoinTiles
  BY <1>2, <1>8 DEF JoinTiles
<1>9. CASE UNCHANGED vars
  BY <1>2, <1>9 DEF vars
<1> QED BY <1>3, <1>4, <1>5, <1>6, <1>7, <1>8, <1>9, StepCases DEF StepOf

(* All of it together is inductive.                                        *)
THEOREM SceneInvHolds == Spec => []SceneInv
<1>1. Init => SceneInv
  BY FrameBegins, QueueBegins DEF SceneInv
<1>2. SceneInv /\ [Next]_vars => SceneInv'
  BY FrameStays, ChunkStep, QueueStep, OrderStep, CanvasStep DEF SceneInv
<1> QED BY <1>1, <1>2, PTL DEF Spec

-----------------------------------------------------------------------------
(* What follows.                                                           *)

(* The invariant gives the types.                                           *)
LEMMA ImpliesTypeOK == SceneInv => TypeOK
<1> SUFFICES ASSUME SceneInv PROVE TypeOK
  OBVIOUS
<1>1. /\ stage \in Stages /\ next \in [DOMAIN next -> 0 .. KMax]
      /\ queue \in Seq(AllIds) /\ sure \in 0 .. Len(queue)
      /\ order \in Seq(1 .. Len(queue)) /\ canvas \in [DOMAIN before -> Colors]
  BY DEF SceneInv, ChunkInv, QueueInv, OrderInv, CanvasInv
<1>2. DOMAIN queue = 1 .. Len(queue) /\ \A i \in DOMAIN queue : queue[i] \in AllIds
  BY <1>1, ElementOfSeq
<1>3. \A i \in DOMAIN queue : queue[i][2] \in DOMAIN items[queue[i][1]]
  <2> TAKE i \in DOMAIN queue
  <2> DEFINE id == queue[i]
  <2>1. id \in AllIds
    BY <1>2
  <2> HIDE DEF id
  <2>2. id[2] \in DOMAIN items[id[1]]
    BY <2>1 DEF AllIds, Ids
  <2> QED BY <2>2 DEF id
<1>4. Len(queue) <= KMax
  <2>1. Len(queue) = Fill(Cardinality(Emitted)) \/ Len(queue) = Fill(Cardinality(Ids) + Len(items["client"]))
    BY QueueShape DEF SceneInv, QueueInv
  <2>2. KMax \in Nat /\ Cardinality(Emitted) \in Nat /\ Cardinality(Ids) + Len(items["client"]) \in Nat
    BY QueueShape, SceneAssumption DEF SceneInv
  <2>3. ASSUME NEW n \in Nat PROVE Fill(n) <= KMax
    BY <2>2 DEF Fill
  <2> QED BY <2>1, <2>2, <2>3
<1>5. Range(order) \subseteq DOMAIN queue
  <2> DEFINE S == 1 .. Len(queue)
             s == order
  <2>1. s \in Seq(S)
    BY <1>1
  <2> HIDE DEF S, s
  <2>2. \A i \in DOMAIN s : s[i] \in S
    BY <2>1
  <2> QED BY <1>2, <2>2 DEF Range, S, s
<1> QED BY <1>1, <1>3, <1>4, <1>5 DEF TypeOK

(* Every pixel of the canvas stays a colour, no chunk and no tile runs     *)
(* over its end, and no slot beyond kMax is claimed.                       *)
THEOREM TypeCorrect == Spec => []TypeOK
BY SceneInvHolds, ImpliesTypeOK, PTL

(* The invariant says what is queued once the client has recorded.          *)
LEMMA ImpliesQueueHoldsScene == SceneInv => QueueHoldsScene
<1> SUFFICES ASSUME SceneInv, stage \in {"sort", "tiles", "done"}
             PROVE  /\ IsInjective(queue)
                    /\ Len(queue) = Min({Len(DrawnOnes("rect", scene.rect))
                                          + Len(DrawnOnes("sprite", scene.sprite))
                                          + Len(DrawnOnes("text", scene.text))
                                          + Len(scene.client), KMax})
  BY DEF QueueHoldsScene
<1> DEFINE a == Len(DrawnOnes("rect", scene.rect))
           b == Len(DrawnOnes("sprite", scene.sprite))
           c == Len(DrawnOnes("text", scene.text))
           d == Len(scene.client)
<1>1. /\ FrameInv /\ ChunkInv /\ KMax \in Nat
      /\ IsInjective(queue) /\ Len(queue) = Fill(Cardinality(Ids) + Len(items["client"]))
  <2>1. FrameInv /\ ChunkInv /\ QueueInv /\ KMax \in Nat
    BY SceneAssumption DEF SceneInv
  <2>2. stage \notin AllKinds \cup {"client"}
    BY DEF AllKinds
  <2> QED BY <2>1, <2>2, QueueShape DEF QueueInv
<1>2. ASSUME NEW kind \in AllKinds
      PROVE  /\ Len(DrawnOnes(kind, scene[kind])) \in Nat
             /\ Len(items[kind]) = Fill(Len(DrawnOnes(kind, scene[kind])))
  BY <1>1, ItemsOfFrame DEF Fill
<1>3. a \in Nat /\ b \in Nat /\ c \in Nat /\ d \in Nat
  BY <1>1, <1>2, ItemsOfFrame DEF AllKinds
<1>4. /\ Len(items["rect"]) = Fill(a) /\ Len(items["sprite"]) = Fill(b)
      /\ Len(items["text"]) = Fill(c) /\ Len(items["client"]) = d
  BY <1>1, <1>2, ItemsOfFrame DEF AllKinds
<1>5. Cardinality(Ids) = Fill(a) + Fill(b) + Fill(c)
  BY <1>1, <1>4, IdsOfKinds
<1>6. Len(queue) = Fill(Fill(a) + Fill(b) + Fill(c) + d)
  BY <1>1, <1>4, <1>5
<1> HIDE DEF a, b, c, d
<1>7. Fill(Fill(a) + Fill(b) + Fill(c) + d) = Fill(a + b + c + d) /\ a + b + c + d \in Nat
  BY <1>1, <1>3 DEF Fill
<1>8. Min({a + b + c + d, KMax}) = Fill(a + b + c + d)
  BY <1>1, <1>7, MinOfTwo DEF Fill
<1> QED BY <1>1, <1>6, <1>7, <1>8 DEF a, b, c, d

(* However the items divide among the chunks, every entity that has        *)
(* something to draw and every command of the client is in the queue once, *)
(* and the queue is full if there is no room for them.                     *)
THEOREM QueueHoldsSceneHolds == Spec => []QueueHoldsScene
BY SceneInvHolds, ImpliesQueueHoldsScene, PTL

(* std::sort compares neighbours; the keys grow all along.                 *)
LEMMA KeysGrow ==
  ASSUME NEW n \in Nat, NEW k \in [1 .. n -> Nat], \A i \in 1 .. n - 1 : k[i] <= k[i + 1]
  PROVE  \A i, j \in 1 .. n : i < j => k[i] <= k[j]
<1> SUFFICES ASSUME NEW i \in 1 .. n PROVE \A j \in 1 .. n : i < j => k[i] <= k[j]
  OBVIOUS
<1> DEFINE G == {j \in 1 .. n : k[i] <= k[j]}
<1>1. i \in Int /\ n \in Int /\ i \in G
  OBVIOUS
<1>2. ASSUME NEW j \in i .. n, j > i, j - 1 \in G PROVE j \in G
  <2>1. j - 1 \in 1 .. n - 1 /\ (j - 1) + 1 = j /\ j \in 1 .. n
    BY <1>2
  <2>2. k[j - 1] <= k[j]
    BY <2>1
  <2>3. k[i] \in Nat /\ k[j - 1] \in Nat /\ k[j] \in Nat /\ k[i] <= k[j - 1]
    BY <1>2, <2>1
  <2> QED BY <2>1, <2>2, <2>3
<1>3. \A j \in i .. n : j \in G
  <2> HIDE DEF G
  <2> QED BY <1>1, <1>2, IntervalInduction
<1> QED BY <1>3

(* The invariant orders the layers once the queue is sorted.                *)
LEMMA ImpliesLayersStack == SceneInv => LayersStack
<1> SUFFICES ASSUME SceneInv PROVE LayersStack
  OBVIOUS
<1>1. FrameInv /\ QueueInv /\ OrderInv
  BY DEF SceneInv
<1> DEFINE n == Len(order)
           k == [i \in 1 .. n |-> Queued(order[i]).key]
           Layer(i) == LET id == queue[order[i]]
                           z == DrawnOnes(id[1], scene[id[1]])[id[2]].z
                       IN  IF id[1] = "client" THEN SortLayer(items.client[id[2]].key)
                           ELSE IF z = NoOrder THEN 0 ELSE z[1]
<1>2. n \in Nat /\ DOMAIN order = 1 .. n /\ \A i \in 1 .. n : order[i] \in 1 .. Len(queue)
  BY <1>1, ElementOfSeq DEF OrderInv
<1>3. ASSUME NEW i \in 1 .. n PROVE Queued(order[i]).key \in Nat
  BY <1>1, <1>2, QueuedIsCmd DEF IsCmd
<1>4. ASSUME NEW i \in 1 .. n PROVE Layer(i) = SortLayer(Queued(order[i]).key)
  <2> DEFINE id == queue[order[i]]
             kind == id[1]
             m == id[2]
  <2>1. id \in AllIds
    BY <1>1, <1>2, ElementOfSeq DEF QueueInv
  <2>2. Queued(order[i]) = items[kind][m]
    BY DEF Queued
  <2>3. \/ kind \in AllKinds /\ m \in DOMAIN items[kind]
        \/ kind = "client" /\ m \in DOMAIN items["client"]
    BY <2>1 DEF AllIds, Ids
  <2>4. Layer(i) = IF kind = "client" THEN SortLayer(items.client[m].key)
                   ELSE IF DrawnOnes(kind, scene[kind])[m].z = NoOrder THEN 0
                        ELSE DrawnOnes(kind, scene[kind])[m].z[1]
    OBVIOUS
  <2> HIDE DEF id, kind, m, Layer
  <2>5. CASE kind = "client"
    BY <2>2, <2>4, <2>5
  <2>6. CASE kind \in AllKinds /\ m \in DOMAIN items[kind]
    <3> DEFINE e == DrawnOnes(kind, scene[kind])[m]
    <3>1. items[kind][m].key = Key(e) /\ e.z \in RenderOrder2D
      BY <1>1, <2>6, ItemsOfFrame
    <3> HIDE DEF e
    <3>2. SortLayer(Key(e)) = IF e.z = NoOrder THEN 0 ELSE e.z[1]
      BY <3>1, KeyOfEntity
    <3>3. kind # "client"
      BY <2>6 DEF AllKinds
    <3> QED BY <2>2, <2>4, <3>1, <3>2, <3>3 DEF e
  <2> QED BY <2>3, <2>5, <2>6
<1>5. k \in [1 .. n -> Nat] /\ \A i \in 1 .. n : k[i] = Queued(order[i]).key
  BY <1>3
<1>6. \A i \in 1 .. n - 1 : k[i] <= k[i + 1]
  <2> TAKE i \in 1 .. n - 1
  <2>1. i \in 1 .. n /\ i + 1 \in 1 .. n
    BY <1>2
  <2>2. Queued(order[i]).key <= Queued(order[i + 1]).key
    BY <1>1 DEF OrderInv
  <2> HIDE DEF k, n
  <2> QED BY <1>5, <2>1, <2>2
<1> HIDE DEF k
<1>7. \A i, j \in 1 .. n : i < j => k[i] <= k[j]
  <2> HIDE DEF n
  <2> QED BY <1>2, <1>5, <1>6, KeysGrow
<1>8. ASSUME NEW a \in Nat, NEW b \in Nat, a <= b PROVE SortLayer(a) <= SortLayer(b)
  <2>1. 2^24 = 16777216
    OBVIOUS
  <2>2. a \div 16777216 <= b \div 16777216
    BY <1>8
  <2> QED BY <2>1, <2>2 DEF SortLayer
<1> HIDE DEF Layer
<1>9. \A i, j \in 1 .. n : i < j => Layer(i) <= Layer(j)
  <2> SUFFICES ASSUME NEW i \in 1 .. n, NEW j \in 1 .. n, i < j PROVE Layer(i) <= Layer(j)
    OBVIOUS
  <2>1. k[i] \in Nat /\ k[j] \in Nat /\ k[i] <= k[j]
    BY <1>5, <1>7
  <2>2. Layer(i) = SortLayer(k[i]) /\ Layer(j) = SortLayer(k[j])
    BY <1>4, <1>5
  <2> QED BY <1>8, <2>1, <2>2
<1> QED BY <1>2, <1>9 DEF LayersStack, Layer

(* An entity of a higher layer is drawn after one of a lower layer,        *)
(* whatever their order and tie.                                           *)
THEOREM LayersStackHolds == Spec => []LayersStack
BY SceneInvHolds, ImpliesLayersStack, PTL

(* On an opaque canvas that is cleared with opaque colours every pixel     *)
(* stays opaque, in every stage of every frame.                            *)
THEOREM CanvasStaysOpaqueHolds == Spec => []CanvasStaysOpaque
<1>1. SceneInv => CanvasStaysOpaque
  BY DEF SceneInv, CanvasInv
<1> QED BY <1>1, SceneInvHolds, PTL

(* What is recorded are commands.                                          *)
LEMMA RecordedIsCmd ==
  ASSUME FrameInv
  PROVE  \A c \in Range(Recorded) : IsCmd(c)
<1> DEFINE All == Range(items["rect"]) \cup Range(items["sprite"])
                    \cup Range(items["text"]) \cup Range(items["client"])
           S == {c \in All : IsCmd(c)}
           A == items["rect"]
           B == items["sprite"]
           C == items["text"]
           D == items["client"]
<1>1. ASSUME NEW kind \in AllKinds \cup {"client"}
      PROVE  /\ items[kind] \in Seq(Range(items[kind]))
             /\ \A i \in DOMAIN items[kind] : IsCmd(items[kind][i])
  <2>1. CASE kind \in AllKinds
    <3> DEFINE s == items[kind]
               n == Len(s)
    <3>1. /\ n \in 0 .. KMax /\ DOMAIN s = 1 .. n /\ s \in [1 .. n -> Range(s)]
          /\ \A i \in 1 .. n : IsCmd(s[i])
      BY <2>1, ItemsOfFrame
    <3>2. KMax \in Nat
      BY SceneAssumption
    <3> HIDE DEF s, n
    <3>3. s \in Seq(Range(s))
      BY <3>1, <3>2
    <3> QED BY <3>1, <3>3 DEF s
  <2>2. CASE kind = "client"
    BY <2>2, ItemsOfFrame
  <2> QED BY <2>1, <2>2
<1>2. ASSUME NEW kind \in AllKinds \cup {"client"}, Range(items[kind]) \subseteq All
      PROVE  items[kind] \in Seq(S)
  <2> DEFINE s == items[kind]
             n == Len(s)
  <2>1. s \in Seq(Range(s)) /\ \A i \in DOMAIN s : IsCmd(s[i])
    BY <1>1
  <2>2. Range(s) \subseteq S
    BY <1>2, <2>1 DEF Range
  <2> HIDE DEF s, S
  <2>3. s \in Seq(S)
    BY <2>1, <2>2
  <2> QED BY <2>3 DEF s
<1>3. A \in Seq(S) /\ B \in Seq(S) /\ C \in Seq(S) /\ D \in Seq(S)
  <2> HIDE DEF S
  <2> QED BY <1>2 DEF AllKinds
<1>4. Recorded = ((A \o B) \o C) \o D
  BY DEF Recorded
<1> HIDE DEF A, B, C, D, All
<1>5. Recorded \in Seq(S)
  <2> HIDE DEF S
  <2> QED BY <1>3, <1>4, ConcatProperties
<1>6. \A i \in DOMAIN Recorded : Recorded[i] \in S
  <2> HIDE DEF S
  <2> QED BY <1>5, ElementOfSeq
<1> QED BY <1>6 DEF Range

(* What is drawn are commands.                                              *)
LEMMA CommandsAreCmds ==
  ASSUME FrameInv, NEW ops, NEW c \in Commands(ops)
  PROVE  IsCmd(c) /\ c.op \in ops
BY RecordedIsCmd DEF Commands

(* A pixel of the canvas is a pair of coordinates.                          *)
LEMMA PixelsArePairs ==
  ASSUME FrameInv, CanvasInv, NEW q \in DOMAIN canvas
  PROVE  q \in Int \X Int
BY DEF FrameInv, CanvasInv

(* Every line of every frame is the straight line between its end points.  *)
THEOREM LinesAreStraightHolds == Spec => []LinesAreStraight
<1>1. SceneInv => LinesAreStraight
  <2> SUFFICES ASSUME SceneInv, NEW c \in Commands({"Line"})
               PROVE  LET p == LinePoints(c)
                          dx == c.x1 - c.x0
                          dy == c.y1 - c.y0
                          longer == Max({AbsVal(dx), AbsVal(dy)})
                      IN  /\ Len(p) = longer + 1 /\ p[Len(p)] = <<c.x1, c.y1>>
                          /\ \A k \in DOMAIN p :
                               2 * AbsVal(dy * (p[k][1] - c.x0) - dx * (p[k][2] - c.y0)) <= longer
    BY DEF LinesAreStraight
  <2> DEFINE p == LinePoints(c)
             m == IF DX(c) >= DY(c) THEN DX(c) ELSE DY(c)
  <2>1. IsLine(c)
    BY CommandsAreCmds DEF SceneInv, IsCmd, IsLine
  <2>2. DX(c) \in Nat /\ DY(c) \in Nat /\ LineShape(c, p)
    BY <2>1, LineConstants, LineIsStraight
  <2>3. Max({AbsVal(c.x1 - c.x0), AbsVal(c.y1 - c.y0)}) = m
    <3>1. AbsVal(c.x1 - c.x0) = DX(c) /\ AbsVal(c.y1 - c.y0) = DY(c)
      BY DEF DX, DY
    <3>2. Max({DX(c), DY(c)}) = m
      BY <2>2, MaxOfTwo
    <3> QED BY <3>1, <3>2
  <2> HIDE DEF p
  <2>4. /\ p \in Seq(Int \X Int) /\ p \in [1 .. m + 1 -> Int \X Int] /\ p[m + 1] = <<c.x1, c.y1>>
        /\ \A k \in 1 .. m + 1 :
             2 * AbsVal((c.y1 - c.y0) * (p[k][1] - c.x0) - (c.x1 - c.x0) * (p[k][2] - c.y0)) <= m
    BY <2>2 DEF LineShape
  <2>5. m \in Nat
    BY <2>2
  <2> HIDE DEF m
  <2>6. Len(p) = m + 1 /\ DOMAIN p = 1 .. m + 1
    BY <2>4, <2>5
  <2> QED BY <2>3, <2>4, <2>6 DEF p
<1> QED BY <1>1, SceneInvHolds, PTL

(* Every circle that is drawn is closed and round, and its disc fills it.  *)
THEOREM CirclesAreClosedHolds == Spec => []CirclesAreClosed
<1>1. SceneInv => CirclesAreClosed
  <2> SUFFICES ASSUME SceneInv, NEW c \in Commands({"Circle"}), c.x1 > 0
               PROVE  /\ \A q \in Circle(c) :
                           LET d == (q[1] - c.x0) * (q[1] - c.x0) + (q[2] - c.y0) * (q[2] - c.y0)
                           IN  /\ Cardinality(Touching(c, q)) >= 2
                               /\ d <= c.x1 * c.x1
                               /\ c.x1 > 1 => 4 * d >= (2 * c.x1 - 3) * (2 * c.x1 - 3)
                      /\ \A q \in DOMAIN canvas :
                           (Times(Disc(c), q) > 0) <=>
                              /\ Side(c, q[2]) # {}
                              /\ Min(Side(c, q[2])) <= q[1] /\ q[1] <= Max(Side(c, q[2]))
    BY DEF CirclesAreClosed, Circle, Touching, Disc, Side
  <2>1. c.x0 \in Int /\ c.y0 \in Int /\ c.x1 \in Int
    BY CommandsAreCmds DEF SceneInv, IsCmd
  <2>2. \A q \in DOMAIN canvas : q \in Int \X Int
    BY PixelsArePairs DEF SceneInv
  <2>3. ASSUME NEW q \in Circle(c)
        PROVE  LET d == (q[1] - c.x0) * (q[1] - c.x0) + (q[2] - c.y0) * (q[2] - c.y0)
               IN  /\ Cardinality(Touching(c, q)) >= 2
                   /\ d <= c.x1 * c.x1
                   /\ c.x1 > 1 => 4 * d >= (2 * c.x1 - 3) * (2 * c.x1 - 3)
    BY <2>1, CircleIsClosed, CircleIsRound
  <2>4. ASSUME NEW q \in DOMAIN canvas
        PROVE  (Times(Disc(c), q) > 0) <=>
                 /\ Side(c, q[2]) # {}
                 /\ Min(Side(c, q[2])) <= q[1] /\ q[1] <= Max(Side(c, q[2]))
    BY <2>1, <2>2, DiscFillsCircle
  <2> QED BY <2>3, <2>4
<1> QED BY <1>1, SceneInvHolds, PTL

(* Every outline that fits is the rectangle less the one inside it.        *)
THEOREM OutlineIsRingHolds == Spec => []OutlineIsRing
<1>1. SceneInv => OutlineIsRing
  <2> SUFFICES ASSUME SceneInv, NEW c \in Commands({"RectOutline"}), c.u0 <= Min({c.x1, c.y1}),
                      NEW q \in DOMAIN canvas
               PROVE  (Times(c, q) > 0) <=>
                        /\ InRect(q, c.x0, c.y0, c.x1, c.y1)
                        /\ ~InRect(q, c.x0 + c.u0, c.y0 + c.u0, c.x1 - 2 * c.u0, c.y1 - 2 * c.u0)
    BY DEF OutlineIsRing
  <2>1. IsCmd(c) /\ c.op = "RectOutline" /\ q \in Int \X Int
    BY CommandsAreCmds, PixelsArePairs DEF SceneInv
  <2>2. /\ c.x0 \in Int /\ c.y0 \in Int /\ c.x1 \in Int /\ c.y1 \in Int /\ c.u0 \in Nat
        /\ Times(c, q) = OutlineTimes(c, q)
    BY <2>1 DEF IsCmd, Times
  <2>3. c.u0 <= c.x1 /\ c.u0 <= c.y1
    BY <2>2, MinOfTwo
  <2> QED BY <2>1, <2>2, <2>3, OutlineWritesRing
<1> QED BY <1>1, SceneInvHolds, PTL

(* No translucent rectangle, line or text is blended twice anywhere.       *)
THEOREM BlendsOnceHolds == Spec => []BlendsOnce
<1>1. SceneInv => BlendsOnce
  <2> SUFFICES ASSUME SceneInv,
                      NEW c \in Commands({"FillRect", "BlendRect", "Line", "HLine", "VLine", "Text"}),
                      NEW q \in DOMAIN canvas
               PROVE  Times(c, q) <= 1
    BY DEF BlendsOnce
  <2>1. /\ IsCmd(c) /\ c.op \in {"FillRect", "BlendRect", "Line", "HLine", "VLine", "Text"}
        /\ q \in Int \X Int
    BY CommandsAreCmds, PixelsArePairs DEF SceneInv
  <2> QED BY <2>1, EvenlyBlended
<1> QED BY <1>1, SceneInvHolds, PTL

-----------------------------------------------------------------------------
(* The frame implements the painter's: what has to hold between the steps. *)

(* The canvas is one of the sizes.                                         *)
SizeInv == \E size \in Sizes : DOMAIN before = Pixels(size)

(* When everything is certainly published: with one worker at most, and    *)
(* when the client has recorded last with room for all.                    *)
SureInv ==
  /\ Len(queue) > 0 => sure > 0
  /\ workers <= 1 => sure = Len(queue)
  /\ stage \in {"sort", "tiles", "done"} /\ items["client"] # << >> /\ Len(Recorded) <= KMax
       => sure = Len(queue)

(* The commands in the order the tiles draw them.                          *)
InOrder == [i \in 1 .. Len(order) |-> Queued(order[i])]

(* A tile has been through as many commands of the order as painted says,  *)
(* and nothing else has changed it.                                        *)
DrawnInv ==
  /\ stage \notin {"tiles", "done"} => canvas = before
  /\ stage = "tiles" =>
       /\ Len(order) \in sure .. Len(queue) /\ Len(order) > 0 /\ IsInjective(order)
       /\ DOMAIN painted = DOMAIN Tiles
       /\ \A k \in DOMAIN Tiles : \A q \in Tiles[k] :
            canvas[q] = P!Paintings(InOrder, before)[painted[k]][q]

-----------------------------------------------------------------------------
(* The painter's commands do to a pixel what the renderer's do.            *)
LEMMA SameDraw ==
  ASSUME NEW c, NEW area, NEW pic
  PROVE  P!Draw(c, area, pic) = Draw(c, area, pic)
BY DEF P!Draw, Draw, P!DrawPixel, DrawPixel, P!OverTimes, OverTimes, P!SpritePixel, SpritePixel,
       P!Times, Times, P!TextTimes, TextTimes, P!Pens, Pens, P!OutlineTimes, OutlineTimes,
       P!InRect, InRect, P!Between, Between, P!Spans, Spans, P!Octants, Octants, P!Arc, Arc,
       P!ArcStates, ArcStates, P!ArcStep, ArcStep, P!LinePoints, LinePoints,
       P!LineStates, LineStates, P!LineTurns, LineTurns, P!LineStep, LineStep, P!AbsVal, AbsVal,
       P!Over, Over, P!Modulate, Modulate, P!Mix, Mix, P!Cardinality, Cardinality

(* Painting one command after the other takes each pixel through the       *)
(* commands by itself.                                                     *)
PaintsEachPixel(p, s, pic, D) ==
  /\ p[0] = pic
  /\ \A i \in 0 .. Len(s) : p[i] \in [D -> Colors]
  /\ \A i \in 1 .. Len(s) : \A q \in D : p[i][q] = DrawPixel(s[i], q, p[i - 1][q])

(* So does a painter who paints a sequence of commands one after the       *)
(* other.                                                                  *)
LEMMA PaintingsRun ==
  ASSUME NEW D \in SUBSET (Int \X Int), NEW s, Len(s) \in Nat,
         \A i \in 1 .. Len(s) : IsCmd(s[i]), NEW pic \in [D -> Colors]
  PROVE  PaintsEachPixel(P!Paintings(s, pic), s, pic, D)
<1> DEFINE n == Len(s)
           S == [D -> Colors]
           F == [t \in Nat \X S |-> IF t[1] \in 1 .. n THEN Draw(s[t[1]], D, t[2]) ELSE t[2]]
           p[i \in 0 .. n] == IF i = 0 THEN pic ELSE Draw(s[i], DOMAIN pic, p[i - 1])
<1>1. ASSUME NEW i \in 1 .. n, NEW f \in S
      PROVE  /\ Draw(s[i], D, f) = [q \in D |-> DrawPixel(s[i], q, f[q])]
             /\ Draw(s[i], D, f) \in S
  <2>1. Draw(s[i], D, f) = [q \in D |-> DrawPixel(s[i], q, f[q])]
    BY DEF Draw
  <2>2. ASSUME NEW q \in D PROVE DrawPixel(s[i], q, f[q]) \in Colors
    <3>1. IsCmd(s[i]) /\ q \in Int \X Int /\ f[q] \in Colors
      OBVIOUS
    <3> QED BY <3>1, DrawnIsColor
  <2> QED BY <2>1, <2>2
<1>2. DOMAIN pic = D /\ pic \in S /\ n \in Nat
  OBVIOUS
<1>3. F \in [Nat \X S -> S]
  <2>1. ASSUME NEW k \in Nat, NEW f \in S
        PROVE  (IF k \in 1 .. n THEN Draw(s[k], D, f) ELSE f) \in S
    BY <1>1
  <2> HIDE DEF S, n
  <2> QED BY <2>1
<1>4. PICK v : IsRun(v, S, pic, n, F)
  <2> HIDE DEF S, F, n
  <2> QED BY <1>2, <1>3, LoopRuns
<1>5. v = [i \in 0 .. n |-> IF i = 0 THEN pic ELSE Draw(s[i], DOMAIN pic, v[i - 1])]
  <2>1. ASSUME NEW i \in 0 .. n, i # 0 PROVE v[i] = Draw(s[i], D, v[i - 1])
    <3>1. i - 1 \in 0 .. n /\ i \in 1 .. n /\ i \in Nat
      BY <1>2, <2>1
    <3>2. v[i - 1] \in S
      <4> HIDE DEF S, F, n
      <4> QED BY <1>4, <3>1 DEF IsRun
    <3>3. F[<<i, v[i - 1]>>] = Draw(s[i], D, v[i - 1])
      <4> HIDE DEF S, n
      <4> QED BY <3>1, <3>2
    <3> HIDE DEF F, S, n
    <3> QED BY <1>4, <3>1, <3>3 DEF IsRun
  <2> HIDE DEF F, S, n
  <2> QED BY <1>2, <1>4, <2>1 DEF IsRun
<1>6. p = [i \in 0 .. n |-> IF i = 0 THEN pic ELSE Draw(s[i], DOMAIN pic, p[i - 1])]
  BY <1>5
<1>7. P!Paintings(s, pic) = p
  BY SameDraw DEF P!Paintings
<1> HIDE DEF p
<1> DEFINE G == {i \in 0 .. n : p[i] \in S}
<1>8. \A i \in 0 .. n : i \in G
  <2>1. 0 \in G
    BY <1>2, <1>6
  <2>2. ASSUME NEW i \in 0 .. n, i > 0, i - 1 \in G PROVE i \in G
    <3>1. p[i] = Draw(s[i], D, p[i - 1]) /\ p[i - 1] \in S /\ i \in 1 .. n
      BY <1>2, <1>6, <2>2
    <3> HIDE DEF S
    <3> QED BY <1>1, <3>1
  <2>3. 0 \in Int /\ n \in Int
    BY <1>2
  <2> HIDE DEF G, n
  <2> QED BY <2>1, <2>2, <2>3, IntervalInduction
<1>9. ASSUME NEW i \in 1 .. n, NEW q \in D PROVE p[i][q] = DrawPixel(s[i], q, p[i - 1][q])
  <2>1. i - 1 \in 0 .. n /\ i \in 0 .. n /\ i # 0
    BY <1>2
  <2>2. p[i - 1] \in S
    BY <1>8, <2>1
  <2>3. p[i] = Draw(s[i], D, p[i - 1])
    BY <1>2, <1>6, <2>1
  <2> HIDE DEF S, n
  <2>4. Draw(s[i], D, p[i - 1]) = [r \in D |-> DrawPixel(s[i], r, p[i - 1][r])]
    BY <1>1, <2>2
  <2> QED BY <2>3, <2>4
<1>10. p[0] = pic
  BY <1>2, <1>6
<1> QED BY <1>7, <1>8, <1>9, <1>10 DEF PaintsEachPixel

-----------------------------------------------------------------------------
(* Where what a slot names stands among all that was to be recorded.       *)
ItemsBefore(kind) ==
  CASE kind = "rect" -> 0
    [] kind = "sprite" -> Len(items["rect"])
    [] kind = "text" -> Len(items["rect"]) + Len(items["sprite"])
    [] kind = "client" -> Len(items["rect"]) + Len(items["sprite"]) + Len(items["text"])

Position(id) == ItemsBefore(id[1]) + id[2]

(* r is a, then b.                                                         *)
InARow(r, a, b) == /\ Len(r) = Len(a) + Len(b)
                   /\ \A i \in 1 .. Len(a) : r[i] = a[i]
                   /\ \A i \in 1 .. Len(b) : r[Len(a) + i] = b[i]

(* Appending keeps both sequences, one after the other.                    *)
LEMMA TwoInARow ==
  ASSUME NEW S, NEW a \in Seq(S), NEW b \in Seq(S)
  PROVE  a \o b \in Seq(S) /\ InARow(a \o b, a, b)
BY DEF InARow

(* r is a, b, c and d, one after the other.                                *)
AllInARow(r, a, b, c, d) ==
  /\ Len(r) = Len(a) + Len(b) + Len(c) + Len(d)
  /\ \A i \in 1 .. Len(a) : r[i] = a[i]
  /\ \A i \in 1 .. Len(b) : r[Len(a) + i] = b[i]
  /\ \A i \in 1 .. Len(c) : r[Len(a) + Len(b) + i] = c[i]
  /\ \A i \in 1 .. Len(d) : r[Len(a) + Len(b) + Len(c) + i] = d[i]

(* The same for four sequences, such as the items of the three kinds and   *)
(* the client's commands.                                                  *)
LEMMA FourInARow ==
  ASSUME NEW S, NEW a \in Seq(S), NEW b \in Seq(S), NEW c \in Seq(S), NEW d \in Seq(S)
  PROVE  a \o b \o c \o d \in Seq(S) /\ AllInARow(a \o b \o c \o d, a, b, c, d)
<1> DEFINE u == a \o b
           v == u \o c
           r == v \o d
<1>1. u \in Seq(S) /\ InARow(u, a, b)
  BY TwoInARow
<1> HIDE DEF u
<1>2. v \in Seq(S) /\ InARow(v, u, c)
  BY <1>1, TwoInARow
<1> HIDE DEF v
<1>3. r \in Seq(S) /\ InARow(r, v, d)
  BY <1>2, TwoInARow
<1> HIDE DEF r
<1>4. /\ Len(a) \in Nat /\ Len(b) \in Nat /\ Len(c) \in Nat /\ Len(d) \in Nat
      /\ Len(u) = Len(a) + Len(b) /\ Len(v) = Len(a) + Len(b) + Len(c)
  BY <1>1, <1>2 DEF InARow
<1>5. ASSUME NEW i \in 1 .. Len(a) PROVE r[i] = a[i]
  <2>1. i \in 1 .. Len(u) /\ i \in 1 .. Len(v)
    BY <1>4
  <2> QED BY <1>1, <1>2, <1>3, <2>1 DEF InARow
<1>6. ASSUME NEW i \in 1 .. Len(b) PROVE r[Len(a) + i] = b[i]
  <2>1. Len(a) + i \in 1 .. Len(u) /\ Len(a) + i \in 1 .. Len(v)
    BY <1>4
  <2> QED BY <1>1, <1>2, <1>3, <2>1 DEF InARow
<1>7. ASSUME NEW i \in 1 .. Len(c) PROVE r[Len(a) + Len(b) + i] = c[i]
  <2>1. Len(u) + i \in 1 .. Len(v)
    BY <1>4
  <2> QED BY <1>2, <1>3, <1>4, <2>1 DEF InARow
<1>8. ASSUME NEW i \in 1 .. Len(d) PROVE r[Len(a) + Len(b) + Len(c) + i] = d[i]
  BY <1>3, <1>4 DEF InARow
<1>9. Len(r) = Len(a) + Len(b) + Len(c) + Len(d)
  BY <1>3, <1>4 DEF InARow
<1> QED BY <1>3, <1>5, <1>6, <1>7, <1>8, <1>9 DEF r, v, u, AllInARow

(* What a slot names is recorded at its position, and no two slots name    *)
(* the same.                                                               *)
LEMMA Positions ==
  ASSUME FrameInv
  PROVE  /\ Len(Recorded) = Cardinality(Ids) + Len(items["client"])
         /\ Len(Recorded) \in Nat /\ DOMAIN Recorded = 1 .. Len(Recorded)
         /\ \A id \in AllIds : /\ Position(id) \in 1 .. Len(Recorded)
                               /\ Recorded[Position(id)] = items[id[1]][id[2]]
         /\ \A id, jd \in AllIds : Position(id) = Position(jd) => id = jd
<1> DEFINE S == UNION {Range(items[kind]) : kind \in AllKinds \cup {"client"}}
           a == items["rect"]
           b == items["sprite"]
           c == items["text"]
           d == items["client"]
<1>1. ASSUME NEW kind \in AllKinds \cup {"client"}
      PROVE  /\ items[kind] \in Seq(S) /\ Len(items[kind]) \in Nat
             /\ DOMAIN items[kind] = 1 .. Len(items[kind])
  <2>3. Range(items[kind]) \subseteq S
    OBVIOUS
  <2> HIDE DEF S
  <2>1. CASE kind \in AllKinds
    <3>1. /\ Len(items[kind]) \in Nat /\ DOMAIN items[kind] = 1 .. Len(items[kind])
          /\ items[kind] \in [1 .. Len(items[kind]) -> Range(items[kind])]
      BY <2>1, ItemsOfFrame
    <3>2. items[kind] \in Seq(Range(items[kind]))
      BY <3>1
    <3> QED BY <2>3, <3>1, <3>2
  <2>2. CASE kind = "client"
    <3>1. /\ items[kind] \in Seq(Range(items[kind])) /\ Len(items[kind]) \in Nat
          /\ DOMAIN items[kind] = 1 .. Len(items[kind])
      BY <2>2, ItemsOfFrame
    <3> QED BY <2>3, <3>1
  <2> QED BY <2>1, <2>2
<1>2. /\ a \in Seq(S) /\ b \in Seq(S) /\ c \in Seq(S) /\ d \in Seq(S)
      /\ Len(a) \in Nat /\ Len(b) \in Nat /\ Len(c) \in Nat /\ Len(d) \in Nat
      /\ DOMAIN a = 1 .. Len(a) /\ DOMAIN b = 1 .. Len(b)
      /\ DOMAIN c = 1 .. Len(c) /\ DOMAIN d = 1 .. Len(d)
  BY <1>1 DEF AllKinds
<1> DEFINE r == Recorded
<1>3. r \in Seq(S) /\ AllInARow(r, a, b, c, d)
  <2>1. r = a \o b \o c \o d
    BY DEF Recorded
  <2> HIDE DEF r, a, b, c, d, S
  <2> QED BY <1>2, <2>1, FourInARow
<1>4. Cardinality(Ids) = Len(a) + Len(b) + Len(c)
  BY IdsOfKinds
<1>5. Len(r) \in Nat /\ DOMAIN r = 1 .. Len(r)
  <2> HIDE DEF r, S
  <2> QED BY <1>3
<1> DEFINE la == Len(a)
           lb == Len(b)
           lc == Len(c)
           ld == Len(d)
           lr == Len(r)
<1>10. /\ la \in Nat /\ lb \in Nat /\ lc \in Nat /\ ld \in Nat /\ lr = la + lb + lc + ld
       /\ \A i \in 1 .. la : r[i] = a[i]
       /\ \A i \in 1 .. lb : r[la + i] = b[i]
       /\ \A i \in 1 .. lc : r[la + lb + i] = c[i]
       /\ \A i \in 1 .. ld : r[la + lb + lc + i] = d[i]
  <2> HIDE DEF r, a, b, c, d
  <2> QED BY <1>2, <1>3 DEF AllInARow
<1>6. ASSUME NEW id \in AllIds
      PROVE  \/ id[1] = "rect" /\ id[2] \in 1 .. la
             \/ id[1] = "sprite" /\ id[2] \in 1 .. lb
             \/ id[1] = "text" /\ id[2] \in 1 .. lc
             \/ id[1] = "client" /\ id[2] \in 1 .. ld
  BY <1>2 DEF AllIds, Ids, AllKinds
<1>7. /\ ItemsBefore("rect") = 0 /\ ItemsBefore("sprite") = la
      /\ ItemsBefore("text") = la + lb /\ ItemsBefore("client") = la + lb + lc
  BY DEF ItemsBefore
<1> HIDE DEF la, lb, lc, ld, lr, r
<1>11. ASSUME NEW id \in AllIds
       PROVE  \/ id[1] = "rect" /\ id[2] \in 1 .. la /\ Position(id) = id[2]
              \/ id[1] = "sprite" /\ id[2] \in 1 .. lb /\ Position(id) = la + id[2]
              \/ id[1] = "text" /\ id[2] \in 1 .. lc /\ Position(id) = la + lb + id[2]
              \/ id[1] = "client" /\ id[2] \in 1 .. ld /\ Position(id) = la + lb + lc + id[2]
  <2> DEFINE o == ItemsBefore(id[1])
             i == id[2]
  <2>1. Position(id) = o + i
    BY DEF Position
  <2>2. \/ id[1] = "rect" /\ i \in 1 .. la /\ o = 0
        \/ id[1] = "sprite" /\ i \in 1 .. lb /\ o = la
        \/ id[1] = "text" /\ i \in 1 .. lc /\ o = la + lb
        \/ id[1] = "client" /\ i \in 1 .. ld /\ o = la + lb + lc
    BY <1>6, <1>7
  <2> HIDE DEF o, i
  <2>3. \/ id[1] = "rect" /\ i \in 1 .. la /\ o + i = i
        \/ id[1] = "sprite" /\ i \in 1 .. lb /\ o + i = la + i
        \/ id[1] = "text" /\ i \in 1 .. lc /\ o + i = la + lb + i
        \/ id[1] = "client" /\ i \in 1 .. ld /\ o + i = la + lb + lc + i
    BY <1>10, <2>2
  <2> QED BY <2>1, <2>3 DEF i
<1>8. ASSUME NEW id \in AllIds
      PROVE  /\ Position(id) \in 1 .. lr
             /\ r[Position(id)] = items[id[1]][id[2]]
  <2> DEFINE i == id[2]
             p == Position(id)
  <2>1. \/ id[1] = "rect" /\ i \in 1 .. la /\ p = i
        \/ id[1] = "sprite" /\ i \in 1 .. lb /\ p = la + i
        \/ id[1] = "text" /\ i \in 1 .. lc /\ p = la + lb + i
        \/ id[1] = "client" /\ i \in 1 .. ld /\ p = la + lb + lc + i
    BY <1>11
  <2> HIDE DEF p, i
  <2>2. p \in 1 .. lr
    BY <1>10, <2>1
  <2>3. CASE id[1] = "rect" /\ i \in 1 .. la /\ p = i
    BY <1>10, <2>2, <2>3 DEF i, p
  <2>4. CASE id[1] = "sprite" /\ i \in 1 .. lb /\ p = la + i
    BY <1>10, <2>2, <2>4 DEF i, p
  <2>5. CASE id[1] = "text" /\ i \in 1 .. lc /\ p = la + lb + i
    BY <1>10, <2>2, <2>5 DEF i, p
  <2>6. CASE id[1] = "client" /\ i \in 1 .. ld /\ p = la + lb + lc + i
    BY <1>10, <2>2, <2>6 DEF i, p
  <2> QED BY <2>1, <2>3, <2>4, <2>5, <2>6
<1>9. ASSUME NEW id \in AllIds, NEW jd \in AllIds, Position(id) = Position(jd) PROVE id = jd
  <2>1. id = <<id[1], id[2]>> /\ jd = <<jd[1], jd[2]>>
    BY DEF AllIds, Ids
  <2>2. id[1] = jd[1] /\ id[2] = jd[2]
    <3> DEFINE i == id[2]
               j == jd[2]
               p == Position(id)
    <3>1. \/ id[1] = "rect" /\ i \in 1 .. la /\ p = i
          \/ id[1] = "sprite" /\ i \in 1 .. lb /\ p = la + i
          \/ id[1] = "text" /\ i \in 1 .. lc /\ p = la + lb + i
          \/ id[1] = "client" /\ i \in 1 .. ld /\ p = la + lb + lc + i
      BY <1>11
    <3>2. \/ jd[1] = "rect" /\ j \in 1 .. la /\ p = j
          \/ jd[1] = "sprite" /\ j \in 1 .. lb /\ p = la + j
          \/ jd[1] = "text" /\ j \in 1 .. lc /\ p = la + lb + j
          \/ jd[1] = "client" /\ j \in 1 .. ld /\ p = la + lb + lc + j
      BY <1>9, <1>11
    <3> HIDE DEF i, j, p
    <3>3. id[1] = jd[1] /\ i = j
      BY <1>10, <3>1, <3>2
    <3> QED BY <3>3 DEF i, j
  <2> QED BY <2>1, <2>2
<1> QED
  <2>1. lr = Cardinality(Ids) + ld /\ lr \in Nat
    <3> HIDE DEF a, b, c, d
    <3> QED BY <1>4, <1>10 DEF la, lb, lc, ld
  <2> QED BY <1>5, <1>8, <1>9, <2>1 DEF lr, ld, r

-----------------------------------------------------------------------------
(* The tiles.                                                              *)

(* Different multiples are apart by the number they are multiples of.      *)
LEMMA MultiplesApart ==
  ASSUME NEW i \in Nat, NEW j \in Nat, NEW m \in Nat, i < j
  PROVE  i * m \in Nat /\ j * m \in Nat /\ i * m + m <= j * m
<1> DEFINE d == j - (i + 1)
<1>1. d \in Nat /\ j = d + i + 1
  OBVIOUS
<1> HIDE DEF d
<1>2. j * m = d * m + i * m + m /\ d * m \in Nat /\ i * m \in Nat
  BY <1>1
<1> DEFINE u == i * m
           v == d * m
<1>3. u \in Nat /\ v \in Nat /\ j * m = v + u + m
  BY <1>2
<1> HIDE DEF u, v
<1> QED BY <1>3 DEF u

(* x falls into one of the blocks of m numbers, and into no other.         *)
LEMMA BlockOf ==
  ASSUME NEW x \in Nat, NEW m \in Nat \ {0}
  PROVE  /\ x \div m \in Nat /\ (x \div m) * m \in Nat
         /\ (x \div m) * m <= x /\ x < (x \div m) * m + m
         /\ x % m \in 0 .. m - 1 /\ x = (x \div m) * m + (x % m)
<1> DEFINE d == x \div m
<1>1. d \in Int /\ m * d <= x /\ x < m * d + m /\ x % m \in 0 .. m - 1
  OBVIOUS
<1>2. d >= 0
  OBVIOUS
<1>3. x = m * d + (x % m)
  OBVIOUS
<1> HIDE DEF d
<1>4. d * m = m * d /\ d * m \in Nat
  BY <1>1, <1>2
<1> QED BY <1>1, <1>2, <1>3, <1>4 DEF d

(* The block x falls into is the only one.                                 *)
LEMMA NoOtherBlock ==
  ASSUME NEW x \in Nat, NEW m \in Nat \ {0}, NEW i \in Nat, i * m <= x, x < i * m + m
  PROVE  i = x \div m
<1> DEFINE d == x \div m
           u == d * m
           v == i * m
<1>1. d \in Nat /\ u \in Nat /\ v \in Nat /\ u <= x /\ x < u + m /\ v <= x /\ x < v + m
  <2>1. v \in Nat
    OBVIOUS
  <2> QED BY <2>1, BlockOf
<1>2. ~(d < i)
  <2> SUFFICES ASSUME d < i PROVE FALSE
    OBVIOUS
  <2> HIDE DEF d
  <2>1. u + m <= v
    BY <1>1, MultiplesApart
  <2> HIDE DEF u, v
  <2> QED BY <1>1, <2>1
<1>3. ~(i < d)
  <2> SUFFICES ASSUME i < d PROVE FALSE
    OBVIOUS
  <2> HIDE DEF d
  <2>1. v + m <= u
    BY <1>1, MultiplesApart
  <2> HIDE DEF u, v
  <2> QED BY <1>1, <2>1
<1> QED
  <2> HIDE DEF d
  <2> QED BY <1>1, <1>2, <1>3 DEF d

(* Every point of an axis is in one of the strips the axis is cut into.    *)
LEMMA StripOf ==
  ASSUME NEW n \in Nat, NEW m \in Nat \ {0}
  PROVE  LET strips == (n + m - 1) \div m
         IN  /\ strips \in Nat /\ (n = 0 => strips = 0) /\ (n > 0 => strips > 0)
             /\ \A x \in 0 .. n - 1 : x \div m \in 0 .. strips - 1
<1> DEFINE strips == (n + m - 1) \div m
           p == strips * m
<1>1. n + m - 1 \in Nat
  OBVIOUS
<1>2. strips \in Nat /\ p \in Nat /\ p <= n + m - 1 /\ n + m - 1 < p + m
  BY <1>1, BlockOf
<1>3. n <= p
  <2> HIDE DEF strips, p
  <2> QED BY <1>2
<1>4. ASSUME NEW x \in 0 .. n - 1 PROVE x \div m \in 0 .. strips - 1
  <2> DEFINE d == x \div m
             u == d * m
  <2>1. d \in Nat /\ u \in Nat /\ u <= x /\ x \in Nat
    BY BlockOf
  <2>2. ~(strips < d)
    <3> SUFFICES ASSUME strips < d PROVE FALSE
      OBVIOUS
    <3> HIDE DEF strips, d
    <3>1. p + m <= u
      BY <1>2, <2>1, MultiplesApart
    <3> HIDE DEF p, u
    <3> QED BY <1>2, <1>3, <2>1, <3>1
  <2>3. strips # d
    <3> SUFFICES ASSUME strips = d PROVE FALSE
      OBVIOUS
    <3> HIDE DEF strips, d
    <3>1. p = u
      OBVIOUS
    <3> HIDE DEF p, u
    <3> QED BY <1>2, <1>3, <2>1, <3>1
  <2> HIDE DEF d, strips
  <2>4. d \in 0 .. strips - 1
    BY <1>2, <2>1, <2>2, <2>3
  <2> QED BY <2>4 DEF d
<1>5. n = 0 => strips = 0
  <2> SUFFICES ASSUME n = 0, strips # 0 PROVE FALSE
    OBVIOUS
  <2>1. 0 < strips /\ 0 \in Nat
    BY <1>2
  <2> HIDE DEF strips
  <2>2. 0 * m + m <= p
    BY <1>2, <2>1, MultiplesApart
  <2>3. 0 * m = 0
    OBVIOUS
  <2> HIDE DEF p
  <2> QED BY <1>2, <2>2, <2>3
<1>6. n > 0 => strips > 0
  <2> SUFFICES ASSUME n > 0 PROVE strips > 0
    OBVIOUS
  <2>1. 0 \div m \in 0 .. strips - 1
    BY <1>4
  <2> HIDE DEF strips
  <2> QED BY <1>2, <2>1
<1> QED BY <1>2, <1>4, <1>5, <1>6

(* Cells that are numbered row by row.                                     *)
LEMMA CellOf ==
  ASSUME NEW w \in Nat \ {0}, NEW h \in Nat
  PROVE  /\ w * h \in Nat
         /\ \A k \in 1 .. w * h : /\ (k - 1) % w \in 0 .. w - 1 /\ (k - 1) \div w \in 0 .. h - 1
                                  /\ k = ((k - 1) \div w) * w + ((k - 1) % w) + 1
         /\ \A i \in 0 .. w - 1, j \in 0 .. h - 1 :
              \E k \in 1 .. w * h : (k - 1) % w = i /\ (k - 1) \div w = j
<1> DEFINE a == w * h
<1>1. a \in Nat /\ a = h * w
  OBVIOUS
<1>2. ASSUME NEW k \in 1 .. a
      PROVE  /\ (k - 1) % w \in 0 .. w - 1 /\ (k - 1) \div w \in 0 .. h - 1
             /\ k = ((k - 1) \div w) * w + ((k - 1) % w) + 1
  <2> DEFINE x == k - 1
             d == x \div w
             u == d * w
             r == x % w
  <2>1. x \in Nat
    BY <1>1
  <2> HIDE DEF x
  <2>2. d \in Nat /\ u \in Nat /\ u <= x /\ r \in 0 .. w - 1 /\ x = u + r
    BY <2>1, BlockOf
  <2>3. ~(h < d)
    <3> SUFFICES ASSUME h < d PROVE FALSE
      OBVIOUS
    <3> HIDE DEF d
    <3>1. h * w + w <= u
      BY <2>2, MultiplesApart
    <3> HIDE DEF u, a
    <3> QED BY <1>1, <2>1, <2>2, <3>1 DEF x
  <2>4. h # d
    <3> SUFFICES ASSUME h = d PROVE FALSE
      OBVIOUS
    <3> HIDE DEF d
    <3>1. u = a
      BY <1>1
    <3> HIDE DEF u, a
    <3> QED BY <1>1, <2>1, <2>2, <3>1 DEF x
  <2>5. d \in 0 .. h - 1
    <3> HIDE DEF d
    <3> QED BY <2>2, <2>3, <2>4
  <2>6. k = u + r + 1
    <3> HIDE DEF u, r, a
    <3> QED BY <1>1, <2>2 DEF x
  <2> QED BY <2>2, <2>5, <2>6 DEF x
<1>3. ASSUME NEW i \in 0 .. w - 1, NEW j \in 0 .. h - 1
      PROVE  \E k \in 1 .. a : (k - 1) % w = i /\ (k - 1) \div w = j
  <2> DEFINE u == j * w
             x == u + i
  <2>1. u \in Nat /\ i \in Nat /\ j \in Nat
    BY <1>1
  <2>2. u + w <= a
    BY <1>1, <2>1, MultiplesApart
  <2>3. x \in Nat /\ u <= x /\ x < u + w /\ x + 1 \in 1 .. a /\ x + 1 - 1 = x
    <3> HIDE DEF u, a
    <3> QED BY <1>1, <2>1, <2>2
  <2>4. j = x \div w
    <3> HIDE DEF x
    <3> QED BY <2>1, <2>3, NoOtherBlock
  <2>5. x = (x \div w) * w + (x % w) /\ x % w \in 0 .. w - 1
    <3> HIDE DEF x
    <3> QED BY <2>3, BlockOf
  <2>6. x % w = i
    <3> DEFINE r == x % w
    <3>1. u + i = u + r /\ r \in Int
      BY <2>4, <2>5
    <3> HIDE DEF u, r
    <3> QED BY <2>1, <3>1 DEF r
  <2> HIDE DEF x, a
  <2> QED BY <2>3, <2>4, <2>6
<1> QED BY <1>1, <1>2, <1>3

(* Width and height of a canvas that has pixels; of one that has none, 0.  *)
LEMMA CanvasAxes ==
  ASSUME NEW size \in Nat \X Nat, DOMAIN canvas = Pixels(size)
  PROVE  IF size[1] > 0 /\ size[2] > 0 THEN Width = size[1] /\ Height = size[2]
         ELSE DOMAIN canvas = {} /\ Width = 0 /\ Height = 0
<1> DEFINE w == size[1]
           h == size[2]
           X == {q[1] : q \in DOMAIN canvas}
           Y == {q[2] : q \in DOMAIN canvas}
<1>1. w \in Nat /\ h \in Nat /\ DOMAIN canvas = (0 .. w - 1) \X (0 .. h - 1)
  BY DEF Pixels
<1>2. CASE w > 0 /\ h > 0
  <2>1. X = 0 .. w - 1
    <3>1. ASSUME NEW x \in 0 .. w - 1 PROVE x \in X
      <4>1. <<x, 0>> \in DOMAIN canvas /\ <<x, 0>>[1] = x
        BY <1>1, <1>2
      <4> QED BY <4>1
    <3>2. \A x \in X : x \in 0 .. w - 1
      BY <1>1
    <3> QED BY <3>1, <3>2
  <2>2. Y = 0 .. h - 1
    <3>1. ASSUME NEW y \in 0 .. h - 1 PROVE y \in Y
      <4>1. <<0, y>> \in DOMAIN canvas /\ <<0, y>>[2] = y
        BY <1>1, <1>2
      <4> QED BY <4>1
    <3>2. \A y \in Y : y \in 0 .. h - 1
      BY <1>1
    <3> QED BY <3>1, <3>2
  <2>3. 0 \in Int /\ w - 1 \in Int /\ h - 1 \in Int
    BY <1>1
  <2> HIDE DEF w, h
  <2>4. Cardinality(0 .. w - 1) = w /\ Cardinality(0 .. h - 1) = h
    <3>1. /\ Cardinality(0 .. w - 1) = IF 0 > w - 1 THEN 0 ELSE (w - 1) - 0 + 1
          /\ Cardinality(0 .. h - 1) = IF 0 > h - 1 THEN 0 ELSE (h - 1) - 0 + 1
      BY <2>3, FS_Interval
    <3> QED BY <1>1, <1>2, <3>1
  <2> QED BY <1>2, <2>1, <2>2, <2>4 DEF Width, Height, w, h
<1>3. CASE ~(w > 0 /\ h > 0)
  <2>1. 0 .. w - 1 = {} \/ 0 .. h - 1 = {}
    BY <1>1, <1>3
  <2>2. DOMAIN canvas = {}
    BY <1>1, <2>1
  <2>3. X = {} /\ Y = {}
    BY <2>2
  <2> QED BY <1>3, <2>2, <2>3, FS_EmptySet DEF Width, Height
<1> QED BY <1>2, <1>3

(* The tiles lie on the canvas, share no pixel, and leave none out.        *)
TilesDivide ==
  /\ \A k \in DOMAIN Tiles : Tiles[k] \subseteq DOMAIN canvas
  /\ \A k, j \in DOMAIN Tiles : \A q \in Tiles[k] : q \in Tiles[j] => k = j
  /\ \A q \in DOMAIN canvas : \E k \in DOMAIN Tiles : q \in Tiles[k]

(* However its sides divide by the side of a tile, the tiles of a canvas   *)
(* cover it and share no pixel: none is drawn twice, and none is missed.   *)
THEOREM TilesDivideCanvas ==
  ASSUME NEW size \in Sizes, DOMAIN canvas = Pixels(size)
  PROVE  TilesDivide
<1> DEFINE w == size[1]
           h == size[2]
           tx == (Width + KTile - 1) \div KTile
           ty == (Height + KTile - 1) \div KTile
<1>1. size \in Nat \X Nat /\ w \in Nat /\ h \in Nat /\ KTile \in Nat \ {0}
  BY SceneAssumption
<1>2. CASE ~(drawers > 0 /\ tx * ty >= 2)
  <2>1. Tiles = <<DOMAIN canvas>>
    BY <1>2 DEF Tiles
  <2>2. DOMAIN Tiles = {1} /\ Tiles[1] = DOMAIN canvas
    BY <2>1
  <2> QED BY <2>2 DEF TilesDivide
<1>3. CASE drawers > 0 /\ tx * ty >= 2
  <2>1. w > 0 /\ h > 0 /\ Width = w /\ Height = h
    <3> SUFFICES ASSUME ~(w > 0 /\ h > 0) PROVE FALSE
      BY <1>1, CanvasAxes
    <3>1. Width = 0 /\ Height = 0
      BY <1>1, CanvasAxes
    <3>2. 0 \in Nat /\ (0 + KTile - 1) \div KTile = 0
      <4>1. 0 \in Nat
        OBVIOUS
      <4> QED BY <1>1, <4>1, StripOf
    <3>3. tx = 0 /\ ty = 0
      BY <3>1, <3>2
    <3> HIDE DEF tx, ty
    <3> QED BY <1>3, <3>3
  <2>2. /\ tx \in Nat \ {0} /\ ty \in Nat \ {0}
        /\ \A x \in 0 .. w - 1 : x \div KTile \in 0 .. tx - 1
        /\ \A y \in 0 .. h - 1 : y \div KTile \in 0 .. ty - 1
    <3> DEFINE sx == (w + KTile - 1) \div KTile
               sy == (h + KTile - 1) \div KTile
    <3>1. /\ sx \in Nat /\ sx > 0 /\ sy \in Nat /\ sy > 0
          /\ \A x \in 0 .. w - 1 : x \div KTile \in 0 .. sx - 1
          /\ \A y \in 0 .. h - 1 : y \div KTile \in 0 .. sy - 1
      <4> HIDE DEF w, h
      <4> QED BY <1>1, <2>1, StripOf
    <3>2. tx = sx /\ ty = sy
      BY <2>1
    <3> HIDE DEF sx, sy, tx, ty
    <3> QED BY <3>1, <3>2
  <2> DEFINE n == tx * ty
             i(k) == (k - 1) % tx
             j(k) == (k - 1) \div tx
  <2>3. /\ n \in Nat
        /\ \A k \in 1 .. n : i(k) \in 0 .. tx - 1 /\ j(k) \in 0 .. ty - 1 /\ k = j(k) * tx + i(k) + 1
        /\ \A a \in 0 .. tx - 1, b \in 0 .. ty - 1 : \E k \in 1 .. n : i(k) = a /\ j(k) = b
    <3> HIDE DEF tx, ty
    <3> QED BY <2>2, CellOf
  <2>4. Tiles = [k \in 1 .. n |-> TileAt(i(k) * KTile, j(k) * KTile)]
    BY <1>3 DEF Tiles
  <2> HIDE DEF tx, ty, n, i, j, w, h
  <2>5. DOMAIN Tiles = 1 .. n /\ \A k \in 1 .. n : Tiles[k] = TileAt(i(k) * KTile, j(k) * KTile)
    BY <2>4
  <2>6. DOMAIN canvas = (0 .. w - 1) \X (0 .. h - 1)
    BY DEF Pixels, w, h
  <2>7. ASSUME NEW n0 \in Nat, NEW a \in Nat, NEW x \in Int
        PROVE  x \in a * KTile .. Min({a * KTile + KTile, n0}) - 1
                 <=> x \in 0 .. n0 - 1 /\ a = x \div KTile
    <3> DEFINE u == a * KTile
    <3>1. u \in Nat /\ Min({u + KTile, n0}) = IF u + KTile <= n0 THEN u + KTile ELSE n0
      <4>1. u \in Nat /\ u + KTile \in Int /\ n0 \in Int
        BY <1>1
      <4> HIDE DEF u
      <4> QED BY <4>1, MinOfTwo
    <3>2. ASSUME x \in u .. Min({u + KTile, n0}) - 1
          PROVE  x \in 0 .. n0 - 1 /\ a = x \div KTile
      <4>1. x \in Nat /\ u <= x /\ x < u + KTile /\ x \in 0 .. n0 - 1
        <5> HIDE DEF u
        <5> QED BY <1>1, <3>1, <3>2
      <4> QED BY <1>1, <4>1, NoOtherBlock
    <3>3. ASSUME x \in 0 .. n0 - 1, a = x \div KTile
          PROVE  x \in u .. Min({u + KTile, n0}) - 1
      <4>1. x \in Nat
        BY <3>3
      <4>2. u <= x /\ x < u + KTile
        BY <1>1, <3>3, <4>1, BlockOf
      <4> HIDE DEF u
      <4> QED BY <1>1, <3>1, <3>3, <4>2
    <3> QED BY <3>2, <3>3
  <2>8. ASSUME NEW k \in 1 .. n, NEW q
        PROVE  q \in Tiles[k] <=> /\ q \in DOMAIN canvas
                                  /\ i(k) = q[1] \div KTile /\ j(k) = q[2] \div KTile
    <3> DEFINE S == i(k) * KTile .. Min({i(k) * KTile + KTile, w}) - 1
               T == j(k) * KTile .. Min({j(k) * KTile + KTile, h}) - 1
    <3>1. Tiles[k] = S \X T
      BY <2>1, <2>5 DEF TileAt
    <3>2. i(k) \in Nat /\ j(k) \in Nat /\ w \in Nat /\ h \in Nat
      <4>1. i(k) \in 0 .. tx - 1 /\ j(k) \in 0 .. ty - 1
        BY <2>3
      <4>2. i(k) \in Nat /\ j(k) \in Nat
        BY <2>2, <4>1
      <4> QED BY <1>1, <4>2 DEF w, h
    <3>3. \A x \in Int : x \in S <=> x \in 0 .. w - 1 /\ i(k) = x \div KTile
      BY <2>7, <3>2
    <3>4. \A y \in Int : y \in T <=> y \in 0 .. h - 1 /\ j(k) = y \div KTile
      BY <2>7, <3>2
    <3>5. S \subseteq Int /\ T \subseteq Int /\ 0 .. w - 1 \subseteq Int /\ 0 .. h - 1 \subseteq Int
      OBVIOUS
    <3> HIDE DEF S, T
    <3>6. ASSUME q \in Tiles[k]
          PROVE  q \in DOMAIN canvas /\ i(k) = q[1] \div KTile /\ j(k) = q[2] \div KTile
      <4>1. q[1] \in S /\ q[2] \in T /\ q = <<q[1], q[2]>>
        BY <3>1, <3>6
      <4>2. /\ q[1] \in 0 .. w - 1 /\ i(k) = q[1] \div KTile
            /\ q[2] \in 0 .. h - 1 /\ j(k) = q[2] \div KTile
        BY <3>3, <3>4, <3>5, <4>1
      <4> QED BY <2>6, <4>1, <4>2
    <3>7. ASSUME q \in DOMAIN canvas, i(k) = q[1] \div KTile, j(k) = q[2] \div KTile
          PROVE  q \in Tiles[k]
      <4>1. q[1] \in 0 .. w - 1 /\ q[2] \in 0 .. h - 1 /\ q = <<q[1], q[2]>>
        BY <2>6, <3>7
      <4>2. q[1] \in S /\ q[2] \in T
        BY <3>3, <3>4, <3>5, <3>7, <4>1
      <4> QED BY <3>1, <4>1, <4>2
    <3> QED BY <3>6, <3>7
  <2>9. ASSUME NEW k \in 1 .. n, NEW m \in 1 .. n, NEW q \in Tiles[k], q \in Tiles[m] PROVE k = m
    <3>1. i(k) = i(m) /\ j(k) = j(m)
      BY <2>8, <2>9
    <3> QED BY <2>3, <3>1
  <2>10. ASSUME NEW q \in DOMAIN canvas PROVE \E k \in 1 .. n : q \in Tiles[k]
    <3>1. q[1] \in 0 .. w - 1 /\ q[2] \in 0 .. h - 1
      BY <2>6
    <3>2. q[1] \div KTile \in 0 .. tx - 1 /\ q[2] \div KTile \in 0 .. ty - 1
      BY <2>2, <3>1
    <3>3. PICK k \in 1 .. n : i(k) = q[1] \div KTile /\ j(k) = q[2] \div KTile
      BY <2>3, <3>2
    <3> QED BY <2>8, <3>3
  <2> QED BY <2>5, <2>8, <2>9, <2>10 DEF TilesDivide
<1> QED BY <1>2, <1>3

-----------------------------------------------------------------------------
(* What is certainly published.                                            *)

(* When another chunk has begun, something has been emitted, and queued.   *)
LEMMA OthersHaveEmitted ==
  ASSUME FrameInv, ChunkInv, QueueInv, stage \in AllKinds,
         NEW cj \in DOMAIN next, next[cj] # 0
  PROVE  Len(queue) > 0
<1> DEFINE b == Chunk(cj).b
           n == Len(items[stage])
           x == <<stage, b + 1>>
<1>1. next[cj] \in Nat /\ next[cj] # 0
  BY NextIsNat
<1>2. b \in Nat /\ Chunk(cj).e \in Nat /\ Chunk(cj).e <= n
  BY Chunks DEF ChunkInv
<1>3. b + next[cj] <= Chunk(cj).e
  BY <1>1 DEF ChunkInv
<1>4. n \in Nat /\ DOMAIN items[stage] = 1 .. n
  BY ItemsOfFrame
<1>5. b + 1 \in 1 .. n /\ b < b + 1 /\ b + 1 <= b + next[cj]
  <2> DEFINE e == Chunk(cj).e
             m == next[cj]
  <2>1. m \in Nat /\ m # 0 /\ b \in Nat /\ e \in Nat /\ e <= n /\ b + m <= e /\ n \in Nat
    BY <1>1, <1>2, <1>3, <1>4
  <2> HIDE DEF e, m, b, n
  <2>2. b + 1 \in 1 .. n /\ b < b + 1 /\ b + 1 <= b + m
    BY <2>1
  <2> QED BY <2>2 DEF m
<1>6. x \in Ids
  <2> HIDE DEF b, n
  <2> QED BY <1>4, <1>5 DEF Ids
<1>7. x[1] = stage /\ x[2] = b + 1
  OBVIOUS
<1>8. x \in Emitted
  <2> HIDE DEF x, n
  <2> QED BY <1>5, <1>6, <1>7 DEF Emitted
<1>9. Cardinality(Emitted) # 0 /\ Cardinality(Emitted) \in Nat
  <2>1. IsFiniteSet(Emitted) /\ Cardinality(Emitted) \in Nat
    BY EmittedIsFinite
  <2> DEFINE E == Emitted
  <2>2. IsFiniteSet(E) /\ E # {}
    BY <1>8, <2>1
  <2> HIDE DEF E
  <2>3. Cardinality(E) # 0
    BY <2>2, FS_EmptySet
  <2> QED BY <2>1, <2>3 DEF E
<1>10. Len(queue) = Fill(Cardinality(Emitted))
  BY QueueShape DEF QueueInv
<1>11. KMax \in Nat \ {0}
  BY SceneAssumption
<1> DEFINE k == Cardinality(Emitted)
<1>12. k \in Nat /\ k # 0 /\ Len(queue) = Fill(k)
  BY <1>9, <1>10
<1> HIDE DEF k
<1> QED BY <1>11, <1>12 DEF Fill

(* In an empty queue nothing is published.                                 *)
LEMMA SureBegins == Init => SureInv
<1> SUFFICES ASSUME Init PROVE SureInv
  OBVIOUS
<1>1. Len(queue) = 0 /\ sure = 0 /\ stage = "rect"
  BY DEF Init
<1> QED BY <1>1 DEF SureInv

(* Every step keeps what is known of the published commands: the first     *)
(* push after a join publishes everything before it, and with one worker   *)
(* at most every push does.                                                *)
LEMMA SureStep ==
  FrameInv /\ ChunkInv /\ QueueInv /\ SureInv /\ [Next]_vars => SureInv'
<1> SUFFICES ASSUME FrameInv, ChunkInv, QueueInv, SureInv, [Next]_vars PROVE SureInv'
  OBVIOUS
<1>1. items' = items /\ workers' = workers /\ FrameInv' /\ ChunkInv' /\ QueueInv'
  BY FrameStays, ChunkStep, QueueStep
<1>2. Recorded' = Recorded
  BY <1>1 DEF Recorded
<1> DEFINE Ended(s) == s \in {"sort", "tiles", "done"}
<1>3. /\ Len(queue) > 0 => sure > 0
      /\ workers <= 1 => sure = Len(queue)
      /\ Ended(stage) /\ items["client"] # << >> /\ Len(Recorded) <= KMax => sure = Len(queue)
  BY DEF SureInv
<1>4. /\ sure \in 0 .. Len(queue) /\ Len(queue) \in Nat /\ queue \in Seq(AllIds)
      /\ sure' \in 0 .. Len(queue') /\ Len(queue') \in Nat
  BY <1>1 DEF QueueInv
<1>5. KMax \in Nat \ {0}
  BY SceneAssumption
<1> DEFINE Goal == /\ Len(queue') > 0 => sure' > 0
                   /\ workers <= 1 => sure' = Len(queue')
                   /\ Ended(stage') /\ items["client"] # << >> /\ Len(Recorded) <= KMax
                        => sure' = Len(queue')
<1>6. Goal => SureInv'
  BY <1>1, <1>2 DEF SureInv
<1>7. ASSUME queue' = queue, sure' = sure, Ended(stage') => Ended(stage) PROVE Goal
  BY <1>3, <1>7
<1>8. ASSUME NEW ci \in DOMAIN next, EmitOne(ci) PROVE Goal
  <2>1. stage \in AllKinds /\ stage' = stage /\ ~Ended(stage)
    BY <1>8 DEF EmitOne, Range, Kinds, AllKinds
  <2>2. CASE Len(queue) >= KMax
    <3>1. queue' = queue /\ sure' = sure
      BY <1>8, <2>2 DEF EmitOne
    <3> QED BY <1>7, <2>1, <3>1
  <2>3. CASE ~(Len(queue) >= KMax)
    <3>1. /\ queue' = Append(queue, <<stage, Chunk(ci).b + next[ci] + 1>>)
          /\ sure' = IF \A cj \in DOMAIN next \ {ci} : next[cj] = 0 THEN Len(queue') ELSE sure
      BY <1>8, <2>3 DEF EmitOne
    <3>2. CASE \A cj \in DOMAIN next \ {ci} : next[cj] = 0
      <4>1. sure' = Len(queue')
        BY <3>1, <3>2
      <4> QED BY <4>1
    <3>3. CASE ~ \A cj \in DOMAIN next \ {ci} : next[cj] = 0
      <4>1. PICK cj \in DOMAIN next : cj # ci /\ next[cj] # 0
        BY <3>3
      <4>2. Len(queue) > 0 /\ sure' = sure
        BY <2>1, <3>1, <3>3, <4>1, OthersHaveEmitted
      <4>3. ~(workers <= 1)
        <5> SUFFICES ASSUME workers <= 1 PROVE FALSE
          OBVIOUS
        <5>1. workers \in Nat /\ DOMAIN next = 0 .. Max({workers, 1}) - 1
          BY DEF FrameInv, ChunkInv
        <5>2. Max({workers, 1}) = 1
          <6>1. workers \in Int /\ 1 \in Int
            BY <5>1
          <6> QED BY <5>1, <6>1, MaxOfTwo
        <5>3. DOMAIN next = 0 .. 0
          BY <5>1, <5>2
        <5> QED BY <4>1, <5>3
      <4> QED BY <1>3, <2>1, <4>2, <4>3
    <3> QED BY <3>2, <3>3
  <2> QED BY <2>2, <2>3
<1>9. ASSUME JoinChunks PROVE Goal
  <2>1. stage' \in AllKinds \cup {"client"} /\ queue' = queue /\ sure' = sure
    BY <1>1, <1>9, JoinsAll DEF JoinChunks
  <2>2. ~Ended(stage')
    BY <2>1 DEF AllKinds
  <2> QED BY <1>7, <2>1, <2>2
<1>10. ASSUME ClientRecords PROVE Goal
  <2>1. /\ stage = "client" /\ stage' = "sort"
        /\ sure' = IF queue' = queue THEN sure ELSE Len(queue')
    BY <1>10 DEF ClientRecords
  <2> DEFINE i == Cardinality(Ids)
             d == Len(items["client"])
             l == Len(queue)
             m == Len(queue')
             r == Len(Recorded)
  <2>2. l = Fill(i)
    BY <2>1, EmittedIsFinite, QueueShape DEF QueueInv
  <2>3. m = Fill(i + d)
    <3>1. stage' \notin AllKinds \cup {"client"}
      BY <2>1 DEF AllKinds
    <3>2. Ids' = Ids
      BY <1>1, IdsStay
    <3> QED BY <1>1, <3>1, <3>2, QueueShape DEF QueueInv
  <2>4. i \in Nat /\ d \in Nat /\ r = i + d
    <3>1. i \in Nat
      BY IdsOfKinds, FS_CardinalityType
    <3>2. d \in Nat
      BY ItemsOfFrame
    <3> QED BY <3>1, <3>2, Positions
  <2>5. items["client"] # << >> => d # 0
    BY ItemsOfFrame, EmptySeq
  <2>6. CASE queue' # queue
    BY <2>1, <2>6
  <2>7. CASE queue' = queue
    <3>1. m = l /\ sure' = sure
      BY <2>1, <2>7
    <3>2. ~(items["client"] # << >> /\ r <= KMax)
      <4> SUFFICES ASSUME d # 0, r <= KMax PROVE FALSE
        BY <2>5
      <4> HIDE DEF i, d, l, m, r
      <4> QED BY <1>5, <2>2, <2>3, <2>4, <3>1 DEF Fill
    <3> QED BY <1>3, <2>7, <3>1, <3>2
  <2> QED BY <2>6, <2>7
<1>11. ASSUME Sort PROVE Goal
  <2>1. Ended(stage) /\ queue' = queue /\ sure' = sure
    BY <1>11 DEF Sort
  <2> QED BY <1>7, <2>1
<1>12. ASSUME NEW k \in DOMAIN painted, DrawNext(k) PROVE Goal
  BY <1>7, <1>12 DEF DrawNext
<1>13. ASSUME JoinTiles PROVE Goal
  <2>1. Ended(stage) /\ queue' = queue /\ sure' = sure
    BY <1>13 DEF JoinTiles
  <2> QED BY <1>7, <2>1
<1>14. ASSUME UNCHANGED vars PROVE Goal
  BY <1>7, <1>14 DEF vars
<1>15. Goal
  <2> HIDE DEF Goal
  <2> QED BY <1>8, <1>9, <1>10, <1>11, <1>12, <1>13, <1>14, StepCases DEF StepOf
<1> QED BY <1>6, <1>15

-----------------------------------------------------------------------------
(* What the tiles show.                                                    *)

(* The commands in the order they are drawn, and what painting them in     *)
(* this order makes of the canvas.                                         *)
InOrderPaints ==
  /\ Len(order) \in Nat /\ Len(InOrder) = Len(order) /\ DOMAIN InOrder = 1 .. Len(order)
  /\ \A i \in 1 .. Len(order) : order[i] \in 1 .. Len(queue) /\ InOrder[i] = Queued(order[i])
  /\ PaintsEachPixel(P!Paintings(InOrder, before), InOrder, before, DOMAIN before)

(* The commands in the order they are sorted into are commands the painter *)
(* can paint.                                                              *)
LEMMA InOrderRuns == FrameInv /\ QueueInv /\ OrderInv => InOrderPaints
<1> SUFFICES ASSUME FrameInv, QueueInv, OrderInv PROVE InOrderPaints
  OBVIOUS
<1> DEFINE n == Len(order)
           s == InOrder
<1>1. n \in Nat /\ \A i \in 1 .. n : order[i] \in 1 .. Len(queue)
  <2>1. order \in Seq(1 .. Len(queue))
    BY DEF OrderInv
  <2> QED BY <2>1, ElementOfSeq
<1>2. s = [i \in 1 .. n |-> Queued(order[i])]
  BY DEF InOrder
<1> HIDE DEF n, s
<1>3. Len(s) = n /\ DOMAIN s = 1 .. n /\ \A i \in 1 .. n : s[i] = Queued(order[i])
  BY <1>1, <1>2
<1>4. \A i \in 1 .. n : IsCmd(s[i])
  BY <1>1, <1>3, QueuedIsCmd
<1>5. before \in [DOMAIN before -> Colors] /\ DOMAIN before \in SUBSET (Int \X Int)
  BY DEF FrameInv
<1>6. PaintsEachPixel(P!Paintings(s, before), s, before, DOMAIN before)
  BY <1>1, <1>3, <1>4, <1>5, PaintingsRun
<1> QED BY <1>1, <1>3, <1>6 DEF n, s, InOrderPaints

(* The same after a step.                                                  *)
LEMMA InOrderRunsNext == (FrameInv /\ QueueInv /\ OrderInv => InOrderPaints)'
BY InOrderRuns, PTL

(* Before the tiles are drawn, the canvas is what it was.                  *)
LEMMA DrawnBegins == Init => SizeInv /\ DrawnInv
<1> SUFFICES ASSUME Init PROVE SizeInv /\ DrawnInv
  OBVIOUS
<1>1. PICK size \in Sizes, paper \in Papers : canvas = [q \in Pixels(size) |-> paper]
  BY DEF Init
<1>2. before = canvas /\ stage = "rect"
  BY DEF Init
<1>3. DOMAIN before = Pixels(size)
  BY <1>1, <1>2
<1> QED BY <1>2, <1>3 DEF SizeInv, DrawnInv

(* The canvas keeps its size through the frame.                            *)
LEMMA SizeStep == FrameInv /\ SizeInv /\ [Next]_vars => SizeInv'
BY FrameStays DEF SizeInv, Pixels

(* The tiles of a frame are those of its canvas, whatever is drawn.        *)
LEMMA TilesStay ==
  ASSUME DOMAIN canvas' = DOMAIN canvas, drawers' = drawers
  PROVE  Tiles' = Tiles
BY DEF Tiles, TileAt, Width, Height

(* Every step keeps the tiles at what the painter has after as many        *)
(* commands: a tile's command changes its own pixels, and no other tile    *)
(* has one of these.                                                       *)
LEMMA DrawnStep ==
  FrameInv /\ QueueInv /\ OrderInv /\ CanvasInv /\ SizeInv /\ DrawnInv
    /\ FrameInv' /\ QueueInv' /\ OrderInv' /\ CanvasInv' /\ [Next]_vars => DrawnInv'
<1> SUFFICES ASSUME FrameInv, QueueInv, OrderInv, CanvasInv, SizeInv, DrawnInv,
                    FrameInv', QueueInv', OrderInv', CanvasInv', [Next]_vars
             PROVE  DrawnInv'
  OBVIOUS
<1>1. items' = items /\ before' = before
  BY FrameStays
<1>2. DOMAIN canvas = DOMAIN before /\ DOMAIN canvas' = DOMAIN before
  BY <1>1 DEF CanvasInv
<1>3. TilesDivide
  <2>1. PICK size \in Sizes : DOMAIN canvas = Pixels(size)
    BY <1>2 DEF SizeInv
  <2> QED BY <2>1, TilesDivideCanvas
<1>4. ASSUME stage \notin {"tiles", "done"}, stage' \notin {"tiles", "done"}, canvas' = canvas
      PROVE  DrawnInv'
  BY <1>1, <1>4 DEF DrawnInv
<1>5. ASSUME NEW ci \in DOMAIN next, EmitOne(ci) PROVE DrawnInv'
  <2>1. stage \notin {"tiles", "done"}
    BY <1>5 DEF EmitOne, Range, Kinds
  <2> QED BY <1>4, <1>5, <2>1 DEF EmitOne
<1>6. ASSUME JoinChunks PROVE DrawnInv'
  <2>1. stage \notin {"tiles", "done"} /\ stage' \notin {"tiles", "done"}
    BY <1>6 DEF JoinChunks, Range, Kinds
  <2> QED BY <1>4, <1>6, <2>1 DEF JoinChunks
<1>7. ASSUME ClientRecords PROVE DrawnInv'
  BY <1>4, <1>7 DEF ClientRecords
<1>8. ASSUME Sort PROVE DrawnInv'
  <2>1. /\ stage = "sort" /\ queue' = queue /\ sure' = sure /\ canvas' = canvas
        /\ drawers' = drawers
    BY <1>8 DEF Sort
  <2>2. canvas = before
    BY <2>1 DEF DrawnInv
  <2>3. PICK n \in sure .. Len(queue) :
          IF n = 0 THEN stage' = "done"
          ELSE /\ order' \in SetToSeqs(1 .. n)
               /\ painted' = [k \in DOMAIN Tiles |-> 0]
               /\ stage' = "tiles"
    BY <1>8 DEF Sort
  <2>4. CASE n = 0
    <3>1. stage' = "done"
      BY <2>3, <2>4
    <3> QED BY <3>1 DEF DrawnInv
  <2>5. CASE n # 0
    <3>1. /\ order' \in SetToSeqs(1 .. n) /\ stage' = "tiles"
          /\ painted' = [k \in DOMAIN Tiles |-> 0]
      BY <2>3, <2>5
    <3>2. n \in Nat /\ n <= Len(queue) /\ sure <= n /\ n > 0
      BY <2>3, <2>5 DEF QueueInv
    <3>3. Cardinality(1 .. n) = n
      <4>1. 1 \in Int /\ n \in Int
        BY <3>2
      <4>2. Cardinality(1 .. n) = IF 1 > n THEN 0 ELSE n - 1 + 1
        BY <4>1, FS_Interval
      <4> QED BY <3>2, <4>2
    <3>4. /\ order' \in [1 .. n -> 1 .. n]
          /\ \A i, j \in 1 .. n : i # j => order'[i] # order'[j]
      BY <3>1, <3>3 DEF SetToSeqs
    <3>5. Len(order') = n /\ DOMAIN order' = 1 .. n
      BY <3>2, <3>4
    <3>6. IsInjective(order)'
      BY <3>4, <3>5 DEF IsInjective
    <3>7. Tiles' = Tiles
      BY <1>2, <2>1, TilesStay
    <3>8. DOMAIN painted' = DOMAIN Tiles /\ \A k \in DOMAIN Tiles : painted'[k] = 0
      BY <3>1
    <3>9. P!Paintings(InOrder', before')[0] = before'
      BY InOrderRunsNext DEF InOrderPaints, PaintsEachPixel
    <3>10. \A k \in DOMAIN Tiles : \A q \in Tiles[k] :
             canvas'[q] = P!Paintings(InOrder', before')[painted'[k]][q]
      BY <1>1, <2>1, <2>2, <3>8, <3>9
    <3>11. Len(order') \in sure' .. Len(queue') /\ Len(order') > 0
      BY <2>1, <2>3, <3>2, <3>5
    <3> QED BY <3>1, <3>6, <3>7, <3>8, <3>10, <3>11 DEF DrawnInv
  <2> QED BY <2>4, <2>5
<1>9. ASSUME NEW k \in DOMAIN painted, DrawNext(k) PROVE DrawnInv'
  <2> DEFINE D == DOMAIN before
             m == painted[k]
             n == Len(order)
             s == InOrder
             p == P!Paintings(InOrder, before)
  <2>1. /\ stage = "tiles" /\ stage' = "tiles" /\ m < n
        /\ canvas' = Draw(Queued(order[m + 1]), Tiles[k], canvas)
        /\ painted' = [painted EXCEPT ![k] = @ + 1]
        /\ queue' = queue /\ sure' = sure /\ order' = order /\ drawers' = drawers
    BY <1>9 DEF DrawNext
  <2>2. /\ n \in sure .. Len(queue) /\ n > 0 /\ IsInjective(order)
        /\ DOMAIN painted = DOMAIN Tiles
        /\ \A j \in DOMAIN Tiles : \A q \in Tiles[j] : canvas[q] = p[painted[j]][q]
    BY <2>1 DEF DrawnInv
  <2>3. /\ n \in Nat /\ Len(s) = n
        /\ \A i \in 1 .. n : s[i] = Queued(order[i])
        /\ PaintsEachPixel(p, s, before, D)
    BY InOrderRuns DEF InOrderPaints
  <2>4. painted \in [DOMAIN Tiles -> 0 .. n]
    BY <2>2 DEF OrderInv
  <2>5. InOrder' = InOrder
    BY <1>1, <2>1 DEF InOrder, Queued
  <2>6. p' = p
    BY <1>1, <2>5
  <2>7. Tiles' = Tiles
    BY <1>2, <2>1, TilesStay
  <2> HIDE DEF p, s, n, D
  <2>8. m \in 0 .. n /\ m + 1 \in 1 .. n
    <3>1. m \in 0 .. n
      BY <1>9, <2>2, <2>4
    <3> HIDE DEF m
    <3> QED BY <2>1, <2>3, <3>1
  <2>9. canvas' = [q \in D |-> IF q \in Tiles[k] THEN DrawPixel(s[m + 1], q, canvas[q])
                               ELSE canvas[q]]
    BY <1>2, <2>1, <2>3, <2>8 DEF Draw, D
  <2>10. ASSUME NEW j \in DOMAIN Tiles, NEW q \in Tiles[j]
         PROVE  canvas'[q] = p[painted'[j]][q]
    <3>1. q \in D /\ canvas[q] = p[painted[j]][q]
      BY <1>2, <1>3, <2>2 DEF TilesDivide, D
    <3>2. CASE j = k
      <4>1. painted'[j] = m + 1
        BY <2>1, <2>2, <3>2
      <4>2. canvas'[q] = DrawPixel(s[m + 1], q, p[m][q])
        BY <2>9, <3>1, <3>2
      <4>3. m + 1 - 1 = m
        BY <2>8
      <4>4. p[m + 1][q] = DrawPixel(s[m + 1], q, p[m][q])
        BY <2>3, <2>8, <3>1, <4>3 DEF PaintsEachPixel
      <4> QED BY <4>1, <4>2, <4>4
    <3>3. CASE j # k
      <4>1. painted'[j] = painted[j]
        BY <2>1, <2>2, <3>3
      <4>2. q \notin Tiles[k]
        BY <1>3, <1>9, <2>2, <3>3 DEF TilesDivide
      <4>3. canvas'[q] = canvas[q]
        BY <2>9, <3>1, <4>2
      <4> QED BY <3>1, <4>1, <4>3
    <3> QED BY <3>2, <3>3
  <2>11. DOMAIN painted' = DOMAIN Tiles
    BY <2>1, <2>2
  <2> QED
    BY <2>1, <2>2, <2>6, <2>7, <2>10, <2>11 DEF DrawnInv, p, n
<1>10. ASSUME JoinTiles PROVE DrawnInv'
  <2>1. stage' = "done"
    BY <1>10 DEF JoinTiles
  <2> QED BY <2>1 DEF DrawnInv
<1>11. ASSUME UNCHANGED vars PROVE DrawnInv'
  <2>1. InOrder' = InOrder /\ Tiles' = Tiles
    BY <1>11 DEF vars, InOrder, Queued, Tiles, TileAt, Width, Height
  <2>2. /\ stage' = stage /\ canvas' = canvas /\ before' = before /\ order' = order
        /\ queue' = queue /\ sure' = sure /\ painted' = painted
    BY <1>11 DEF vars
  <2>3. IsInjective(order)' <=> IsInjective(order)
    BY <2>2
  <2> QED BY <2>1, <2>2, <2>3 DEF DrawnInv
<1> QED
  BY <1>5, <1>6, <1>7, <1>8, <1>9, <1>10, <1>11, StepCases DEF StepOf

-----------------------------------------------------------------------------
(* The end of a frame is one step of the painter.                          *)

(* The painter counts as the renderer does.                                *)
LEMMA SameCardinality ==
  ASSUME NEW S
  PROVE  P!Cardinality(S) = Cardinality(S)
BY DEF P!Cardinality, Cardinality

(* One sequence of commands is a choice the painter has.                   *)
CanPaint(pic) ==
  \E n \in P!Enough(Recorded) : \E kept \in P!kSubset(n, DOMAIN Recorded) :
    \E s \in {t \in P!SetToSeqs(kept) : P!InKeyOrder(Recorded, t)} :
      pic = P!Paintings([i \in DOMAIN s |-> Recorded[s[i]]], before)[Len(s)]

(* A sequence without repetitions of positions, smaller keys first, is one *)
(* of them.                                                                *)
LEMMA PainterChooses ==
  ASSUME NEW n \in Nat, n \in P!Enough(Recorded),
         NEW s \in [1 .. n -> DOMAIN Recorded], \A i, j \in 1 .. n : s[i] = s[j] => i = j,
         \A i \in 1 .. n - 1 : Recorded[s[i]].key <= Recorded[s[i + 1]].key
  PROVE  CanPaint(P!Paintings([i \in 1 .. n |-> Recorded[s[i]]], before)[n])
<1> DEFINE kept == {s[i] : i \in 1 .. n}
<1>1. s \in Bijection(1 .. n, kept)
  BY DEF Bijection, Injection, Surjection, IsInjective
<1>2. ExistsBijection(1 .. n, kept)
  BY <1>1 DEF ExistsBijection
<1>3. Cardinality(kept) = n
  <2> HIDE DEF kept
  <2> QED BY <1>2, FS_CountingElements
<1>4. kept \in P!kSubset(n, DOMAIN Recorded)
  <2>1. kept \in SUBSET DOMAIN Recorded
    OBVIOUS
  <2> HIDE DEF kept
  <2> QED BY <1>3, <2>1, SameCardinality DEF P!kSubset
<1>5. s \in P!SetToSeqs(kept)
  <2>1. s \in [1 .. n -> kept]
    OBVIOUS
  <2> HIDE DEF kept
  <2> QED BY <1>3, <2>1, SameCardinality DEF P!SetToSeqs
<1>6. DOMAIN s = 1 .. n /\ Len(s) = n
  OBVIOUS
<1>7. P!InKeyOrder(Recorded, s)
  BY <1>6 DEF P!InKeyOrder
<1>8. [i \in DOMAIN s |-> Recorded[s[i]]] = [i \in 1 .. n |-> Recorded[s[i]]]
  BY <1>6
<1> HIDE DEF kept
<1> QED BY <1>4, <1>5, <1>6, <1>7, <1>8 DEF CanPaint

(* How many commands there may be: what is certainly published, or more,   *)
(* but never none if there are any.                                        *)
LEMMA EnoughPublished ==
  ASSUME FrameInv, ChunkInv, QueueInv, SureInv, stage \in {"sort", "tiles"},
         NEW n \in sure .. Len(queue), n = 0 => Len(queue) = 0
  PROVE  n \in P!Enough(Recorded)
<1> DEFINE r == Len(Recorded)
           l == Len(queue)
<1>1. KMax \in Nat \ {0}
  BY SceneAssumption
<1>2. r \in Nat /\ r = Cardinality(Ids) + Len(items["client"])
  BY Positions
<1>3. l = IF r <= KMax THEN r ELSE KMax
  <2>1. stage \notin AllKinds \cup {"client"}
    BY DEF AllKinds
  <2> QED BY <1>2, <2>1, QueueShape DEF QueueInv, Fill
<1>4. P!Room(Recorded) = l
  BY <1>1, <1>2, <1>3 DEF P!Room
<1>5. sure \in 0 .. l /\ l \in Nat /\ n \in 0 .. l /\ (n = 0 => l = 0)
  BY DEF QueueInv
<1>6. ASSUME workers <= 1 \/ (items.client # << >> /\ Len(Recorded) <= KMax) PROVE n = l
  <2>1. sure = l
    BY <1>6 DEF SureInv
  <2> HIDE DEF l
  <2> QED BY <1>5, <2>1
<1> HIDE DEF l
<1> QED BY <1>4, <1>5, <1>6 DEF P!Enough

(* When all tiles are done, the canvas shows the commands in the order.    *)
LEMMA DoneShowsAll ==
  ASSUME FrameInv, QueueInv, OrderInv, CanvasInv, SizeInv, DrawnInv, stage = "tiles",
         \A k \in DOMAIN painted : painted[k] = Len(order)
  PROVE  canvas = P!Paintings(InOrder, before)[Len(order)]
<1> DEFINE D == DOMAIN before
           p == P!Paintings(InOrder, before)
           n == Len(order)
<1>1. canvas \in [D -> Colors]
  BY DEF CanvasInv
<1>2. n \in Nat /\ PaintsEachPixel(p, InOrder, before, D) /\ Len(InOrder) = n
  BY InOrderRuns DEF InOrderPaints
<1>3. p[n] \in [D -> Colors]
  <2> HIDE DEF p, n, D
  <2>1. n \in 0 .. n
    BY <1>2
  <2> QED BY <1>2, <2>1 DEF PaintsEachPixel
<1>4. TilesDivide
  <2>1. PICK size \in Sizes : DOMAIN canvas = Pixels(size)
    BY <1>1 DEF SizeInv
  <2> QED BY <2>1, TilesDivideCanvas
<1>5. ASSUME NEW q \in D PROVE canvas[q] = p[n][q]
  <2>1. PICK k \in DOMAIN Tiles : q \in Tiles[k]
    BY <1>1, <1>4 DEF TilesDivide
  <2>2. painted[k] = n
    BY DEF DrawnInv
  <2>3. canvas[q] = p[painted[k]][q]
    BY <2>1 DEF DrawnInv
  <2> QED BY <2>2, <2>3
<1> HIDE DEF p, n, D
<1>6. canvas = p[n]
  BY <1>1, <1>3, <1>5
<1> QED BY <1>6 DEF p, n

(* The canvas is then one of the painter's pictures: the order names each  *)
(* command once, enough of them, and smaller keys first.                   *)
LEMMA DoneCanBePainted ==
  ASSUME FrameInv, ChunkInv, QueueInv, OrderInv, CanvasInv, SizeInv, SureInv, DrawnInv,
         stage = "tiles", \A k \in DOMAIN painted : painted[k] = Len(order)
  PROVE  CanPaint(canvas)
<1> DEFINE n == Len(order)
           s == [i \in 1 .. n |-> Position(queue[order[i]])]
<1>1. /\ n \in Nat /\ n \in sure .. Len(queue) /\ n > 0 /\ IsInjective(order)
      /\ \A i \in 1 .. n : order[i] \in 1 .. Len(queue) /\ InOrder[i] = Queued(order[i])
      /\ InOrder = [i \in 1 .. n |-> Queued(order[i])] /\ DOMAIN order = 1 .. n
  <2>1. /\ n \in Nat
        /\ \A i \in 1 .. n : order[i] \in 1 .. Len(queue) /\ InOrder[i] = Queued(order[i])
    BY InOrderRuns DEF InOrderPaints
  <2>2. DOMAIN order = 1 .. n
    BY DEF OrderInv
  <2> QED BY <2>1, <2>2 DEF DrawnInv, InOrder
<1>2. \A i \in 1 .. Len(queue) : queue[i] \in AllIds
  BY ElementOfSeq DEF QueueInv
<1>3. IsInjective(queue) /\ DOMAIN queue = 1 .. Len(queue)
  BY DEF QueueInv
<1>4. n \in P!Enough(Recorded)
  BY <1>1, EnoughPublished
<1>5. ASSUME NEW i \in 1 .. n
      PROVE  s[i] = Position(queue[order[i]]) /\ queue[order[i]] \in AllIds
             /\ s[i] \in DOMAIN Recorded /\ Recorded[s[i]] = Queued(order[i])
  <2>1. s[i] = Position(queue[order[i]]) /\ queue[order[i]] \in AllIds
    BY <1>1, <1>2
  <2> HIDE DEF s
  <2> QED BY <2>1, Positions DEF Queued
<1>6. s \in [1 .. n -> DOMAIN Recorded]
  <2>1. \A i \in 1 .. n : Position(queue[order[i]]) \in DOMAIN Recorded
    BY <1>5
  <2> HIDE DEF n
  <2> QED BY <2>1
<1>7. ASSUME NEW i \in 1 .. n, NEW j \in 1 .. n, s[i] = s[j] PROVE i = j
  <2> HIDE DEF s
  <2>1. queue[order[i]] = queue[order[j]]
    BY <1>5, <1>7, Positions
  <2>2. order[i] = order[j]
    BY <1>1, <1>3, <2>1 DEF IsInjective
  <2> QED BY <1>1, <2>2 DEF IsInjective
<1>8. ASSUME NEW i \in 1 .. n - 1 PROVE Recorded[s[i]].key <= Recorded[s[i + 1]].key
  <2>1. i \in 1 .. n /\ i + 1 \in 1 .. n
    BY <1>1
  <2>2. Queued(order[i]).key <= Queued(order[i + 1]).key
    BY <1>8 DEF OrderInv
  <2> HIDE DEF s
  <2>3. Recorded[s[i]] = Queued(order[i]) /\ Recorded[s[i + 1]] = Queued(order[i + 1])
    BY <1>5, <2>1
  <2> QED BY <2>2, <2>3
<1>9. [i \in 1 .. n |-> Recorded[s[i]]] = InOrder
  <2>1. \A i \in 1 .. n : Recorded[s[i]] = Queued(order[i])
    BY <1>5
  <2> HIDE DEF s, n
  <2> QED BY <1>1, <2>1
<1>10. canvas = P!Paintings(InOrder, before)[n]
  BY DoneShowsAll
<1> HIDE DEF s, n
<1>11. CanPaint(P!Paintings([i \in 1 .. n |-> Recorded[s[i]]], before)[n])
  BY <1>1, <1>4, <1>6, <1>7, <1>8, PainterChooses
<1> QED BY <1>9, <1>10, <1>11

(* Without commands the canvas stays as it was.                            *)
LEMMA NothingCanBePainted ==
  ASSUME FrameInv, ChunkInv, QueueInv, SureInv, stage = "sort", sure = 0
  PROVE  CanPaint(before)
<1>1. Len(queue) = 0 /\ 0 \in sure .. Len(queue)
  BY DEF SureInv, QueueInv
<1>2. 0 \in P!Enough(Recorded)
  BY <1>1, EnoughPublished
<1> DEFINE s == [i \in 1 .. 0 |-> CHOOSE k \in DOMAIN Recorded : TRUE]
           t == [i \in 1 .. 0 |-> Recorded[s[i]]]
<1>3. 0 \in Nat /\ 1 .. 0 = {} /\ 1 .. 0 - 1 = {}
  OBVIOUS
<1>4. s \in [1 .. 0 -> DOMAIN Recorded]
  BY <1>3
<1>5. /\ \A i, j \in 1 .. 0 : s[i] = s[j] => i = j
      /\ \A i \in 1 .. 0 - 1 : Recorded[s[i]].key <= Recorded[s[i + 1]].key
  BY <1>3
<1>6. CanPaint(P!Paintings(t, before)[0])
  <2> HIDE DEF s
  <2> QED BY <1>2, <1>3, <1>4, <1>5, PainterChooses
<1>7. Len(t) = 0 /\ \A i \in 1 .. Len(t) : IsCmd(t[i])
  BY <1>3
<1>8. P!Paintings(t, before)[0] = before
  <2>1. before \in [DOMAIN before -> Colors] /\ DOMAIN before \in SUBSET (Int \X Int)
    BY DEF FrameInv
  <2> HIDE DEF t
  <2>2. Len(t) \in Nat
    BY <1>7
  <2>3. PaintsEachPixel(P!Paintings(t, before), t, before, DOMAIN before)
    BY <1>7, <2>1, <2>2, PaintingsRun
  <2> QED BY <2>3 DEF PaintsEachPixel
<1> QED BY <1>6, <1>8

(* Every step of the frame is the painter's, or none of it: only the step  *)
(* that ends the frame, at the join of the tiles or because there is       *)
(* nothing to draw, shows the picture.                                     *)
LEMMA PaintStep ==
  SceneInv /\ SizeInv /\ SureInv /\ DrawnInv /\ [Next]_vars
    => [P!Paint]_<<Recorded, workers <= 1 \/ (items.client # << >> /\ Len(Recorded) <= KMax),
                   Picture, stage = "done">>
<1> DEFINE joined == workers <= 1 \/ (items.client # << >> /\ Len(Recorded) <= KMax)
           Goal == [P!Paint]_<<Recorded, joined, Picture, stage = "done">>
<1> SUFFICES ASSUME SceneInv, SizeInv, SureInv, DrawnInv, [Next]_vars
             PROVE  Goal
  OBVIOUS
<1>1. FrameInv /\ ChunkInv /\ QueueInv /\ OrderInv /\ CanvasInv
  BY DEF SceneInv
<1>2. items' = items /\ before' = before /\ workers' = workers
  BY <1>1, FrameStays DEF StepOf, EmitOne, JoinChunks, ClientRecords, Sort, DrawNext, JoinTiles,
     Next, vars
<1>3. Recorded' = Recorded /\ joined' = joined
  BY <1>2 DEF Recorded
<1>4. ASSUME stage # "done", stage' # "done" PROVE Goal
  <2>1. Picture' = Picture
    BY <1>2, <1>4 DEF Picture
  <2>2. (stage = "done")' = (stage = "done")
    BY <1>4
  <2> QED BY <1>3, <2>1, <2>2
<1>5. ASSUME stage # "done", stage' = "done", canvas' = canvas, CanPaint(canvas) PROVE Goal
  <2>1. Picture = before /\ Picture' = canvas
    BY <1>5 DEF Picture
  <2>2. P!Paint
    BY <1>3, <1>5, <2>1 DEF P!Paint, CanPaint
  <2> QED BY <2>2
<1>6. ASSUME NEW ci \in DOMAIN next, EmitOne(ci) PROVE Goal
  BY <1>4, <1>6 DEF EmitOne, Range, Kinds
<1>7. ASSUME JoinChunks PROVE Goal
  BY <1>4, <1>7 DEF JoinChunks, Range, Kinds
<1>8. ASSUME ClientRecords PROVE Goal
  BY <1>4, <1>8 DEF ClientRecords
<1>9. ASSUME Sort PROVE Goal
  <2>1. stage = "sort" /\ canvas' = canvas /\ stage' \in {"done", "tiles"}
        /\ (stage' = "done" => sure = 0)
    <3>1. PICK n \in sure .. Len(queue) :
            IF n = 0 THEN stage' = "done" ELSE stage' = "tiles"
      BY <1>9 DEF Sort
    <3>2. sure \in Nat /\ Len(queue) \in Nat
      BY <1>1 DEF QueueInv
    <3>3. n = 0 => sure = 0
      BY <3>1, <3>2
    <3> QED BY <1>9, <3>1, <3>3 DEF Sort
  <2>2. canvas = before
    BY <2>1 DEF DrawnInv
  <2>3. stage' = "done" => CanPaint(canvas)
    BY <1>1, <2>1, <2>2, NothingCanBePainted
  <2> HIDE DEF Goal
  <2> QED BY <1>4, <1>5, <2>1, <2>3
<1>10. ASSUME NEW k \in DOMAIN painted, DrawNext(k) PROVE Goal
  BY <1>4, <1>10 DEF DrawNext
<1>11. ASSUME JoinTiles PROVE Goal
  <2>1. /\ stage = "tiles" /\ stage' = "done" /\ canvas' = canvas
        /\ \A k \in DOMAIN painted : painted[k] = Len(order)
    BY <1>11 DEF JoinTiles
  <2>2. CanPaint(canvas)
    BY <1>1, <2>1, DoneCanBePainted
  <2> HIDE DEF Goal
  <2> QED BY <1>5, <2>1, <2>2
<1>12. ASSUME UNCHANGED vars PROVE Goal
  <2>1. Picture' = Picture /\ stage' = stage
    BY <1>12 DEF vars, Picture
  <2> QED BY <1>3, <2>1
<1> HIDE DEF Goal
<1> QED BY <1>6, <1>7, <1>8, <1>9, <1>10, <1>11, <1>12 DEF Next

(* The frame begins with nothing shown.                                    *)
LEMMA PainterBegins == Init => P!Init
BY DEF Init, P!Init

(* The picture of a frame is the one a single painter makes of what was    *)
(* recorded, however the items were divided into chunks and the canvas     *)
(* into tiles, and in whatever order these ran.                            *)
THEOREM RenderSceneIsPainter == Spec => ImplementsPainter
<1>1. Init => SceneInv /\ SizeInv /\ SureInv /\ DrawnInv
  BY FrameBegins, QueueBegins, SureBegins, DrawnBegins DEF SceneInv
<1>2. SceneInv /\ SizeInv /\ SureInv /\ DrawnInv /\ [Next]_vars
        => (SceneInv /\ SizeInv /\ SureInv /\ DrawnInv)'
  <2> SUFFICES ASSUME SceneInv, SizeInv, SureInv, DrawnInv, [Next]_vars
               PROVE  (SceneInv /\ SizeInv /\ SureInv /\ DrawnInv)'
    OBVIOUS
  <2>1. FrameInv /\ ChunkInv /\ QueueInv /\ OrderInv /\ CanvasInv
    BY DEF SceneInv
  <2>2. FrameInv' /\ ChunkInv' /\ QueueInv' /\ OrderInv'
    BY <2>1, FrameStays, ChunkStep, QueueStep, OrderStep
  <2>3. CanvasInv'
    BY <2>1, <2>2, CanvasStep
  <2>4. SizeInv' /\ SureInv'
    BY <2>1, <2>2, SizeStep, SureStep
  <2>5. DrawnInv'
    BY <2>1, <2>2, <2>3, DrawnStep
  <2> QED BY <2>2, <2>3, <2>4, <2>5 DEF SceneInv
<1>3. SceneInv /\ SizeInv /\ SureInv /\ DrawnInv /\ [Next]_vars
        => [P!Paint]_<<Recorded, workers <= 1 \/ (items.client # << >> /\ Len(Recorded) <= KMax),
                       Picture, stage = "done">>
  BY PaintStep
<1> QED BY <1>1, <1>2, <1>3, PainterBegins, PTL DEF Spec, ImplementsPainter, P!Spec
=============================================================================
