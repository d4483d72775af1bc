--------------------------- MODULE TerminalSurface ---------------------------
(***************************************************************************)
(* The terminal as a surface (platforms/terminal_ncurses/.../              *)
(* TerminalSurface.cpp): present() draws the cells that differ from a copy *)
(* of what was drawn before, m_prev, whose entries are 0xFFFFFFFF where    *)
(* nothing is known.  That is also a pixel: opaque white.                  *)
(***************************************************************************)
EXTENDS Naturals, FiniteSetsExt

CONSTANTS
  Sizes,       \* sizes the terminal may have: records [rows, cols]
  Pixels,      \* pixels <<r, g, b, a>> of the frames
  Frames       \* frames presented: functions from cells [y, x] that form a
               \* rectangle to pixels; the empty one stands for an invalid frame

Area(s) == [y : 0 .. s.rows - 1, x : 0 .. s.cols - 1]
Index(s, c) == c.y * s.cols + c.x
Indexes(s) == 0 .. s.rows * s.cols - 1

SurfaceAssumption ==
  /\ Sizes \subseteq [rows : Nat \ {0}, cols : Nat \ {0}]
  /\ Pixels \subseteq (0 .. 255) \X (0 .. 255) \X (0 .. 255) \X (0 .. 255)
  /\ \A f \in Frames : f \in [DOMAIN f -> Pixels]

Unknown == <<255, 255, 255, 255>>      \* 0xFFFFFFFF, in m_prev
Blank == " "                           \* a cell nothing was drawn in

Luminance(p) == (p[1] * 30 + p[2] * 59 + p[3] * 11) \div 100

(* quantize_to_curses_bg(): the nearest of the eight colours.              *)
Background(p) ==
  LET high == {i \in 1 .. 3 : p[i] > 150}
      most == Max({p[1], p[2], p[3]})
      least == Min({p[1], p[2], p[3]})
  IN  CASE p[4] = 0 \/ most < 40 -> "black"
        [] p[4] > 0 /\ least > 215 -> "white"
        [] p[4] > 0 /\ most >= 40 /\ least <= 215 ->
             IF most - least < 25 THEN IF Luminance(p) > 128 THEN "white" ELSE "black"
             ELSE IF high = {1, 2} THEN "yellow"
             ELSE IF high = {2, 3} THEN "cyan"
             ELSE IF high = {1, 3} THEN "magenta"
             ELSE IF p[1] = most THEN "red"
             ELSE IF p[2] = most THEN "green" ELSE "blue"

(* What a terminal without colours shows instead.                          *)
Character(p) ==
  CASE Luminance(p) > 220 -> "@"
    [] Luminance(p) \in 181 .. 220 -> "#"
    [] Luminance(p) \in 141 .. 180 -> "*"
    [] Luminance(p) \in 101 .. 140 -> "+"
    [] Luminance(p) \in 61 .. 100 -> "."
    [] Luminance(p) <= 60 -> " "

Glyphs == {"black", "red", "green", "yellow", "blue", "magenta", "cyan", "white",
           "@", "#", "*", "+", ".", " "}

VARIABLES
  colors,    \* m_color_ok
  size,      \* what getmaxyx() returns
  drawn,     \* m_rows and m_cols
  prev,      \* m_prev
  cells,     \* what the terminal shows
  shown,     \* history: the frame presented last, if the terminal has had
             \* its present size since before that
  lost       \* history: the cells ncurses took off the screen in a change of
             \* size and present() has not drawn since

vars == <<colors, size, drawn, prev, cells, shown, lost>>

NoFrame == << >>
Shade(p) == IF colors THEN Background(p) ELSE Character(p)
AllUnknown(s) == [i \in Indexes(s) |-> Unknown]
AllBlank(s) == [c \in Area(s) |-> Blank]

TypeOK ==
  /\ colors \in BOOLEAN
  /\ size \in Sizes /\ drawn \in Sizes
  /\ prev \in [Indexes(drawn) -> Pixels \cup {Unknown}]
  /\ cells \in [Area(size) -> Glyphs]
  /\ shown \in Frames \cup {NoFrame}
  /\ lost \subseteq UNION {Area(s) : s \in Sizes}

(* ensure_init_(), called by the constructor. *)
Init ==
  /\ colors \in BOOLEAN
  /\ size \in Sizes
  /\ drawn = size
  /\ prev = AllUnknown(size)
  /\ cells = AllBlank(size)
  /\ shown = NoFrame /\ lost = {}

(* ncurses takes notice of a new size inside getch(), that is poll_key(),  *)
(* keeps what still fits and shows blanks elsewhere.                       *)
Resize(s) ==
  /\ size' = s
  /\ cells' = [c \in Area(s) |-> IF c \in Area(size) THEN cells[c] ELSE Blank]
  /\ shown' = IF s = size THEN shown ELSE NoFrame
  /\ lost' = lost \cup (Area(size) \ Area(s))
  /\ UNCHANGED <<colors, drawn, prev>>

MutPresent(f) ==         \* full_redraw_() only if the number of cells changed
  LET resized  == size # drawn
      known    == IF resized /\ Indexes(size) # Indexes(drawn) THEN AllUnknown(size) ELSE prev
      before   == IF resized THEN AllBlank(size) ELSE cells
      Drawn(c) == c \in DOMAIN f \cap Area(size) /\ known[Index(size, c)] # f[c]
  IN  /\ drawn' = size
      /\ cells' = [c \in Area(size) |-> IF Drawn(c) THEN Shade(f[c]) ELSE before[c]]
      /\ prev' = [i \in Indexes(size) |->
                    LET c == CHOOSE d \in Area(size) : Index(size, d) = i
                    IN  IF Drawn(c) THEN f[c] ELSE known[i]]
      /\ shown' = f
      /\ lost' = IF resized THEN {} ELSE {c \in lost : ~Drawn(c)}
      /\ UNCHANGED <<colors, size>>

(* present(): a new size clears the screen and forgets m_prev; then the    *)
(* cells that both the frame and the terminal have are compared and drawn. *)
Present(f) ==
  LET resized  == size # drawn
      known    == IF resized THEN AllUnknown(size) ELSE prev
      before   == IF resized THEN AllBlank(size) ELSE cells
      Drawn(c) == c \in DOMAIN f \cap Area(size) /\ known[Index(size, c)] # f[c]
  IN  /\ drawn' = size
      /\ cells' = [c \in Area(size) |-> IF Drawn(c) THEN Shade(f[c]) ELSE before[c]]
      /\ prev' = [i \in Indexes(size) |->
                    LET c == CHOOSE d \in Area(size) : Index(size, d) = i
                    IN  IF Drawn(c) THEN f[c] ELSE known[i]]
      /\ shown' = f
      /\ lost' = IF resized THEN {} ELSE {c \in lost : ~Drawn(c)}
      /\ UNCHANGED <<colors, size>>

Next == (\E s \in Sizes : Resize(s)) \/ \E f \in Frames : Present(f)

Spec == Init /\ [][Next]_vars

-----------------------------------------------------------------------------
(* After present() the terminal shows the frame where the two overlap,     *)
(* whatever was shown before, in whichever sizes, with two exceptions.     *)
(* Opaque white stays blank where nothing was drawn since the last change  *)
(* of size: m_prev takes it for unknown.  And a cell that ncurses took off *)
(* the screen stays blank when the terminal is back to its old size before *)
(* present() looks.                                                        *)
ScreenShowsFrame ==
  \A c \in Area(size) \cap DOMAIN shown :
    \/ cells[c] = Shade(shown[c])
    \/ cells[c] = Blank /\ (shown[c] = Unknown \/ c \in lost)

(* Where nothing is known present() draws every cell (TerminalSurface.cpp: *)
(* the value in m_prev forces a redraw on the first present), so after it  *)
(* each cell of the frame, of whatever colour, shows its pixel.            *)
EveryCellDrawn ==
  \A c \in (Area(size) \cap DOMAIN shown) \ lost : cells[c] = Shade(shown[c])
=============================================================================
