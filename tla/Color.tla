-------------------------------- MODULE Color --------------------------------
(***************************************************************************)
(* The arithmetic of pixels (src/gfx/software_renderer.cpp): a pixel and a *)
(* colour are four bytes.  The casts to uint8_t are left out: that none of *)
(* them cuts anything off is what OverIsColor and ModulateIsColor say.     *)
(***************************************************************************)
EXTENDS Integers

Byte == 0 .. 255
Colors == [r : Byte, g : Byte, b : Byte, a : Byte]

MutMix(s, d, sa) == (s * sa + d * (256 - sa)) \div 255       \* inv = 256 - sa

(* One channel of blend_over(): truncated, not rounded. *)
Mix(s, d, sa) == (s * sa + d * (255 - sa)) \div 255

MutOverAlpha(d, s) ==                       \* da * inv not divided, but cut
  IF s.a = 255 THEN s
  ELSE IF s.a = 0 THEN d
  ELSE [r |-> Mix(s.r, d.r, s.a), g |-> Mix(s.g, d.g, s.a),
        b |-> Mix(s.b, d.b, s.a), a |-> s.a + (d.a * (255 - s.a)) \div 256]

(* blend_over() and write_px(): what pixel d becomes when s is written.    *)
Over(d, s) ==
  IF s.a = 255 THEN s
  ELSE IF s.a = 0 THEN d
  ELSE [r |-> Mix(s.r, d.r, s.a), g |-> Mix(s.g, d.g, s.a),
        b |-> Mix(s.b, d.b, s.a), a |-> s.a + (d.a * (255 - s.a)) \div 255]

(* modulate(): a sprite's pixel under its tint. *)
Modulate(s, tint) ==
  [r |-> (s.r * tint.r) \div 255, g |-> (s.g * tint.g) \div 255,
   b |-> (s.b * tint.b) \div 255, a |-> (s.a * tint.a) \div 255]
=============================================================================
