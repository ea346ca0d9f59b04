------------------------------- MODULE Vision -------------------------------
(***************************************************************************)
(* The image contract of JinaV5Vision.  A caller asks for the resize       *)
(* target of an image, resizes it (Pillow does, outside this crate), and   *)
(* has it embedded; encode_image refuses whatever is not its own target.   *)
(* The image becomes patches of 16 by 16 pixels in the order of the 2 by 2 *)
(* blocks the model merges, and the prompt carries one token per block.    *)
(*                                                                         *)
(* Sides are at most MaxSide: nothing overflows a u32.                     *)
(***************************************************************************)
EXTENDS Integers, FiniteSets, FiniteSetsExt

CONSTANTS
  Images,         \* the <<height, width>> pairs of the callers' images
  MaxSide         \* bound: no side is longer

ASSUME ImagesAssumption ==
  /\ MaxSide \in Nat
  /\ Images \subseteq (0..MaxSide) \X (0..MaxSide)

VARIABLES
  image,          \* the <<height, width>> of the image the caller holds
  asked,          \* the answer of vision_target_size to it, {} when it refuses
  stage           \* how far the image got

visionVars == <<image, asked, stage>>

VISION_FACTOR == 32
VISION_MAX_ASPECT == 200
VISION_POS_SIDE == 48
VISION_PROMPT_OVERHEAD == 15
PATCH == 16
MERGE == 2

\* VISION_MIN_PIXELS and VISION_MAX_PIXELS, in squares of VISION_FACTOR.
MIN_BLOCKS == 256
MAX_BLOCKS == 1280

-----------------------------------------------------------------------------
(* The resize target                                                       *)

\* round_half_even(n / VISION_FACTOR).
round_half_even(n) ==
  LET f == n \div VISION_FACTOR
      twice == 2 * (n % VISION_FACTOR)
  IN IF twice < VISION_FACTOR \/ (twice = VISION_FACTOR /\ (f % 2) = 0) THEN f ELSE f + 1

\* No scaled side is longer, in blocks: 506 * 506 > MAX_BLOCKS * VISION_MAX_ASPECT.
Roots == 0..506

\* A scaled side, in blocks, is the square root of a quotient.  It is computed in
\* floating point: a root that is a whole number comes out a hair above or below
\* itself, and is floored or ceiled from there.
shrunk(a, b) ==
  LET q == (MAX_BLOCKS * a) \div b
      k == CHOOSE n \in Roots : n * n <= q /\ q < (n + 1) * (n + 1)
      exact == ((MAX_BLOCKS * a) % b) = 0 /\ k * k = q
  IN {Max({1, n}) : n \in IF exact THEN {k - 1, k} ELSE {k}}

\* Mutant of grown: the side is floored, as it is when an image shrinks.
grown_floored(a, b) ==
  {CHOOSE n \in Roots :
     LET q == (MIN_BLOCKS * a) \div b IN n * n <= q /\ q < (n + 1) * (n + 1)}

grown(a, b) ==
  LET q == (MIN_BLOCKS * a + b - 1) \div b
      k == CHOOSE n \in Roots \ {0} : (n - 1) * (n - 1) < q /\ q <= n * n
      exact == ((MIN_BLOCKS * a) % b) = 0 /\ k * k = q
  IN IF exact THEN {k, k + 1} ELSE {k}

Aspect(h, w) == Max({h, w}) <= VISION_MAX_ASPECT * Min({h, w})

\* What vision_target_size may answer; {} when it refuses.
vision_target_size(h, w) ==
  IF h = 0 \/ w = 0 \/ ~Aspect(h, w) THEN {}
  ELSE LET hb == round_half_even(h)
           wb == round_half_even(w)
           sides == CASE hb * wb > MAX_BLOCKS -> shrunk(h, w) \X shrunk(w, h)
                      [] hb * wb < MIN_BLOCKS -> grown(h, w) \X grown(w, h)
                      [] OTHER                -> {<<hb, wb>>}
       IN {<<s[1] * VISION_FACTOR, s[2] * VISION_FACTOR>> : s \in sides}

\* Mutant of check_target_size: any image whose aspect will do is taken.
check_target_size_loose(h, w) == {TRUE : t \in vision_target_size(h, w)}

\* Is an image its own target?
check_target_size(h, w) == {t = <<h, w>> : t \in vision_target_size(h, w)}

-----------------------------------------------------------------------------
(* Patches                                                                 *)

\* Mutant of merge_order: the row inside the block is forgotten, so the upper
\* patches of every block are listed twice.
merge_order_upper(i, blocks_w) ==
  [row |-> (i \div (MERGE * MERGE * blocks_w)) * MERGE,
   col |-> ((i \div (MERGE * MERGE)) % blocks_w) * MERGE + (i % MERGE)]

\* Row and column of patch i: within-block offsets cycle fastest, then the
\* block column, then the block row.
merge_order(i, blocks_w) ==
  [row |-> (i \div (MERGE * MERGE * blocks_w)) * MERGE + ((i \div MERGE) % MERGE),
   col |-> ((i \div (MERGE * MERGE)) % blocks_w) * MERGE + (i % MERGE)]

Grid(h, w) == [rows |-> h \div PATCH, cols |-> w \div PATCH]
Patches(h, w) == 0..(Grid(h, w).rows * Grid(h, w).cols - 1)

\* Where the model is told that patch i is.
vision_pos_ids(i, h, w) == merge_order(i, Grid(h, w).cols \div MERGE)

\* The first byte of pixel <<y, x>> of patch p in the caller's buffer.
ByteOf(p, y, x, w) == ((p.row * PATCH + y) * w + p.col * PATCH + x) * 3

\* Mutant of PixelAt: patches are counted for blocks, in this one place.
PixelAt_wide(i, y, x, w) == ByteOf(merge_order(i, w \div PATCH), y, x, w)

\* pixel_values works the order of the patches out from the sides in pixels.
PixelAt(i, y, x, w) == ByteOf(merge_order(i, (w \div PATCH) \div MERGE), y, x, w)

Clamp(n) == Min({VISION_POS_SIDE - 1, Max({0, n})})

\* Mutant of axis_taps: the last index is taken to be one less.
axis_taps_short(ix, size) ==
  LET denom == Max({size, 3}) - 2
      f == (ix * (VISION_POS_SIDE - 1)) \div denom
  IN [lo |-> Clamp(f), hi |-> Clamp(f + 1), at |-> f,
      weight |-> (ix * (VISION_POS_SIDE - 1)) % denom]

\* Where one axis of a patch falls in the table of positions: between lo and
\* hi, weight / (size - 1) of the way.
axis_taps(ix, size) ==
  LET denom == Max({size, 2}) - 1
      f == (ix * (VISION_POS_SIDE - 1)) \div denom
  IN [lo |-> Clamp(f), hi |-> Clamp(f + 1), at |-> f,
      weight |-> (ix * (VISION_POS_SIDE - 1)) % denom]

\* The four entries of the table a patch interpolates between.
interp_taps(i, h, w) ==
  LET p == merge_order(i, Grid(h, w).cols \div MERGE)
      hs == axis_taps(p.row, Grid(h, w).rows)
      ws == axis_taps(p.col, Grid(h, w).cols)
  IN <<hs.lo * VISION_POS_SIDE + ws.lo, hs.lo * VISION_POS_SIDE + ws.hi,
       hs.hi * VISION_POS_SIDE + ws.lo, hs.hi * VISION_POS_SIDE + ws.hi>>

ImageTokens(h, w) == Cardinality(Patches(h, w)) \div (MERGE * MERGE)

\* The tokens of the prompt: as many as the tokenizer of this model makes of
\* it, or some other number when the tokenizer is another's.
prompt_ids(h, w) == {ImageTokens(h, w) + VISION_PROMPT_OVERHEAD, 0}

-----------------------------------------------------------------------------
(* Steps                                                                   *)

\* Mutant of TargetSize: a refusal is not told.
TargetSize_untold ==
  /\ stage = "held"
  /\ asked' \in {{t} : t \in vision_target_size(image[1], image[2])} \cup {{}}
  /\ stage' = "asked"
  /\ UNCHANGED image

\* vision_target_size: the caller is told the target, or refused.
TargetSize ==
  /\ stage = "held"
  /\ LET targets == vision_target_size(image[1], image[2])
     IN \/ targets = {} /\ stage' = "no_target" /\ UNCHANGED asked
        \/ \E t \in targets : asked' = {t} /\ stage' = "asked"
  /\ UNCHANGED image

\* The caller resizes the image to the target.
Resize ==
  /\ stage = "asked"
  /\ image' \in asked
  /\ stage' = "resized"
  /\ UNCHANGED asked

\* encode_image, on an image that was resized or on one as it came: it must be
\* its own target, fill its buffer, and be prompted by the right tokenizer.
Encoded(h, w) ==
  IF TRUE \notin check_target_size(h, w) THEN {"not_its_target"}
  ELSE {"short_buffer"}
       \cup {IF seq = ImageTokens(h, w) + VISION_PROMPT_OVERHEAD THEN "embedded"
             ELSE "wrong_tokenizer" : seq \in prompt_ids(h, w)}

EncodeImage ==
  /\ stage \in {"held", "resized"}
  /\ stage' \in Encoded(image[1], image[2])
  /\ UNCHANGED <<image, asked>>

\* The caller comes with an image.
Another ==
  /\ stage \notin {"held", "asked", "resized"}
  /\ image' \in Images /\ asked' = {} /\ stage' = "held"

VisionInit ==
  /\ image = <<0, 0>>
  /\ asked = {}
  /\ stage = "none"

VisionNext == TargetSize \/ Resize \/ EncodeImage \/ Another
VisionSpec == VisionInit /\ [][VisionNext]_visionVars

-----------------------------------------------------------------------------
(* Properties                                                              *)

Stages ==
  {"none", "held", "no_target", "asked", "resized", "not_its_target", "short_buffer",
   "wrong_tokenizer", "embedded"}

\* The variables keep their shape: there is a target to resize to.
VisionTypeOK ==
  /\ image \in Nat \X Nat
  /\ stage \in Stages
  /\ Cardinality(asked) <= 1 /\ asked \subseteq Nat \X Nat
  /\ stage \in {"asked", "resized"} => asked # {}

\* An image resized to its target is not sent back to be resized again, as long
\* as the rounding left its sides within the aspect the processor takes.
ResizedOnce ==
  stage = "not_its_target" /\ asked # {} => ~Aspect(image[1], image[2])

\* Whatever image came in, the one that is embedded has between 256 and 1280
\* image tokens and the four patches of each.
TokensBounded ==
  stage = "embedded" =>
    /\ ImageTokens(image[1], image[2]) \in MIN_BLOCKS..MAX_BLOCKS
    /\ Cardinality(Patches(image[1], image[2])) = 4 * ImageTokens(image[1], image[2])

\* What the model is fed at the place it is told: the patches and the grid of the
\* image match one to one, and image token k, which stands for patches 4k .. 4k + 3,
\* has the four patches of one block.
ToldAt(i, h, w) == <<vision_pos_ids(i, h, w).row, vision_pos_ids(i, h, w).col>>
QuadOf(k, h, w) == {ToldAt(4 * k + j, h, w) : j \in 0..3}
BlockFrom(p) == {p[1], p[1] + 1} \X {p[2], p[2] + 1}
Corner(p) == (p[1] % MERGE) = 0 /\ (p[2] % MERGE) = 0
EachPatchOnce ==
  stage = "embedded" =>
    LET h == image[1]
        w == image[2]
        rows == Grid(h, w).rows
        cols == Grid(h, w).cols
        places == {ToldAt(i, h, w) : i \in Patches(h, w)}
    IN /\ places = (0..(rows - 1)) \X (0..(cols - 1))
       /\ Cardinality(places) = Cardinality(Patches(h, w))
       /\ \A k \in 0..(ImageTokens(h, w) - 1) :
            Corner(ToldAt(4 * k, h, w)) /\ QuadOf(k, h, w) = BlockFrom(ToldAt(4 * k, h, w))

\* Pixels, rotary positions and learned positions are computed apart and agree:
\* the corner pixels of patch i are read inside the buffer, and out of the very
\* square whose row and column the model is told and the table is read for.
SeenWhereTold ==
  stage = "embedded" =>
    LET h == image[1]
        w == image[2]
    IN \A i \in Patches(h, w) :
         LET p == vision_pos_ids(i, h, w)
             hs == axis_taps(p.row, Grid(h, w).rows)
             ws == axis_taps(p.col, Grid(h, w).cols)
         IN /\ \A y \in {0, PATCH - 1}, x \in {0, PATCH - 1} :
                 LET pixel == PixelAt(i, y, x, w) \div 3
                 IN /\ pixel < h * w
                    /\ (pixel \div w) \div PATCH = p.row
                    /\ (pixel % w) \div PATCH = p.col
            /\ interp_taps(i, h, w)[1] = hs.lo * VISION_POS_SIDE + ws.lo
            /\ interp_taps(i, h, w)[4] = hs.hi * VISION_POS_SIDE + ws.hi

\* The table of positions is read inside its bounds, from one corner of the image
\* to the other, and a tap that had to be clamped weighs nothing.
TapsInTable ==
  stage = "embedded" =>
    LET h == image[1]
        w == image[2]
        Axis(size) == {axis_taps(ix, size) : ix \in 0..(size - 1)}
    IN \A size \in {Grid(h, w).rows, Grid(h, w).cols} :
         /\ {t.lo : t \in Axis(size)} \subseteq 0..(VISION_POS_SIDE - 1)
         /\ {0, VISION_POS_SIDE - 1} \subseteq {t.lo : t \in Axis(size)}
         /\ \A t \in Axis(size) :
              t.lo = t.at /\ (t.hi # t.at + 1 => t.weight = 0)

\* The size of an image is settled by one resize, and is one the model knows.
SizeSettled == ResizedOnce /\ TokensBounded

\* Each patch of the image is fed once, at its own place, with its own pixels.
PatchesPlaced == EachPatchOnce /\ SeenWhereTold /\ TapsInTable

-----------------------------------------------------------------------------
(* A statement of the docs that the code does not keep                     *)

\* "the Pillow side resizes here before calling encode_image" (lib.rs): an image
\* that has a target can be embedded.
TargetIsTaken == stage = "not_its_target" => asked = {}
=============================================================================
