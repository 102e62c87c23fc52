----------------------------- MODULE PixelFilters -----------------------------
(***************************************************************************)
(* The blur of the lighting quality patch: what BlurLockedTexturePreserved *)
(* does to a locked texture before the game hands it to the GPU.           *)
(*                                                                         *)
(* A pixel is a word of two channels, one byte each: alpha in the upper,   *)
(* one colour in the lower; the code has three colours that are treated    *)
(* alike and apart.  The strength is counted in 256ths of a pass.          *)
(***************************************************************************)
EXTENDS Integers, Functions

CONSTANTS
    Width, Height,
    Pixels,   \* the words textures are made of
    Strengths \* of the blur

Cells == (1..Height) \X (1..Width)

VARIABLES
    texture,  \* a function on Cells
    original, \* the texture as it was locked
    passes, weight, \* full passes still to do, and the weight of the fractional one
    stage,    \* "blur", "correct" or "done"
    pre, post \* the brightness before and after the blur

vars == <<texture, original, passes, weight, stage, pre, post>>

Colour(pixel) == pixel % 256
Alpha(pixel) == pixel \div 256
Pixel(alpha, colour) == 256 * alpha + colour

-----------------------------------------------------------------------------
\* The operators on words, bit by bit; a bit is named by its value.
Bit(word, value) == (word \div value) % 2
Byte(B(_)) == B(1) + 2 * B(2) + 4 * B(4) + 8 * B(8) + 16 * B(16) + 32 * B(32) + 64 * B(64) + 128 * B(128)
TwoBytes(B(_)) == Pixel(Byte(LAMBDA value : B(256 * value)), Byte(B))

And(a, b) == TwoBytes(LAMBDA value : (Bit(a, value) + Bit(b, value)) \div 2)
Xor(a, b) == TwoBytes(LAMBDA value : (Bit(a, value) + Bit(b, value)) % 2)

\* Mutant of FloorAvg: the bit that is shifted out of a byte enters the next one.
BleedingAvg(a, b) == And(a, b) + Xor(a, b) \div 2

\* (a & b) + (((a ^ b) >> 1) & 0x7F7F7F7F)
FloorAvg(a, b) == And(a, b) + And(Xor(a, b) \div 2, Pixel(127, 127))

Clamp(x, low, high) == IF x < low THEN low ELSE IF x > high THEN high ELSE x

Blend(a, b, alpha256) ==
    LET diff == (a + b + 1) \div 2 - a
    IN Clamp(a + (alpha256 * diff + 128) \div 256, 0, 255)

BlendTowardAvg(a, b, alpha256) ==
    Pixel(Blend(Alpha(a), Alpha(b), alpha256), Blend(Colour(a), Colour(b), alpha256))

\* A loop over the cells looks at a neighbour it has not reached yet, and leaves
\* the cells without one alone.
Sweep(t, dy, dx, Avg(_, _)) ==
    [c \in Cells |->
        LET next == <<c[1] + dy, c[2] + dx>>
        IN IF next \in Cells THEN Avg(t[c], t[next]) ELSE t[c]]

\* Left to right, right to left, top to bottom, bottom to top.
Pass(t, Avg(_, _)) == Sweep(Sweep(Sweep(Sweep(t, 0, 1, Avg), 0, -1, Avg), 1, 0, Avg), -1, 0, Avg)

ComputeChannelSum(t) == SumFunction([c \in Cells |-> Colour(t[c])])

\* safeCorr: the factor in 256ths, between 0.80 and 1.25.
SafeCorr(before, after) ==
    IF after = 0 THEN 256 ELSE Clamp((before * 256 + after \div 2) \div after, 204, 320)

Corrected(colour, corr) == Clamp((colour * corr + 128) \div 256, 0, 255)

-----------------------------------------------------------------------------
Init ==
    /\ texture \in [Cells -> Pixels]
    /\ original = texture
    /\ \E strength \in Strengths :
        /\ passes = strength \div 256
        /\ weight = strength % 256
        /\ stage = IF Width <= 1 \/ Height <= 1 \/ strength <= 0 THEN "done" ELSE "blur"
    /\ pre = ComputeChannelSum(texture) /\ post = pre

BlurPass ==
    /\ stage = "blur" /\ passes > 0
    /\ texture' = Pass(texture, FloorAvg)
    /\ passes' = passes - 1
    /\ UNCHANGED <<original, weight, stage, pre, post>>

FractionalPass ==
    /\ stage = "blur" /\ passes = 0
    /\ LET Avg(a, b) == BlendTowardAvg(a, b, weight)
       IN texture' = IF weight = 0 THEN texture ELSE Pass(texture, Avg)
    /\ post' = ComputeChannelSum(texture')
    /\ stage' = "correct"
    /\ UNCHANGED <<original, passes, weight, pre>>

ApplyBrightnessCorrection ==
    /\ stage = "correct" /\ stage' = "done"
    /\ LET corr == SafeCorr(pre, post)
       IN texture' = [c \in Cells |-> Pixel(Alpha(texture[c]), Corrected(Colour(texture[c]), corr))]
    /\ UNCHANGED <<original, passes, weight, pre, post>>

Next == BlurPass \/ FractionalPass \/ ApplyBrightnessCorrection

Spec == Init /\ [][Next]_vars

-----------------------------------------------------------------------------
Within(Channel(_), t) ==
    \A c \in Cells :
        /\ \E d \in Cells : Channel(original[d]) <= Channel(t[c])
        /\ \E d \in Cells : Channel(original[d]) >= Channel(t[c])

\* Before the correction no pass has taken a channel out of the range it had in
\* the texture: no byte bleeds into its neighbour in the packed average, none
\* overshoots in the weighted one.
BlurStaysInRange ==
    stage \in {"blur", "correct"} => Within(Colour, texture) /\ Within(Alpha, texture)

\* Where something is left and neither the factor nor a pixel is cut off, the
\* corrected brightness is the one before the blur, up to the rounding of the
\* factor and of each pixel ("Energy-preserving blur").
BrightnessIsKept ==
    LET lost == ComputeChannelSum(texture) - pre
        bound == Width * Height + post \div 256 + 1
    IN (/\ stage = "done" /\ post > 0 /\ SafeCorr(pre, post) \in 205..319
        /\ \A c \in Cells : Colour(texture[c]) < 255)
       => 2 * lost \in (-bound)..bound

=============================================================================
