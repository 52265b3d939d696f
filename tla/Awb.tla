-------------------------------- MODULE Awb --------------------------------
(***************************************************************************)
(* The automatic white balance of raspiraw: run_awb_calcs, with get_pixel  *)
(* and get_channel, on one frame.  The awb thread samples a 2x2 quad of    *)
(* pixels in every 16x16 square, keeps one sum per place in the quad,      *)
(* takes from the sums the averages of the three colours, and sets the     *)
(* gains of red and blue.                                                  *)
(*                                                                         *)
(* A frame is what the calculation sees of it: a sequence of sites, one    *)
(* per sample, around each of which the colour is the same.  The rows are  *)
(* packed into bytes as the sensor packs them, and get_pixel reads bytes.  *)
(***************************************************************************)
EXTENDS Integers, Sequences, FiniteSets, Raw12

CONSTANTS
    Depths,      \* bits per pixel, of 8, 10, 12 and 16
    Shades(_),   \* the values of a pixel of the given depth that are tried
    MaxSites     \* bound on the number of samples

ASSUME DepthsAssumption == Depths \subseteq {8, 10, 12, 16}
ASSUME MaxSitesAssumption == MaxSites \in Nat \ {0}
ASSUME ShadesAssumption == \A d \in Depths : Shades(d) \subseteq 0 .. 2^d - 1

Places == 0 .. 3                       \* of a quad, row by row
Colours == {"red", "green", "blue"}

\* enum bayer_order: the colours of a quad's places.
Orders == [BGGR |-> <<"blue", "green", "green", "red">>,
           GBRG |-> <<"green", "blue", "red", "green">>,
           GRBG |-> <<"green", "red", "blue", "green">>,
           RGGB |-> <<"red", "green", "green", "blue">>]

VARIABLES
    order,    \* mode->order, a member of DOMAIN Orders
    depth,    \* bits per pixel
    sites,    \* the frame: the colour at each sample
    count,    \* the samples taken
    sums,     \* sums[p]: the sum of the pixels read at place p
    gain      \* the numerators of the gains, of denominator 256

vars == <<order, depth, sites, count, sums, gain>>
frame == <<order, depth, sites>>

Frames(d) == UNION {[1 .. n -> [Colours -> Shades(d)]] : n \in 1 .. MaxSites}

Init == /\ order \in DOMAIN Orders
        /\ depth \in Depths
        /\ sites \in Frames(depth)
        /\ count = 0
        /\ sums = [p \in Places |-> 0]
        /\ gain = [red |-> 256, blue |-> 256]

-----------------------------------------------------------------------------
(* How a sensor packs a row: groups of pixels, their high bytes first, then *)
(* one byte with their low bits, the first pixel's lowest.                  *)

Group == IF depth = 10 THEN 4 ELSE 2           \* pixels in a group
Low == 2^(IF depth = 10 THEN 2 ELSE 4)         \* number of values of the low bits

\* The pixel in column x, counted from a sample's, of row y of the quad.
Pixel(s, x, y) == s[Orders[order][1 + 2 * y + (x % 2)]]

Byte(s, k, y) ==
    LET first == Group * (k \div (Group + 1))
        n == k % (Group + 1)
    IN  IF n < Group THEN Pixel(s, first + n, y) \div Low
        ELSE IF depth = 10
             THEN LET bits(i) == Pixel(s, first + i, y) % Low
                  IN  bits(0) + 4 * bits(1) + 16 * bits(2) + 64 * bits(3)
             ELSE (Pixel(s, first, y) % Low) + Low * (Pixel(s, first + 1, y) % Low)

\* Mutant: the byte with the low bits is neither masked nor shifted.
get_pixelUnshifted(s, x, y) ==
    IF depth \in {8, 16} THEN Pixel(s, x, y)
    ELSE Byte(s, x + x \div Group, y) * Low + Byte(s, x + x \div Group + Group, y)

\* get_pixel.  The byte with the low bits is looked for Group bytes after the pixel's
\* own: right for the first pixel of a group, too far for the others.
get_pixel(s, x, y) ==
    IF depth \in {8, 16} THEN Pixel(s, x, y)
    ELSE LET high == Byte(s, x + x \div Group, y)
             low == Byte(s, x + x \div Group + Group, y)
         IN  (high * Low) + ((low \div Low^(x % Group)) % Low)

-----------------------------------------------------------------------------
(* run_awb_calcs *)

\* Mutant: the lower row of the quad is read twice.
SampleRowTwice ==
    /\ count < Len(sites)
    /\ sums' = [p \in Places |-> sums[p] + get_pixel(sites[count + 1], p % 2, 1)]
    /\ count' = count + 1
    /\ UNCHANGED <<order, depth, sites, gain>>

Sample == /\ count < Len(sites)
          /\ sums' = [p \in Places |-> sums[p] + get_pixel(sites[count + 1], p % 2, p \div 2)]
          /\ count' = count + 1
          /\ UNCHANGED <<order, depth, sites, gain>>

\* get_channel(RED), (GREEN1), (GREEN2) and (BLUE): the place each is taken from.
Channel == [BGGR |-> <<3, 1, 2, 0>>, RGGB |-> <<0, 1, 2, 3>>,
            GBRG |-> <<1, 3, 0, 2>>, GRBG |-> <<1, 0, 3, 2>>]
get_channel(c) == sums[Channel[order][c]]

r_ave == get_channel(1) \div count
g_ave == (get_channel(2) + get_channel(3)) \div (2 * count)
b_ave == get_channel(4) \div count

\* The gains are set, with the FIXME's 1 against a division by 0; the frame is done.
SetGains == /\ count = Len(sites)
            /\ gain' = [red |-> (g_ave * 256) \div (r_ave + 1),
                        blue |-> (g_ave * 256) \div (b_ave + 1)]
            /\ count' = count + 1
            /\ UNCHANGED <<frame, sums>>

Next == Sample \/ SetGains

Spec == Init /\ [][Next]_vars
-----------------------------------------------------------------------------
(* Correctness *)

Done == count > Len(sites)

\* Mean(c): the frame's average of the colour c, from its pixels and not its bytes.
Mean(c) == LET total[i \in 0 .. Len(sites)] == IF i = 0 THEN 0 ELSE total[i - 1] + sites[i][c]
           IN  total[Len(sites)] \div Len(sites)

Abs(x) == IF x < 0 THEN -x ELSE x

\* The gain g lifts a colour of average m to that of green: m * g / 256 is green's
\* average, but for the low bits that get_pixel gets wrong and the 1 in the divisor.
Error == IF depth \in {8, 16} THEN 1 ELSE Low + 1
Lifts(g, c) == \E m \in Mean(c) - Error .. Mean(c) + Error :
                   \E v \in Mean("green") - Error .. Mean("green") + Error :
                       /\ m >= 0 /\ v >= 0
                       /\ g = (v * 256) \div (m + 1)

\* Whatever the depth, get_pixel is off by less than its low bits, and exact in the first
\* pixel of a group (raspiraw.c:1244-1279).
PixelsAreClose ==
    \A i \in 1 .. Len(sites), x \in 0 .. 7, y \in 0 .. 1 :
        LET err == Abs(get_pixel(sites[i], x, y) - Pixel(sites[i], x, y))
        IN  IF depth \in {8, 16} \/ x % Group = 0 THEN err = 0 ELSE err < Low

\* The converter, which finds the low bits elsewhere, splits each pixel of a row of twelve bits
\* right, so that the two pictures together have all of it (converter.c:24-37).
PicturesHoldPixels ==
    depth = 12 =>
        \A i \in 1 .. Len(sites), y \in 0 .. 1 :
            LET raw12 == [k \in 1 .. 6 |-> Byte(sites[i], k - 1, y)]
            IN  \A x \in 0 .. 3 :
                    /\ raw12_to_raw8_lo(raw12)[x] = Pixel(sites[i], x, y) % 256
                    /\ raw12_to_raw8_hi(raw12)[x] = Pixel(sites[i], x, y) \div 16

\* In the three orders whose quads get_channel reads right, the gains turn the frame's
\* average grey (raspiraw.c:1352-1359).
GreyWorldInThreeOrders ==
    Done /\ order # "GBRG" => Lifts(gain.red, "red") /\ Lifts(gain.blue, "blue")

\* raspiraw.c:226, "Use a simple grey-world AWB algorithm": in every order.
GreyWorld == Done => Lifts(gain.red, "red") /\ Lifts(gain.blue, "blue")
=============================================================================
