------------------------------ MODULE Awb_proofs ------------------------------
(***************************************************************************)
(* Proofs about the pixels of a frame, for every shade that a pixel of the *)
(* depth can have and frames of any length: how far get_pixel is off, and  *)
(* that the converter's two pictures hold all of a pixel of twelve bits.   *)
(***************************************************************************)
EXTENDS Awb, TLAPS

-----------------------------------------------------------------------------
(* The frame *)

\* The frame is one that Init allows.
FrameOK == /\ order \in DOMAIN Orders
           /\ depth \in Depths
           /\ sites \in Frames(depth)

\* The values of a pixel.
PixelValues(d) == 0 .. 2^d - 1

TypeOK == /\ FrameOK
          /\ count \in 0 .. Len(sites) + 1
          /\ sums \in [Places -> Nat]
          /\ gain \in [{"red", "blue"} -> Nat]

\* A frame has a sample, and each pixel around it is a value of its depth.
LEMMA PixelInRange ==
    ASSUME FrameOK
    PROVE  /\ depth \in {8, 10, 12, 16}
           /\ Len(sites) \in Nat /\ Len(sites) > 0
           /\ \A n \in 1 .. Len(sites), x \in Nat, y \in 0 .. 1 :
                 Pixel(sites[n], x, y) \in PixelValues(depth) /\ Pixel(sites[n], x, y) \in Nat
  <1>1. depth \in {8, 10, 12, 16} /\ Shades(depth) \subseteq PixelValues(depth)
    BY DepthsAssumption, ShadesAssumption DEF FrameOK, PixelValues
  <1>2. PICK m \in 1 .. MaxSites : sites \in [1 .. m -> [Colours -> Shades(depth)]]
    BY DEF FrameOK, Frames
  <1>3. m \in Nat /\ m > 0
    BY <1>2, MaxSitesAssumption
  <1>4. Len(sites) = m
    BY <1>2, <1>3
  <1>5. ASSUME NEW n \in 1 .. Len(sites), NEW x \in Nat, NEW y \in 0 .. 1
        PROVE  Pixel(sites[n], x, y) \in PixelValues(depth) /\ Pixel(sites[n], x, y) \in Nat
    <2>1. sites[n] \in [Colours -> Shades(depth)]
      BY <1>2, <1>4
    <2>2. 1 + 2 * y + (x % 2) \in 1 .. 4
      BY x % 2 \in 0 .. 1
    <2>3. \A p \in 1 .. 4 : Orders[order][p] \in Colours
      BY DEF FrameOK, Orders, Colours
    <2>4. Orders[order][1 + 2 * y + (x % 2)] \in Colours
      BY <2>2, <2>3
    <2>5. Pixel(sites[n], x, y) \in PixelValues(depth)
      BY <1>1, <2>1, <2>4 DEF Pixel
    <2> QED
      BY <2>5 DEF PixelValues
  <1> QED
    BY <1>1, <1>3, <1>4, <1>5

-----------------------------------------------------------------------------
(* Packed pixels *)

\* The sizes of a group, by depth.
LEMMA Packing ==
    /\ depth = 10 => Group = 4 /\ Low = 4
    /\ depth = 12 => Group = 2 /\ Low = 16
  BY 2^2 = 4, 2^4 = 16 DEF Group, Low

\* The byte that get_pixel reads first has the high bits of the pixel.
LEMMA HighByte ==
    ASSUME depth \in {10, 12}, NEW s, NEW x \in Nat, NEW y
    PROVE  Byte(s, x + x \div Group, y) = Pixel(s, x, y) \div Low
  <1> DEFINE k == x + x \div Group
  <1>1. CASE depth = 10
    <2>1. Group = 4
      BY <1>1, Packing
    <2>2. k % 5 < 4 /\ 4 * (k \div 5) + (k % 5) = x
      BY <2>1
    <2> HIDE DEF k
    <2>3. Byte(s, k, y) = Pixel(s, x, y) \div Low
      BY <2>1, <2>2 DEF Byte
    <2> QED
      BY <2>3 DEF k
  <1>2. CASE depth = 12
    <2>1. Group = 2
      BY <1>2, Packing
    <2>2. k % 3 < 2 /\ 2 * (k \div 3) + (k % 3) = x
      BY <2>1
    <2> HIDE DEF k
    <2>3. Byte(s, k, y) = Pixel(s, x, y) \div Low
      BY <2>1, <2>2 DEF Byte
    <2> QED
      BY <2>3 DEF k
  <1> QED
    BY <1>1, <1>2

\* The last byte of the group that begins with the pixel x has the low bits of each of its
\* pixels.
LEMMA LowByte ==
    ASSUME depth \in {10, 12}, NEW s, NEW x \in Nat, NEW y, x % Group = 0
    PROVE  Byte(s, x + x \div Group + Group, y)
              = IF depth = 10
                THEN (Pixel(s, x, y) % 4) + 4 * (Pixel(s, x + 1, y) % 4)
                        + 16 * (Pixel(s, x + 2, y) % 4) + 64 * (Pixel(s, x + 3, y) % 4)
                ELSE (Pixel(s, x, y) % 16) + 16 * (Pixel(s, x + 1, y) % 16)
  <1> DEFINE k == x + x \div Group + Group
  <1>1. CASE depth = 10
    <2>1. Group = 4 /\ Low = 4
      BY <1>1, Packing
    <2>2. 4 * (k \div 5) = x /\ k % 5 = 4 /\ x + 0 = x
      BY <2>1
    <2> HIDE DEF k
    <2>3. Byte(s, k, y) = (Pixel(s, x, y) % 4) + 4 * (Pixel(s, x + 1, y) % 4)
                        + 16 * (Pixel(s, x + 2, y) % 4) + 64 * (Pixel(s, x + 3, y) % 4)
      BY <1>1, <2>1, <2>2 DEF Byte
    <2> QED
      BY <1>1, <2>3 DEF k
  <1>2. CASE depth = 12
    <2>1. Group = 2 /\ Low = 16
      BY <1>2, Packing
    <2>2. 2 * (k \div 3) = x /\ k % 3 = 2
      BY <2>1
    <2> HIDE DEF k
    <2>3. Byte(s, k, y) = (Pixel(s, x, y) % 16) + 16 * (Pixel(s, x + 1, y) % 16)
      BY <1>2, <2>1, <2>2 DEF Byte
    <2> QED
      BY <1>2, <2>3 DEF k
  <1> QED
    BY <1>1, <1>2

\* Bytes are numbers.
LEMMA ByteIsNat ==
    ASSUME FrameOK, depth \in {10, 12}, NEW n \in 1 .. Len(sites), NEW k \in Nat,
           NEW y \in 0 .. 1
    PROVE  Byte(sites[n], k, y) \in Nat
  <1> DEFINE s == sites[n]
             pix(m) == Pixel(s, m, y)
  <1>1. \A m \in Nat : pix(m) \in Nat
    BY PixelInRange
  <1> HIDE DEF pix
  <1>2. CASE depth = 10
    <2>1. Group = 4 /\ Low = 4
      BY <1>2, Packing
    <2> DEFINE first == 4 * (k \div 5)
    <2>2. /\ first \in Nat /\ first + (k % 5) \in Nat
          /\ first + 0 \in Nat /\ first + 1 \in Nat /\ first + 2 \in Nat /\ first + 3 \in Nat
      OBVIOUS
    <2>3. CASE k % 5 < 4
      <3>1. Byte(s, k, y) = pix(first + (k % 5)) \div 4
        BY <2>1, <2>3 DEF Byte, pix
      <3>2. pix(first + (k % 5)) \in Nat
        BY <1>1, <2>2
      <3> HIDE DEF first
      <3>3. \A v \in Nat : v \div 4 \in Nat
        OBVIOUS
      <3> QED
        BY <3>1, <3>2, <3>3
    <2>4. CASE ~ (k % 5 < 4)
      <3>1. Byte(s, k, y)
               = (pix(first + 0) % 4) + 4 * (pix(first + 1) % 4)
                    + 16 * (pix(first + 2) % 4) + 64 * (pix(first + 3) % 4)
        BY <1>2, <2>1, <2>4 DEF Byte, pix
      <3> DEFINE a == pix(first + 0)
                 b == pix(first + 1)
                 c == pix(first + 2)
                 d == pix(first + 3)
      <3>2. a \in Nat /\ b \in Nat /\ c \in Nat /\ d \in Nat
        BY <1>1, <2>2
      <3>3. Byte(s, k, y) = (a % 4) + 4 * (b % 4) + 16 * (c % 4) + 64 * (d % 4)
        BY <3>1
      <3> HIDE DEF a, b, c, d
      <3> QED
        BY <3>2, <3>3
    <2> QED
      BY <2>3, <2>4
  <1>3. CASE depth = 12
    <2>1. Group = 2 /\ Low = 16
      BY <1>3, Packing
    <2> DEFINE first == 2 * (k \div 3)
    <2>2. first \in Nat /\ first + (k % 3) \in Nat /\ first + 1 \in Nat
      OBVIOUS
    <2>3. CASE k % 3 < 2
      <3>1. Byte(s, k, y) = pix(first + (k % 3)) \div 16
        BY <2>1, <2>3 DEF Byte, pix
      <3>2. pix(first + (k % 3)) \in Nat
        BY <1>1, <2>2
      <3> HIDE DEF first
      <3>3. \A v \in Nat : v \div 16 \in Nat
        OBVIOUS
      <3> QED
        BY <3>1, <3>2, <3>3
    <2>4. CASE ~ (k % 3 < 2)
      <3>1. Byte(s, k, y) = (pix(first) % 16) + 16 * (pix(first + 1) % 16)
        BY <1>3, <2>1, <2>4 DEF Byte, pix
      <3> DEFINE a == pix(first)
                 b == pix(first + 1)
      <3>2. a \in Nat /\ b \in Nat
        BY <1>1, <2>2
      <3>3. Byte(s, k, y) = (a % 16) + 16 * (b % 16)
        BY <3>1
      <3> HIDE DEF a, b
      <3> QED
        BY <3>2, <3>3
    <2> QED
      BY <2>3, <2>4
  <1> QED
    BY <1>2, <1>3

\* get_pixel is off by less than its low bits, and exact in the first pixel of a group.
LEMMA GetPixelIsClose ==
    ASSUME FrameOK, NEW n \in 1 .. Len(sites), NEW x \in Nat, NEW y \in 0 .. 1
    PROVE  LET p == get_pixel(sites[n], x, y)
               v == Pixel(sites[n], x, y)
           IN  /\ p \in Nat
               /\ IF depth \in {8, 16} \/ x % Group = 0 THEN p = v
                  ELSE p - v < Low /\ v - p < Low
  <1> DEFINE s == sites[n]
             p == get_pixel(s, x, y)
             v == Pixel(s, x, y)
             high == Byte(s, x + x \div Group, y)
             low == Byte(s, x + x \div Group + Group, y)
  <1>1. v \in PixelValues(depth) /\ depth \in {8, 10, 12, 16}
    BY PixelInRange
  <1>2. v \in Nat
    BY PixelInRange
  <1>3. CASE depth \in {8, 16}
    BY <1>2, <1>3 DEF get_pixel
  <1>4. CASE depth \in {10, 12}
    <2>1. p = (high * Low) + ((low \div Low^(x % Group)) % Low)
      BY <1>4 DEF get_pixel
    <2>2. high = v \div Low
      BY <1>4, HighByte
    <2>3. Low \in {4, 16} /\ Group \in {2, 4}
      BY <1>4, Packing
    <2>6. low \in Nat
      <3> DEFINE k == x + x \div Group + Group
      <3>1. Group = 2 => k \in Nat
        OBVIOUS
      <3>2. Group = 4 => k \in Nat
        OBVIOUS
      <3>3. k \in Nat
        BY <2>3, <3>1, <3>2
      <3> HIDE DEF k
      <3>4. Byte(s, k, y) \in Nat
        BY <1>4, <3>3, ByteIsNat
      <3> QED
        BY <3>4 DEF k
    <2> HIDE DEF high, low, v, p
    <2>4. CASE x % Group = 0
      <3>1. low % Low = v % Low
        <4>1. low = IF depth = 10
                    THEN (Pixel(s, x, y) % 4) + 4 * (Pixel(s, x + 1, y) % 4)
                            + 16 * (Pixel(s, x + 2, y) % 4) + 64 * (Pixel(s, x + 3, y) % 4)
                    ELSE (Pixel(s, x, y) % 16) + 16 * (Pixel(s, x + 1, y) % 16)
          BY <1>4, <2>4, LowByte DEF low
        <4> DEFINE a == Pixel(s, x + 1, y)
                   b == Pixel(s, x + 2, y)
                   c == Pixel(s, x + 3, y)
        <4>2. x + 1 \in Nat /\ x + 2 \in Nat /\ x + 3 \in Nat
          OBVIOUS
        <4>3. a \in Nat /\ b \in Nat /\ c \in Nat
          BY <4>2, PixelInRange
        <4>4. low = IF depth = 10 THEN (v % 4) + 4 * (a % 4) + 16 * (b % 4) + 64 * (c % 4)
                    ELSE (v % 16) + 16 * (a % 16)
          BY <4>1 DEF v
        <4> HIDE DEF a, b, c
        <4>5. CASE depth = 10
          BY <1>2, <4>3, <4>4, <4>5, Packing
        <4>6. CASE depth = 12
          BY <1>2, <4>3, <4>4, <4>6, Packing
        <4> QED
          BY <1>4, <4>5, <4>6
      <3>2. Low^(x % Group) = 1
        BY <2>3, <2>4, 4^0 = 1, 16^0 = 1
      <3>3. p = (v \div Low) * Low + ((low \div 1) % Low)
        BY <2>1, <2>2, <3>2
      <3>4. p = (v \div Low) * Low + (v % Low)
        BY <2>6, <3>1, <3>3, low \div 1 = low
      <3>5. p = v
        <4>1. CASE Low = 4
          BY <1>2, <3>4, <4>1
        <4>2. CASE Low = 16
          BY <1>2, <3>4, <4>2
        <4> QED
          BY <2>3, <4>1, <4>2
      <3> QED
        BY <1>2, <2>4, <3>5 DEF p, v
    <2>5. CASE x % Group # 0
      <3> DEFINE z == Low^(x % Group)
                 bits == (low \div z) % Low
      <3>1. z \in Nat /\ z > 0
        <4>1. x % Group \in {1, 2, 3}
          BY <2>3, <2>5
        <4>2. z \in {4^1, 4^2, 4^3, 16^1, 16^2, 16^3}
          <5> DEFINE e == x % Group
          <5>1. e \in {1, 2, 3} /\ Low \in {4, 16}
            BY <2>3, <4>1
          <5> HIDE DEF e
          <5>2. Low^e \in {4^1, 4^2, 4^3, 16^1, 16^2, 16^3}
            BY <5>1, Zenon
          <5> QED
            BY <5>2 DEF e
        <4> QED
          BY <4>2, 4^1 = 4, 4^2 = 16, 4^3 = 64, 16^1 = 16, 16^2 = 256, 16^3 = 4096
      <3> HIDE DEF z
      <3>2. low \div z \in Int
        BY <2>6, <3>1
      <3>3. bits \in 0 .. Low - 1
        BY <2>3, <3>2
      <3>4. p = (v \div Low) * Low + bits
        BY <2>1, <2>2 DEF z
      <3> HIDE DEF bits
      <3>5. p \in Nat /\ p - v < Low /\ v - p < Low
        <4>1. CASE Low = 4
          BY <1>2, <3>3, <3>4, <4>1
        <4>2. CASE Low = 16
          BY <1>2, <3>3, <3>4, <4>2
        <4> QED
          BY <2>3, <4>1, <4>2
      <3> QED
        BY <1>4, <2>5, <3>5 DEF p, v
    <2> QED
      BY <2>4, <2>5
  <1> QED
    BY <1>1, <1>3, <1>4

\* The converter's pictures have the low and the high bits of each pixel of two groups.
LEMMA PicturesAreRight ==
    ASSUME FrameOK, depth = 12, NEW n \in 1 .. Len(sites), NEW y \in 0 .. 1, NEW x \in 0 .. 3
    PROVE  LET raw12 == [k \in 1 .. 6 |-> Byte(sites[n], k - 1, y)]
           IN  /\ raw12_to_raw8_lo(raw12)[x] = Pixel(sites[n], x, y) % 256
               /\ raw12_to_raw8_hi(raw12)[x] = Pixel(sites[n], x, y) \div 16
  <1> DEFINE s == sites[n]
             raw12 == [k \in 1 .. 6 |-> Byte(s, k - 1, y)]
             first == x - (x % 2)
             high == raw12[FirstByte(x) + (x % 2)]
             low == raw12[FirstByte(x) + 2]
             v == Pixel(s, x, y)
             a == Pixel(s, first, y)
             b == Pixel(s, first + 1, y)
  <1>1. Group = 2 /\ Low = 16
    BY Packing
  <1>2. x \in Nat /\ first \in Nat /\ first + 1 \in Nat /\ first % 2 = 0
        /\ (x % 2 = 0 => x = first) /\ (x % 2 # 0 => x = first + 1)
    OBVIOUS
  <1>3. v \in 0 .. 4095 /\ v \in Nat /\ a \in Nat /\ b \in Nat
        /\ (x % 2 = 0 => v = a) /\ (x % 2 # 0 => v = b)
    <2>1. v \in PixelValues(12) /\ v \in Nat /\ a \in Nat /\ b \in Nat
      BY <1>2, PixelInRange
    <2>2. PixelValues(12) = 0 .. 4095
      BY 2^12 = 4096 DEF PixelValues
    <2> QED
      BY <1>2, <2>1, <2>2
  <1>4. Len(raw12) = 6
    OBVIOUS
  <1>5. high = v \div 16
    <2>1. FirstByte(x) + (x % 2) \in 1 .. 6
          /\ (FirstByte(x) + (x % 2)) - 1 = x + x \div 2
      BY DEF FirstByte
    <2>2. high = Byte(s, x + x \div 2, y)
      BY <2>1
    <2> QED
      BY <1>1, <1>2, <2>2, HighByte
  <1>6. low = (a % 16) + 16 * (b % 16)
    <2>1. FirstByte(x) + 2 \in 1 .. 6 /\ (FirstByte(x) + 2) - 1 = first + first \div 2 + 2
      BY DEF FirstByte
    <2>2. low = Byte(s, first + first \div 2 + 2, y)
      BY <2>1
    <2> HIDE DEF first, low
    <2>3. Byte(s, first + first \div Group + Group, y)
             = (Pixel(s, first, y) % 16) + 16 * (Pixel(s, first + 1, y) % 16)
      BY <1>1, <1>2, LowByte
    <2> QED
      BY <1>1, <2>2, <2>3
  <1>7. x \in Columns(raw12)
    BY <1>4 DEF Columns
  <1> HIDE DEF v, a, b, first
  <1>8. Nibble(low, x) = v % 16
    BY <1>3, <1>6 DEF Nibble
  <1>9. raw12_to_raw8_hi(raw12)[x] = high
    BY <1>7 DEF raw12_to_raw8_hi
  <1>10. raw12_to_raw8_lo(raw12)[x] = ((high * 16) % 256) + Nibble(low, x)
    BY <1>7 DEF raw12_to_raw8_lo
  <1> HIDE DEF high, low
  <1>11. ((high * 16) % 256) + Nibble(low, x) = v % 256
    BY <1>3, <1>5, <1>8
  <1> QED
    BY <1>5, <1>9, <1>10, <1>11 DEF v

-----------------------------------------------------------------------------
(* The invariant *)

\* The frame is as Init allows, the sums and the gains are zero.
LEMMA InitHolds == Init => TypeOK
  <1> SUFFICES ASSUME Init
               PROVE  TypeOK
    OBVIOUS
  <1>1. FrameOK
    BY DEF Init, FrameOK
  <1>2. Len(sites) \in Nat
    BY <1>1, PixelInRange
  <1>3. gain \in [{"red", "blue"} -> Nat]
    BY DEF Init
  <1>4. sums \in [Places -> Nat]
    BY DEF Init
  <1> QED
    BY <1>1, <1>2, <1>3, <1>4 DEF Init, TypeOK

\* Each step keeps the frame, and divides by a number of samples that is not zero.
LEMMA NextKeeps == TypeOK /\ [Next]_vars => TypeOK'
  <1> SUFFICES ASSUME TypeOK, [Next]_vars
               PROVE  TypeOK'
    OBVIOUS
  <1>1. FrameOK /\ Len(sites) \in Nat /\ Len(sites) > 0 /\ count \in 0 .. Len(sites) + 1
        /\ sums \in [Places -> Nat]
    BY PixelInRange DEF TypeOK
  <1>2. CASE Sample
    <2>1. /\ count < Len(sites) /\ count' = count + 1
          /\ sums' = [p \in Places |-> sums[p] + get_pixel(sites[count + 1], p % 2, p \div 2)]
          /\ UNCHANGED <<order, depth, sites, gain>>
      BY <1>2 DEF Sample
    <2>2. count + 1 \in 1 .. Len(sites)
      BY <1>1, <2>1
    <2>3. ASSUME NEW p \in Places
          PROVE  sums[p] + get_pixel(sites[count + 1], p % 2, p \div 2) \in Nat
      <3>1. p % 2 \in Nat /\ p \div 2 \in 0 .. 1
        BY DEF Places
      <3>2. get_pixel(sites[count + 1], p % 2, p \div 2) \in Nat
        BY <1>1, <2>2, <3>1, GetPixelIsClose
      <3>3. sums[p] \in Nat
        BY <1>1
      <3> QED
        BY <3>2, <3>3
    <2>4. sums' \in [Places -> Nat]
      BY <2>1, <2>3
    <2>5. count' \in 0 .. Len(sites) + 1
      BY <1>1, <2>1, <2>2
    <2> QED
      BY <1>1, <2>1, <2>4, <2>5 DEF TypeOK, FrameOK, Frames
  <1>3. CASE SetGains
    <2>1. /\ count = Len(sites) /\ count' = count + 1
          /\ gain' = [red |-> (g_ave * 256) \div (r_ave + 1),
                      blue |-> (g_ave * 256) \div (b_ave + 1)]
          /\ UNCHANGED <<order, depth, sites, sums>>
      BY <1>3 DEF SetGains, frame
    <2>2. \A c \in 1 .. 4 : get_channel(c) \in Nat
      <3>1. \A c \in 1 .. 4 : Channel[order][c] \in Places
        BY <1>1 DEF FrameOK, Orders, Channel, Places
      <3> QED
        BY <1>1, <3>1 DEF get_channel
    <2>3. \A m \in Nat, d \in Nat : d > 0 => m \div d \in Nat
      OBVIOUS
    <2>4. count \in Nat /\ count > 0 /\ 2 * count \in Nat /\ 2 * count > 0
      BY <1>1, <2>1
    <2>5. r_ave \in Nat /\ b_ave \in Nat
      BY <2>2, <2>3, <2>4 DEF r_ave, b_ave
    <2>6. g_ave \in Nat
      <3>1. get_channel(2) + get_channel(3) \in Nat
        BY <2>2
      <3> QED
        BY <2>3, <2>4, <3>1 DEF g_ave
    <2>7. (g_ave * 256) \div (r_ave + 1) \in Nat /\ (g_ave * 256) \div (b_ave + 1) \in Nat
      BY <2>3, <2>5, <2>6
    <2>8. gain' \in [{"red", "blue"} -> Nat]
      BY <2>1, <2>7
    <2>9. count' \in 0 .. Len(sites) + 1
      BY <1>1, <2>1
    <2> QED
      BY <1>1, <2>1, <2>8, <2>9 DEF TypeOK, FrameOK, Frames
  <1>4. CASE UNCHANGED vars
    BY <1>4 DEF vars, TypeOK, FrameOK, Frames
  <1> QED
    BY <1>2, <1>3, <1>4 DEF Next

\* The calculation stays within its types: no average is taken of no samples, and no gain
\* is negative.
THEOREM TypeCorrect == Spec => []TypeOK
  <1> QED
    BY InitHolds, NextKeeps, PTL DEF Spec

-----------------------------------------------------------------------------
(* What it implies *)

\* The white balance reads each pixel to within its low bits (raspiraw.c:1244-1279).
THEOREM PixelsAreReadClosely == Spec => []PixelsAreClose
  <1>1. TypeOK => PixelsAreClose
    <2> SUFFICES ASSUME TypeOK, NEW n \in 1 .. Len(sites), NEW x \in 0 .. 7, NEW y \in 0 .. 1
                 PROVE  LET err == Abs(get_pixel(sites[n], x, y) - Pixel(sites[n], x, y))
                        IN  IF depth \in {8, 16} \/ x % Group = 0 THEN err = 0 ELSE err < Low
      BY DEF PixelsAreClose
    <2> DEFINE p == get_pixel(sites[n], x, y)
               v == Pixel(sites[n], x, y)
    <2>1. /\ p \in Nat /\ v \in Nat
          /\ IF depth \in {8, 16} \/ x % Group = 0 THEN p = v ELSE p - v < Low /\ v - p < Low
      <3>1. FrameOK /\ x \in Nat
        BY DEF TypeOK
      <3>2. v \in Nat
        BY <3>1, PixelInRange
      <3> QED
        BY <3>1, <3>2, GetPixelIsClose
    <2>2. depth \in {10, 12} => Low \in {4, 16}
      BY Packing
    <2>3. depth \in {8, 10, 12, 16}
      BY PixelInRange DEF TypeOK
    <2> HIDE DEF p, v
    <2>4. IF depth \in {8, 16} \/ x % Group = 0 THEN Abs(p - v) = 0 ELSE Abs(p - v) < Low
      BY <2>1, <2>2, <2>3 DEF Abs
    <2> QED
      BY <2>4 DEF p, v
  <1> QED
    BY <1>1, TypeCorrect, PTL

\* Together the converter's two pictures have each pixel (converter.c:24-37).
THEOREM PicturesAreWhole == Spec => []PicturesHoldPixels
  <1>1. TypeOK => PicturesHoldPixels
    BY PicturesAreRight DEF TypeOK, PicturesHoldPixels
  <1> QED
    BY <1>1, TypeCorrect, PTL
=============================================================================
