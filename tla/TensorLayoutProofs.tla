------------------------- MODULE TensorLayoutProofs -------------------------
(***************************************************************************)
(* The layouts of TensorLayout put the elements of a matrix of any size    *)
(* that main() lets through to different places, fill the buffer with them *)
(* and stay inside it.                                                     *)
(***************************************************************************)
EXTENDS TensorLayout, TLAPS

-----------------------------------------------------------------------------
(* Numbers of two digits: p is the upper one, a the lower one to base B.   *)

LEMMA DigitsInRange ==
  ASSUME NEW B \in Nat \ {0}, NEW P \in Nat \ {0}, NEW p \in 0..P-1, NEW a \in 0..B-1
  PROVE  p * B + a \in 0 .. P * B - 1
<1>1. p * B >= 0 /\ p * B <= (P - 1) * B /\ (P - 1) * B = P * B - B
  OBVIOUS
<1>2. p * B \in Int /\ P * B \in Int
  OBVIOUS
<1> QED
  BY <1>1, <1>2

LEMMA DigitsUnique ==
  ASSUME NEW B \in Nat \ {0}, NEW p \in Nat, NEW q \in Nat,
         NEW a \in 0..B-1, NEW b \in 0..B-1, p * B + a = q * B + b
  PROVE  p = q /\ a = b
<1>1. \A x, y \in Nat : x < y => x * B + B <= y * B
  <2> SUFFICES ASSUME NEW x \in Nat, NEW y \in Nat, x < y PROVE x * B + B <= y * B
    OBVIOUS
  <2>1. (x + 1) * B <= y * B
    OBVIOUS
  <2>2. (x + 1) * B = x * B + B
    OBVIOUS
  <2> QED
    BY <2>1, <2>2
<1>2. p * B \in Int /\ q * B \in Int
  OBVIOUS
<1>3. ~(p < q) /\ ~(q < p)
  BY <1>1, <1>2
<1>4. p = q
  BY <1>3
<1> QED
  BY <1>2, <1>4

LEMMA DigitsExist ==
  ASSUME NEW B \in Nat \ {0}, NEW P \in Nat \ {0}, NEW x \in 0 .. P * B - 1
  PROVE  \E p \in 0..P-1, a \in 0..B-1 : x = p * B + a
<1> DEFINE p == x \div B
           a == x % B
<1>1. p \in Int /\ a \in 0..B-1 /\ x = p * B + a
  OBVIOUS
<1>2. p >= 0
  OBVIOUS
<1>3. p < P
  OBVIOUS
<1>4. p \in 0..P-1 /\ a \in 0..B-1 /\ x = p * B + a
  BY <1>1, <1>2, <1>3
<1> QED
  BY <1>4

-----------------------------------------------------------------------------
(* A place has three digits.  Weights: the group of kernels, the block of  *)
(* channels, and the place in the block.  Features: the plane of channels, *)
(* the row, and the channel in the plane.                                  *)
BlockSize(l) == CASE l.tensor = "weights"  -> 512
                  [] l.tensor = "weights8" -> 1024
                  [] l.tensor = "input"    -> 8
                  [] l.tensor = "output"   -> 4

Uppers(l) == CASE l.tensor = "weights"  -> l.rows \div 16
               [] l.tensor = "weights8" -> l.rows \div 32
               [] l.tensor = "input"    -> l.cols \div 8
               [] l.tensor = "output"   -> l.cols \div 4

Middles(l) == IF l.tensor \in {"weights", "weights8"} THEN l.cols \div 32 ELSE l.rows

Upper(l, r, c) == CASE l.tensor = "weights"  -> (r - 1) \div 16
                    [] l.tensor = "weights8" -> (r - 1) \div 32
                    [] l.tensor = "input"    -> (c - 1) \div 8
                    [] l.tensor = "output"   -> (c - 1) \div 4

Middle(l, r, c) == IF l.tensor \in {"weights", "weights8"} THEN (c - 1) \div 32 ELSE r - 1

Rest(l, r, c) == CASE l.tensor = "weights"  -> 32 * ((r - 1) % 16) + ((c - 1) % 32)
                   [] l.tensor = "weights8" -> 32 * ((r - 1) % 32) + ((c - 1) % 32)
                   [] l.tensor = "input"    -> (c - 1) % 8
                   [] l.tensor = "output"   -> (c - 1) % 4

LEMMA Dimensions ==
  ASSUME NEW l \in Loops
  PROVE  /\ l.rows \in Nat \ {0} /\ l.cols \in Nat \ {0}
         /\ \/ l.tensor = "weights"  /\ l.rows % 16 = 0 /\ l.cols % 32 = 0
            \/ l.tensor = "weights8" /\ l.rows % 32 = 0 /\ l.cols % 32 = 0
            \/ l.tensor = "input"    /\ l.cols % 32 = 0
            \/ l.tensor = "output"   /\ l.cols % 16 = 0
BY LoopsAssumption, MultiplesAssumption DEF Tensors, Multiples

(* The blocks fill the buffer.                                             *)
LEMMA BlocksFill ==
  ASSUME NEW l \in Loops
  PROVE  /\ BlockSize(l) \in Nat \ {0} /\ Uppers(l) \in Nat \ {0} /\ Middles(l) \in Nat \ {0}
         /\ (Uppers(l) * Middles(l)) * BlockSize(l) = l.rows * l.cols
<1> DEFINE m == l.rows
           n == l.cols
<1>0. m \in Nat \ {0} /\ n \in Nat \ {0}
  BY Dimensions
<1>1. CASE l.tensor = "weights"
  <2>1. PICK g \in Nat \ {0}, b \in Nat \ {0} : m = 16 * g /\ n = 32 * b
    <3>1. m % 16 = 0 /\ n % 32 = 0
      BY <1>1, Dimensions
    <3>2. m = 16 * (m \div 16) /\ n = 32 * (n \div 32)
      BY <1>0, <3>1
    <3> QED
      BY <1>0, <3>2
  <2>2. m \div 16 = g /\ n \div 32 = b
    BY <2>1
  <2>3. (g * b) * 512 = (16 * g) * (32 * b)
    OBVIOUS
  <2> QED
    BY <1>1, <2>1, <2>2, <2>3 DEF BlockSize, Uppers, Middles
<1>2. CASE l.tensor = "weights8"
  <2>1. PICK g \in Nat \ {0}, b \in Nat \ {0} : m = 32 * g /\ n = 32 * b
    <3>1. m % 32 = 0 /\ n % 32 = 0
      BY <1>2, Dimensions
    <3>2. m = 32 * (m \div 32) /\ n = 32 * (n \div 32)
      BY <1>0, <3>1
    <3> QED
      BY <1>0, <3>2
  <2>2. m \div 32 = g /\ n \div 32 = b
    BY <2>1
  <2>3. (g * b) * 1024 = (32 * g) * (32 * b)
    OBVIOUS
  <2> QED
    BY <1>2, <2>1, <2>2, <2>3 DEF BlockSize, Uppers, Middles
<1>3. CASE l.tensor = "input"
  <2>1. PICK b \in Nat \ {0} : n = 8 * b
    <3>1. n % 32 = 0
      BY <1>3, Dimensions
    <3>2. n = 8 * (n \div 8)
      BY <1>0, <3>1
    <3> QED
      BY <1>0, <3>2
  <2>2. n \div 8 = b
    BY <2>1
  <2>3. (b * m) * 8 = m * (8 * b)
    BY <1>0
  <2> QED
    BY <1>0, <1>3, <2>1, <2>2, <2>3 DEF BlockSize, Uppers, Middles
<1>4. CASE l.tensor = "output"
  <2>1. PICK b \in Nat \ {0} : n = 4 * b
    <3>1. n % 16 = 0
      BY <1>4, Dimensions
    <3>2. n = 4 * (n \div 4)
      BY <1>0, <3>1
    <3> QED
      BY <1>0, <3>2
  <2>2. n \div 4 = b
    BY <2>1
  <2>3. (b * m) * 4 = m * (4 * b)
    BY <1>0
  <2> QED
    BY <1>0, <1>4, <2>1, <2>2, <2>3 DEF BlockSize, Uppers, Middles
<1> QED
  BY <1>1, <1>2, <1>3, <1>4, Dimensions

(* The three digits of an element are within their ranges ...              *)
LEMMA DigitRanges ==
  ASSUME NEW l \in Loops, NEW r \in 1..l.rows, NEW c \in 1..l.cols
  PROVE  /\ Upper(l, r, c) \in 0..Uppers(l)-1
         /\ Middle(l, r, c) \in 0..Middles(l)-1
         /\ Rest(l, r, c) \in 0..BlockSize(l)-1
<1> DEFINE m == l.rows
           n == l.cols
<1>0. m \in Nat \ {0} /\ n \in Nat \ {0} /\ r \in 1..m /\ c \in 1..n
  BY Dimensions
<1>1. CASE l.tensor = "weights"
  <2>1. m % 16 = 0 /\ n % 32 = 0
    BY <1>1, Dimensions
  <2>2. (r - 1) \div 16 \in 0 .. m \div 16 - 1
    BY <1>0, <2>1
  <2>3. (c - 1) \div 32 \in 0 .. n \div 32 - 1
    BY <1>0, <2>1
  <2>4. (r - 1) % 16 \in 0..15 /\ (c - 1) % 32 \in 0..31
    BY <1>0
  <2>5. 32 * ((r - 1) % 16) + ((c - 1) % 32) \in 0..511
    BY <2>4
  <2> QED
    BY <1>1, <2>2, <2>3, <2>5 DEF Upper, Uppers, Middle, Middles, Rest, BlockSize
<1>2. CASE l.tensor = "weights8"
  <2>1. m % 32 = 0 /\ n % 32 = 0
    BY <1>2, Dimensions
  <2>2. (r - 1) \div 32 \in 0 .. m \div 32 - 1
    BY <1>0, <2>1
  <2>3. (c - 1) \div 32 \in 0 .. n \div 32 - 1
    BY <1>0, <2>1
  <2>4. (r - 1) % 32 \in 0..31 /\ (c - 1) % 32 \in 0..31
    BY <1>0
  <2>5. 32 * ((r - 1) % 32) + ((c - 1) % 32) \in 0..1023
    BY <2>4
  <2> QED
    BY <1>2, <2>2, <2>3, <2>5 DEF Upper, Uppers, Middle, Middles, Rest, BlockSize
<1>3. CASE l.tensor = "input"
  <2>1. n % 8 = 0
    BY <1>0, <1>3, Dimensions
  <2> QED
    BY <1>0, <1>3, <2>1 DEF Upper, Uppers, Middle, Middles, Rest, BlockSize
<1>4. CASE l.tensor = "output"
  <2>1. n % 4 = 0
    BY <1>0, <1>4, Dimensions
  <2> QED
    BY <1>0, <1>4, <2>1 DEF Upper, Uppers, Middle, Middles, Rest, BlockSize
<1> QED
  BY <1>1, <1>2, <1>3, <1>4, Dimensions

(* ... and its place is put together from them.                            *)
LEMMA PlaceDigits ==
  ASSUME NEW l \in Loops, NEW r \in 1..l.rows, NEW c \in 1..l.cols
  PROVE  Place(l, r, c)
           = (Upper(l, r, c) * Middles(l) + Middle(l, r, c)) * BlockSize(l) + Rest(l, r, c)
<1> DEFINE m == l.rows
           n == l.cols
<1>0. m \in Nat \ {0} /\ n \in Nat \ {0} /\ r \in Nat \ {0} /\ c \in Nat \ {0}
  BY Dimensions
<1>1. ASSUME n % 32 = 0 PROVE \E b \in Nat : n = 32 * b /\ n \div 32 = b
  BY <1>0, <1>1
<1>2. CASE l.tensor = "weights"
  <2> PICK b \in Nat : n = 32 * b /\ n \div 32 = b
    BY <1>1, <1>2, Dimensions
  <2> DEFINE g == (r - 1) \div 16
             k == (r - 1) % 16
             h == (c - 1) \div 32
             d == (c - 1) % 32
  <2>1. g \in Int /\ k \in Int /\ h \in Int /\ d \in Int
    BY <1>0
  <2>2. Place(l, r, c) = h * 32 * 16 + g * 16 * (32 * b) + d + k * 32
    BY <1>2 DEF Place, weight_fp16
  <2>3. Upper(l, r, c) = g /\ BlockSize(l) = 512
    BY <1>2 DEF Upper, BlockSize
  <2>6. Middle(l, r, c) = h /\ Middles(l) = b
    BY <1>2 DEF Middle, Middles
  <2>7. Rest(l, r, c) = 32 * k + d
    BY <1>2 DEF Rest
  <2> HIDE DEF g, k, h, d
  <2>4. h * 32 * 16 + g * 16 * (32 * b) + d + k * 32 = (g * b + h) * 512 + (32 * k + d)
    BY <2>1
  <2>5. Place(l, r, c) = (g * b + h) * 512 + (32 * k + d)
    BY <2>2, <2>4
  <2> QED
    BY <2>3, <2>5, <2>6, <2>7
<1>3. CASE l.tensor = "weights8"
  <2> PICK b \in Nat : n = 32 * b /\ n \div 32 = b
    BY <1>1, <1>3, Dimensions
  <2> DEFINE g == (r - 1) \div 32
             k == (r - 1) % 32
             h == (c - 1) \div 32
             d == (c - 1) % 32
  <2>1. g \in Int /\ k \in Int /\ h \in Int /\ d \in Int
    BY <1>0
  <2>2. Place(l, r, c) = h * 32 * 32 + g * 32 * (32 * b) + d + k * 32
    BY <1>3 DEF Place, weight_int8
  <2>3. Upper(l, r, c) = g /\ BlockSize(l) = 1024
    BY <1>3 DEF Upper, BlockSize
  <2>6. Middle(l, r, c) = h /\ Middles(l) = b
    BY <1>3 DEF Middle, Middles
  <2>7. Rest(l, r, c) = 32 * k + d
    BY <1>3 DEF Rest
  <2> HIDE DEF g, k, h, d
  <2>4. h * 32 * 32 + g * 32 * (32 * b) + d + k * 32 = (g * b + h) * 1024 + (32 * k + d)
    BY <2>1
  <2>5. Place(l, r, c) = (g * b + h) * 1024 + (32 * k + d)
    BY <2>2, <2>4
  <2> QED
    BY <2>3, <2>5, <2>6, <2>7
<1>4. CASE l.tensor = "input"
  BY <1>0, <1>4 DEF Place, feature_data, Upper, Middle, Middles, BlockSize, Rest
<1>5. CASE l.tensor = "output"
  BY <1>0, <1>5 DEF Place, feature_data, Upper, Middle, Middles, BlockSize, Rest
<1> QED
  BY <1>2, <1>3, <1>4, <1>5, Dimensions

(* An element is where its three digits say, and nowhere else.             *)
LEMMA DigitsDetermine ==
  ASSUME NEW l \in Loops, NEW r \in 1..l.rows, NEW c \in 1..l.cols,
         NEW s \in 1..l.rows, NEW d \in 1..l.cols,
         Upper(l, r, c) = Upper(l, s, d), Middle(l, r, c) = Middle(l, s, d),
         Rest(l, r, c) = Rest(l, s, d)
  PROVE  r = s /\ c = d
<1>0. r \in Nat \ {0} /\ c \in Nat \ {0} /\ s \in Nat \ {0} /\ d \in Nat \ {0}
  BY Dimensions
<1>1. CASE l.tensor = "weights"
  <2>1. (r - 1) \div 16 = (s - 1) \div 16 /\ (c - 1) \div 32 = (d - 1) \div 32
    BY <1>1 DEF Upper, Middle
  <2>2. 32 * ((r - 1) % 16) + ((c - 1) % 32) = 32 * ((s - 1) % 16) + ((d - 1) % 32)
    BY <1>1 DEF Rest
  <2> QED
    BY <1>0, <2>1, <2>2
<1>2. CASE l.tensor = "weights8"
  <2>1. (r - 1) \div 32 = (s - 1) \div 32 /\ (c - 1) \div 32 = (d - 1) \div 32
    BY <1>2 DEF Upper, Middle
  <2>2. 32 * ((r - 1) % 32) + ((c - 1) % 32) = 32 * ((s - 1) % 32) + ((d - 1) % 32)
    BY <1>2 DEF Rest
  <2> QED
    BY <1>0, <2>1, <2>2
<1>3. CASE l.tensor = "input"
  BY <1>0, <1>3 DEF Upper, Middle, Rest
<1>4. CASE l.tensor = "output"
  BY <1>0, <1>4 DEF Upper, Middle, Rest
<1> QED
  BY <1>1, <1>2, <1>3, <1>4, Dimensions

(* Every three digits are those of an element.                             *)
LEMMA DigitsNameElements ==
  ASSUME NEW l \in Loops, NEW u \in 0..Uppers(l)-1, NEW v \in 0..Middles(l)-1,
         NEW x \in 0..BlockSize(l)-1
  PROVE  \E r \in 1..l.rows, c \in 1..l.cols :
           Upper(l, r, c) = u /\ Middle(l, r, c) = v /\ Rest(l, r, c) = x
<1> DEFINE m == l.rows
           n == l.cols
<1>0. m \in Nat \ {0} /\ n \in Nat \ {0}
  BY Dimensions
<1>1. CASE l.tensor = "weights"
  <2> DEFINE r == 16 * u + (x \div 32) + 1
             c == 32 * v + (x % 32) + 1
  <2>1. m % 16 = 0 /\ n % 32 = 0 /\ u \in 0 .. m \div 16 - 1 /\ v \in 0 .. n \div 32 - 1 /\ x \in 0..511
    BY <1>1, Dimensions DEF Uppers, Middles, BlockSize
  <2>2. r \in 1..m /\ c \in 1..n
    BY <1>0, <2>1
  <2>3. (r - 1) \div 16 = u /\ (r - 1) % 16 = x \div 32 /\ (c - 1) \div 32 = v /\ (c - 1) % 32 = x % 32
    BY <2>1
  <2>4. 32 * (x \div 32) + (x % 32) = x
    BY <2>1
  <2>5. Upper(l, r, c) = u /\ Middle(l, r, c) = v /\ Rest(l, r, c) = x
    BY <1>1, <2>3, <2>4 DEF Upper, Middle, Rest
  <2> QED
    BY <2>2, <2>5
<1>2. CASE l.tensor = "weights8"
  <2> DEFINE r == 32 * u + (x \div 32) + 1
             c == 32 * v + (x % 32) + 1
  <2>1. m % 32 = 0 /\ n % 32 = 0 /\ u \in 0 .. m \div 32 - 1 /\ v \in 0 .. n \div 32 - 1 /\ x \in 0..1023
    BY <1>2, Dimensions DEF Uppers, Middles, BlockSize
  <2>2. r \in 1..m /\ c \in 1..n
    BY <1>0, <2>1
  <2>3. (r - 1) \div 32 = u /\ (r - 1) % 32 = x \div 32 /\ (c - 1) \div 32 = v /\ (c - 1) % 32 = x % 32
    BY <2>1
  <2>4. 32 * (x \div 32) + (x % 32) = x
    BY <2>1
  <2>5. Upper(l, r, c) = u /\ Middle(l, r, c) = v /\ Rest(l, r, c) = x
    BY <1>2, <2>3, <2>4 DEF Upper, Middle, Rest
  <2> QED
    BY <2>2, <2>5
<1>3. CASE l.tensor = "input"
  <2> DEFINE r == v + 1
             c == 8 * u + x + 1
  <2>1. n % 8 = 0 /\ u \in 0 .. n \div 8 - 1 /\ v \in 0..m-1 /\ x \in 0..7
    BY <1>0, <1>3, Dimensions DEF Uppers, Middles, BlockSize
  <2>2. r \in 1..m /\ c \in 1..n
    BY <1>0, <2>1
  <2>3. Upper(l, r, c) = u /\ Middle(l, r, c) = v /\ Rest(l, r, c) = x
    BY <1>3, <2>1 DEF Upper, Middle, Rest
  <2> QED
    BY <2>2, <2>3
<1>4. CASE l.tensor = "output"
  <2> DEFINE r == v + 1
             c == 4 * u + x + 1
  <2>1. n % 4 = 0 /\ u \in 0 .. n \div 4 - 1 /\ v \in 0..m-1 /\ x \in 0..3
    BY <1>0, <1>4, Dimensions DEF Uppers, Middles, BlockSize
  <2>2. r \in 1..m /\ c \in 1..n
    BY <1>0, <2>1
  <2>3. Upper(l, r, c) = u /\ Middle(l, r, c) = v /\ Rest(l, r, c) = x
    BY <1>4, <2>1 DEF Upper, Middle, Rest
  <2> QED
    BY <2>2, <2>3
<1> QED
  BY <1>1, <1>2, <1>3, <1>4, Dimensions

-----------------------------------------------------------------------------
(* The layout functions, as one-to-one maps of a matrix onto its buffer.   *)

(* feature_data, weight_fp16 and weight_int8 stay inside the buffer.       *)
THEOREM PlaceInBuffer ==
  ASSUME NEW l \in Loops, NEW r \in 1..l.rows, NEW c \in 1..l.cols
  PROVE  Place(l, r, c) \in 0 .. l.rows * l.cols - 1
<1>1. Upper(l, r, c) * Middles(l) + Middle(l, r, c) \in 0 .. Uppers(l) * Middles(l) - 1
  BY DigitRanges, BlocksFill, DigitsInRange
<1>2. Uppers(l) * Middles(l) \in Nat \ {0}
  BY BlocksFill
<1>3. (Upper(l, r, c) * Middles(l) + Middle(l, r, c)) * BlockSize(l) + Rest(l, r, c)
        \in 0 .. (Uppers(l) * Middles(l)) * BlockSize(l) - 1
  BY <1>1, <1>2, DigitRanges, BlocksFill, DigitsInRange
<1> QED
  BY <1>3, PlaceDigits, BlocksFill

(* They never give two elements of a matrix the same place.                *)
THEOREM PlacesDiffer ==
  ASSUME NEW l \in Loops, NEW r \in 1..l.rows, NEW c \in 1..l.cols,
         NEW s \in 1..l.rows, NEW d \in 1..l.cols, Place(l, r, c) = Place(l, s, d)
  PROVE  r = s /\ c = d
<1> DEFINE p == Upper(l, r, c) * Middles(l) + Middle(l, r, c)
           q == Upper(l, s, d) * Middles(l) + Middle(l, s, d)
<1>1. p \in Nat /\ q \in Nat
  BY DigitRanges, BlocksFill, DigitsInRange
<1>2. p * BlockSize(l) + Rest(l, r, c) = q * BlockSize(l) + Rest(l, s, d)
  BY PlaceDigits
<1>3. p = q /\ Rest(l, r, c) = Rest(l, s, d)
  <2> HIDE DEF p, q
  <2> QED
    BY <1>1, <1>2, DigitRanges, BlocksFill, DigitsUnique
<1>4. Upper(l, r, c) = Upper(l, s, d) /\ Middle(l, r, c) = Middle(l, s, d)
  <2>1. Upper(l, r, c) \in Nat /\ Upper(l, s, d) \in Nat
    BY DigitRanges, BlocksFill
  <2> QED
    BY <1>3, <2>1, DigitRanges, BlocksFill, DigitsUnique
<1> QED
  BY <1>3, <1>4, DigitsDetermine

(* And every place of the buffer is that of an element.                    *)
THEOREM PlacesFill ==
  ASSUME NEW l \in Loops, NEW i \in 0 .. l.rows * l.cols - 1
  PROVE  \E r \in 1..l.rows, c \in 1..l.cols : Place(l, r, c) = i
<1> DEFINE U == Uppers(l)
           M == Middles(l)
           Q == U * M
           S == BlockSize(l)
<1>1. /\ U \in Nat \ {0} /\ M \in Nat \ {0} /\ Q \in Nat \ {0} /\ S \in Nat \ {0}
      /\ i \in 0 .. Q * S - 1
  BY BlocksFill
<1>2. PICK q \in 0 .. Q - 1, x \in 0 .. S - 1 : i = q * S + x
  <2> HIDE DEF Q, S
  <2> QED
    BY <1>1, DigitsExist
<1>3. PICK u \in 0 .. U - 1, v \in 0 .. M - 1 : q = u * M + v
  <2> HIDE DEF U, M
  <2> QED
    BY <1>1, DigitsExist
<1>4. PICK r \in 1..l.rows, c \in 1..l.cols :
        Upper(l, r, c) = u /\ Middle(l, r, c) = v /\ Rest(l, r, c) = x
  BY DigitsNameElements
<1> QED
  BY <1>2, <1>3, <1>4, PlaceDigits

(* The multiple of 32 is needed: with any other number of int8 kernels, of *)
(* more than one block each, the last element of the last kernel is placed *)
(* behind the matrix (main()'s check of N asks for a multiple of 16).      *)
THEOREM PartialGroupLeavesBuffer ==
  ASSUME NEW K \in Nat, K > 32, K % 32 = 0, NEW N \in Nat, N % 32 # 0
  PROVE  weight_int8(K, N, K) >= N * K
<1> DEFINE q == K \div 32
           p == N \div 32
           s == N % 32
<1>1. q \in Nat /\ q >= 2 /\ K = 32 * q
  OBVIOUS
<1>2. p \in Nat /\ s \in 1..31 /\ N = 32 * p + s
  OBVIOUS
<1>3. (K - 1) \div 32 = q - 1 /\ (K - 1) % 32 = 31
  BY <1>1
<1>4. (N - 1) \div 32 = p /\ (N - 1) % 32 = s - 1
  BY <1>2
<1>5. weight_int8(K, N, K) = (q - 1) * 32 * 32 + p * 32 * K + 31 + (s - 1) * 32
  BY <1>3, <1>4 DEF weight_int8
<1> HIDE DEF q, p, s
<1> DEFINE pq == p * q
           qs == (q - 1) * s
<1>6. pq \in Int /\ qs \in Int
  BY <1>1, <1>2
<1>7. qs <= (q - 1) * 31
  BY <1>1, <1>2
<1>8. p * 32 * K = 1024 * pq
  BY <1>1, <1>2
<1>9. N * K = 1024 * pq + 32 * qs + 32 * s
  BY <1>1, <1>2
<1> HIDE DEF pq, qs
<1> QED
  BY <1>1, <1>2, <1>5, <1>6, <1>7, <1>8, <1>9

-----------------------------------------------------------------------------
(* The loops.                                                              *)

(* The loops have been at element (r, c).                                  *)
Visited(r, c) == r < row \/ (r = row /\ c < col)

CountersOK ==
  /\ loop \in Loops
  /\ row \in 1..loop.rows+1 /\ col \in 1..LastCol(loop)
  /\ row = loop.rows + 1 => col = 1
  /\ buf \in [0 .. loop.rows * loop.cols - 1 -> Nat]

(* Elements that have been visited are in their places ...                 *)
StoredInPlace ==
  \A r \in 1..loop.rows, c \in 1..LastCol(loop) :
    Visited(r, c) => buf[Place(loop, r, c)] = Number(loop, r, c)

(* ... and nothing else is in the buffer.                                  *)
NothingElseStored ==
  \A i \in DOMAIN buf : buf[i] # 0 =>
    \E r \in 1..loop.rows, c \in 1..LastCol(loop) : Visited(r, c) /\ Place(loop, r, c) = i

LayoutInv == CountersOK /\ StoredInPlace /\ NothingElseStored

LEMMA LastColumn ==
  ASSUME NEW l \in Loops
  PROVE  /\ LastCol(l) \in 1..l.cols
         /\ l.tensor # "output" => LastCol(l) = l.cols
BY Dimensions DEF LastCol

LEMMA NumberPositive ==
  ASSUME NEW l \in Loops, NEW r \in 1..l.rows, NEW c \in 1..l.cols
  PROVE  Number(l, r, c) \in Nat \ {0}
<1>1. (r - 1) * l.cols \in Nat
  <2>1. \A x, y \in Nat : x * y \in Nat
    OBVIOUS
  <2> QED
    BY <2>1, Dimensions
<1> QED
  BY <1>1, Dimensions DEF Number

LEMMA InitLayout == Init => LayoutInv
<1> SUFFICES ASSUME Init PROVE LayoutInv
  OBVIOUS
<1>1. loop \in Loops /\ row = 1 /\ col = 1
  BY DEF Init
<1>2. CountersOK
  BY <1>1, Dimensions, LastColumn DEF Init, CountersOK
<1>3. \A r \in 1..loop.rows, c \in 1..LastCol(loop) : ~Visited(r, c)
  BY <1>1, Dimensions, LastColumn DEF Visited
<1>4. \A i \in DOMAIN buf : buf[i] = 0
  BY DEF Init
<1> QED
  BY <1>2, <1>3, <1>4 DEF LayoutInv, StoredInPlace, NothingElseStored

(* A turn visits the element that is next and no other.                    *)
LEMMA TurnVisits ==
  ASSUME CountersOK, Turn, NEW r \in 1..loop.rows, NEW c \in 1..LastCol(loop)
  PROVE  Visited(r, c)' <=> Visited(r, c) \/ (r = row /\ c = col)
BY Dimensions, LastColumn DEF CountersOK, Turn, Running, Visited

LEMMA NextLayout == LayoutInv /\ [Turn]_vars => LayoutInv'
<1> SUFFICES ASSUME LayoutInv, [Turn]_vars PROVE LayoutInv'
  OBVIOUS
<1>0. CountersOK /\ StoredInPlace /\ NothingElseStored /\ loop \in Loops
  BY DEF LayoutInv, CountersOK
<1>1. CASE UNCHANGED vars
  BY <1>0, <1>1 DEF vars, LayoutInv, CountersOK, StoredInPlace, NothingElseStored, Visited
<1>2. CASE Turn
  <2> DEFINE p == Place(loop, row, col)
             k == Number(loop, row, col)
             m == loop.rows
             n == LastCol(loop)
  <2>1. row \in 1..m /\ col \in 1..n /\ 1..n \subseteq 1..loop.cols /\ UNCHANGED loop
    BY <1>0, <1>2, LastColumn, Dimensions DEF CountersOK, Turn, Running
  <2>2. p \in DOMAIN buf /\ DOMAIN buf = 0 .. loop.rows * loop.cols - 1
    BY <1>0, <2>1, PlaceInBuffer DEF CountersOK
  <2>3. k \in Nat \ {0}
    BY <1>0, <2>1, NumberPositive
  <2>4. buf' = [buf EXCEPT ![p] = k]
    BY <1>2 DEF Turn
  <2>5. CountersOK'
    <3>1. row' \in 1..m+1 /\ col' \in 1..n /\ (row' = m + 1 => col' = 1)
      BY <1>0, <1>2, <2>1, LastColumn, Dimensions DEF Turn
    <3>2. buf' \in [0 .. loop.rows * loop.cols - 1 -> Nat]
      BY <1>0, <2>2, <2>3, <2>4 DEF CountersOK
    <3>3. LastCol(loop)' = n
      BY <2>1 DEF LastCol
    <3> QED
      BY <1>0, <2>1, <3>1, <3>2, <3>3 DEF CountersOK
  <2>6. ASSUME NEW r \in 1..m, NEW c \in 1..n, Visited(r, c)'
        PROVE  buf'[Place(loop, r, c)] = Number(loop, r, c)
    <3>1. Place(loop, r, c) \in DOMAIN buf
      BY <1>0, <2>1, <2>2, PlaceInBuffer
    <3>2. CASE r = row /\ c = col
      BY <2>2, <2>4, <3>2
    <3>3. CASE ~(r = row /\ c = col)
      <4>1. Visited(r, c)
        BY <1>0, <1>2, <2>6, <3>3, TurnVisits
      <4>2. Place(loop, r, c) # p
        BY <1>0, <2>1, <3>3, PlacesDiffer
      <4> QED
        BY <1>0, <2>4, <3>1, <4>1, <4>2 DEF StoredInPlace
    <3> QED
      BY <3>2, <3>3
  <2>7. ASSUME NEW i \in DOMAIN buf, buf'[i] # 0
        PROVE  \E r \in 1..m, c \in 1..n : Visited(r, c)' /\ Place(loop, r, c) = i
    <3>1. CASE i = p
      BY <1>0, <1>2, <2>1, <3>1, TurnVisits
    <3>2. CASE i # p
      <4>1. buf[i] # 0
        BY <2>4, <2>7, <3>2
      <4>2. PICK r \in 1..m, c \in 1..n : Visited(r, c) /\ Place(loop, r, c) = i
        BY <1>0, <4>1 DEF NothingElseStored
      <4> QED
        BY <1>0, <1>2, <4>2, TurnVisits
    <3> QED
      BY <3>1, <3>2
  <2>8. /\ DOMAIN buf' = DOMAIN buf /\ LastCol(loop)' = n
        /\ \A r, c : Place(loop, r, c)' = Place(loop, r, c)
        /\ \A r, c : Number(loop, r, c)' = Number(loop, r, c)
    BY <2>1, <2>4 DEF LastCol, Place, Number, feature_data, weight_fp16, weight_int8
  <2>9. StoredInPlace'
    BY <2>1, <2>6, <2>8 DEF StoredInPlace
  <2>10. NothingElseStored'
    BY <2>1, <2>7, <2>8 DEF NothingElseStored
  <2> QED
    BY <2>5, <2>9, <2>10 DEF LayoutInv
<1> QED
  BY <1>1, <1>2

LEMMA LayoutInvariance == Spec => []LayoutInv
BY InitLayout, NextLayout, PTL DEF Spec

(* No loop stores, or looks, outside the buffer main() has allocated.      *)
THEOREM StaysInBuffer == Spec => []InBuffer
<1>1. LayoutInv => InBuffer
  <2> SUFFICES ASSUME LayoutInv, Running PROVE Place(loop, row, col) \in DOMAIN buf
    BY DEF InBuffer
  <2>1. loop \in Loops /\ row \in 1..loop.rows /\ col \in 1..loop.cols
    BY LastColumn, Dimensions DEF LayoutInv, CountersOK, Running
  <2> QED
    BY <2>1, PlaceInBuffer DEF LayoutInv, CountersOK
<1> QED
  BY LayoutInvariance, <1>1, PTL

(* What a loop has laid out is complete: no slot of the buffer is left as  *)
(* memset cleared it.                                                      *)
THEOREM LeavesNoPadding == Spec => []NoPadding
<1>1. LayoutInv => NoPadding
  <2> SUFFICES ASSUME LayoutInv, ~Running, loop.tensor # "output", NEW i \in DOMAIN buf
               PROVE  buf[i] # 0
    BY DEF NoPadding
  <2>1. loop \in Loops /\ LastCol(loop) = loop.cols /\ i \in 0 .. loop.rows * loop.cols - 1
    BY LastColumn DEF LayoutInv, CountersOK
  <2>2. PICK r \in 1..loop.rows, c \in 1..loop.cols : Place(loop, r, c) = i
    BY <2>1, PlacesFill
  <2>3. Visited(r, c)
    BY <2>1, Dimensions DEF LayoutInv, CountersOK, Running, Visited
  <2> QED
    BY <2>1, <2>2, <2>3, NumberPositive DEF LayoutInv, StoredInPlace
<1> QED
  BY LayoutInvariance, <1>1, PTL

(* No turn of a loop overwrites what an earlier one has stored.            *)
THEOREM OverwritesNothing == Spec => NothingOverwritten
<1>1. LayoutInv /\ [Turn]_vars => [\A i \in DOMAIN buf : buf[i] # 0 => buf'[i] = buf[i]]_vars
  <2> SUFFICES ASSUME LayoutInv, Turn, NEW i \in DOMAIN buf, buf[i] # 0
               PROVE  buf'[i] = buf[i]
    OBVIOUS
  <2>1. /\ loop \in Loops /\ row \in 1..loop.rows /\ col \in 1..loop.cols
        /\ 1..LastCol(loop) \subseteq 1..loop.cols
    BY LastColumn, Dimensions DEF LayoutInv, CountersOK, Turn, Running
  <2>2. PICK r \in 1..loop.rows, c \in 1..LastCol(loop) : Visited(r, c) /\ Place(loop, r, c) = i
    BY DEF LayoutInv, NothingElseStored
  <2>3. ~(r = row /\ c = col)
    BY <2>1, <2>2 DEF Visited
  <2>4. Place(loop, row, col) # i
    BY <2>1, <2>2, <2>3, PlacesDiffer
  <2> QED
    BY <2>4 DEF LayoutInv, CountersOK, Turn
<1> QED
  BY LayoutInvariance, <1>1, PTL DEF Spec, NothingOverwritten
=============================================================================
