---------------------------- MODULE Base64Proofs ----------------------------
(***************************************************************************)
(* Theorems about Base64: the regrouping of bits, for data and texts of    *)
(* any length.                                                             *)
(***************************************************************************)
EXTENDS Base64, SequenceTheorems, TLAPS

Pow(n) == 2 ^ n

Buffers ==
    /\ buffer_in \in 0 .. 255 /\ buffer_out \in 0 .. 255
    /\ remaining_bits \in 0 .. 8 /\ missing_bits \in 0 .. 8

\* Bits of an element of w bits that fill() has found, if m are missing.
Begun(w, m) == IF m = 0 THEN 0 ELSE w - m

\* EncodeBase64 has read b of n bytes and copied k characters; m bits of the next one are
\* missing and r bits of the last byte remain.  Where it meets the end in the middle of a
\* character, the bits suffice.
Regroups(n, b, k, m, r) ==
    /\ 8 * b = 6 * k + Begun(6, m) + r
    /\ m > 0 /\ b = n => r >= m

\* Behind the end it fills up the character it has begun.
FillsUp(n, b, k, m, r) ==
    /\ b = n /\ r <= m
    /\ 8 * b <= 6 * k + Begun(6, m) + r
    /\ 6 * k + Begun(6, m) + r < 8 * b + 6
    /\ m > 0 => 6 * k < 8 * b

\* DecodeBase64 has read b of n characters and copied k bytes.  Where it meets the end in the
\* middle of a byte, the bits suffice, unless a single character was left over.
Gathers(n, b, k, m, r) ==
    /\ 6 * b = 8 * k + Begun(8, m) + r
    /\ m > 0 /\ b = n => r >= m \/ m = 2 \/ (m = 8 /\ r = 6)

Encoding ==
    /\ stage = "encode" /\ Buffers /\ end_of_sequence \in BOOLEAN
    /\ data \in Seq(0 .. 255) /\ text \in Seq(0 .. 63) /\ out = <<>>
    /\ base \in 0 .. Len(data) /\ missing_bits <= 6
    /\ missing_bits = 0 => remaining_bits < 8
    /\ buffer_out < Pow(6 - missing_bits)
    /\ ~end_of_sequence => Regroups(Len(data), base, Len(text), missing_bits, remaining_bits)
    /\ end_of_sequence => FillsUp(Len(data), base, Len(text), missing_bits, remaining_bits)

Encoded ==
    /\ stage = "encoded" /\ Buffers /\ end_of_sequence \in BOOLEAN
    /\ data \in Seq(0 .. 255) /\ text \in Seq(Chars) /\ out = <<>>
    /\ base \in 0 .. Len(text)

\* All that DecodeBase64 has read is in the alphabet.
Decoding ==
    /\ stage = "decode" /\ Buffers /\ end_of_sequence = FALSE
    /\ text \in Seq(Chars) /\ out \in Seq(0 .. 255)
    /\ base \in 0 .. Len(text) /\ remaining_bits <= 6
    /\ missing_bits = 0 => remaining_bits < 6
    /\ buffer_out < Pow(8 - missing_bits)
    /\ Gathers(Len(text), base, Len(out), missing_bits, remaining_bits)
    /\ \A j \in 1 .. base : text[j] # Invalid

Ended ==
    /\ stage \in {"decoded", "thrown"} /\ Buffers /\ end_of_sequence \in BOOLEAN
    /\ text \in Seq(Chars) /\ out \in Seq(0 .. 255) /\ base \in 0 .. Len(text)
    /\ ThrowsExactly

IterInv == Encoding \/ Encoded \/ Decoding \/ Ended

-----------------------------------------------------------------------------
(* Arithmetic. *)

\* The powers of two, as a table: the provers do not calculate with exponents.
LEMMA Powers ==
    /\ Pow(0) = 1 /\ Pow(1) = 2 /\ Pow(2) = 4 /\ Pow(3) = 8 /\ Pow(4) = 16
    /\ Pow(5) = 32 /\ Pow(6) = 64 /\ Pow(7) = 128 /\ Pow(8) = 256
BY DEF Pow

LEMMA UpToEight ==
    ASSUME NEW i \in 0 .. 8
    PROVE  i \in {0, 1, 2, 3, 4, 5, 6, 7, 8}
OBVIOUS

LEMMA PowerRange ==
    ASSUME NEW i \in 0 .. 8
    PROVE  Pow(i) \in 1 .. 256
BY UpToEight, Powers

\* i bits after x bits are x + i bits.
LEMMA Shifted ==
    ASSUME NEW x \in 0 .. 8, NEW i \in 0 .. 8, x + i <= 8, NEW b \in Nat, b < Pow(x), NEW c \in Nat, c < Pow(i)
    PROVE  b * Pow(i) + c \in Nat /\ b * Pow(i) + c < Pow(x + i)
<1>1. x \in {0, 1, 2, 3, 4, 5, 6, 7, 8} /\ i \in {0, 1, 2, 3, 4, 5, 6, 7, 8}
  BY UpToEight
<1>2. CASE i = 0
  BY <1>1, <1>2, Powers
<1>3. CASE i = 1
  BY <1>1, <1>3, Powers
<1>4. CASE i = 2
  BY <1>1, <1>4, Powers
<1>5. CASE i = 3
  BY <1>1, <1>5, Powers
<1>6. CASE i = 4
  BY <1>1, <1>6, Powers
<1>7. CASE i = 5
  BY <1>1, <1>7, Powers
<1>8. CASE i = 6
  BY <1>1, <1>8, Powers
<1>9. CASE i = 7
  BY <1>1, <1>9, Powers
<1>10. CASE i = 8
  BY <1>1, <1>10, Powers
<1> QED
  BY <1>1, <1>2, <1>3, <1>4, <1>5, <1>6, <1>7, <1>8, <1>9, <1>10

LEMMA NextBitsRange ==
    ASSUME buffer_in \in 0 .. 255, NEW i \in 0 .. 8, NEW r \in 0 .. 8, r = remaining_bits, i <= r
    PROVE  NextBits(i) \in Nat /\ NextBits(i) < Pow(i)
<1>1. NextBits(i) = (buffer_in \div Pow(r - i)) % Pow(i)
  BY DEF NextBits, Pow
<1>2. r - i \in 0 .. 8
  OBVIOUS
<1>3. PICK p \in Nat : p = Pow(r - i) /\ p > 0
  BY <1>2, PowerRange
<1>4. PICK q \in Nat : q = Pow(i) /\ q > 0
  BY PowerRange
<1>5. (buffer_in \div p) \in Nat
  BY <1>3
<1>6. ASSUME NEW d \in Nat PROVE d % q \in 0 .. q - 1
  BY <1>4
<1>7. (buffer_in \div p) % q \in 0 .. q - 1
  BY <1>5, <1>6
<1> QED
  BY <1>1, <1>3, <1>4, <1>7

\* A string of at most n elements of S is a sequence over S.
LEMMA StringsAreSequences ==
    ASSUME NEW S, NEW n \in Nat, NEW s \in Strings(S, n)
    PROVE  s \in Seq(S)
<1>1. PICK k \in 0 .. n : s \in [1 .. k -> S]
  BY DEF Strings
<1>2. k \in Nat
  BY <1>1
<1> QED
  BY <1>1, <1>2

\* The counts when fill() starts, when it loads, and when it moves bits.
LEMMA EncodeStart ==
    ASSUME NEW n \in Nat, NEW b \in Nat, NEW k \in Nat, NEW r \in 0 .. 8, Regroups(n, b, k, 0, r), r < 8
    PROVE  /\ b # n => Regroups(n, b, k, 6, r)
           /\ b = n /\ r # 0 => FillsUp(n, b, k, 6, r)
BY DEF Regroups, FillsUp, Begun

LEMMA EncodeLoad ==
    ASSUME NEW n \in Nat, NEW b \in Nat, NEW k \in Nat, NEW m \in 0 .. 6, m > 0
    PROVE  /\ Regroups(n, b, k, m, 0) => Regroups(n, b + 1, k, m, 8)
           /\ FillsUp(n, b, k, m, 0) => FillsUp(n, b, k, m, m)
BY DEF Regroups, FillsUp, Begun

LEMMA EncodeMove ==
    ASSUME NEW n \in Nat, NEW b \in Nat, NEW k \in Nat, NEW m \in 0 .. 6, NEW r \in 0 .. 8, m > 0
    PROVE  /\ Regroups(n, b, k, m, r) /\ m > r => Regroups(n, b, k, m - r, 0)
           /\ Regroups(n, b, k, m, r) /\ m <= r => Regroups(n, b, k + 1, 0, r - m)
           /\ FillsUp(n, b, k, m, r) /\ m > r => FillsUp(n, b, k, m - r, 0)
           /\ FillsUp(n, b, k, m, r) /\ m <= r => FillsUp(n, b, k + 1, 0, r - m)
BY DEF Regroups, FillsUp, Begun

LEMMA DecodeStart ==
    ASSUME NEW n \in Nat, NEW b \in Nat, NEW k \in Nat, NEW r \in 0 .. 6, Gathers(n, b, k, 0, r), b # n
    PROVE  Gathers(n, b, k, 8, r)
BY DEF Gathers, Begun

LEMMA DecodeLoad ==
    ASSUME NEW n \in Nat, NEW b \in Nat, NEW k \in Nat, NEW m \in 0 .. 8, Gathers(n, b, k, m, 0), m > 0
    PROVE  Gathers(n, b + 1, k, m, 6)
BY DEF Gathers, Begun

LEMMA DecodeMove ==
    ASSUME NEW n \in Nat, NEW b \in Nat, NEW k \in Nat, NEW m \in 0 .. 8, NEW r \in 0 .. 6,
           Gathers(n, b, k, m, r), m > 0, r > 0
    PROVE  /\ m > r => Gathers(n, b, k, m - r, 0)
           /\ m <= r => Gathers(n, b, k + 1, 0, r - m)
BY DEF Gathers, Begun

\* A text that ends between two bytes, and one that ends in the middle of one.
LEMMA DecodeEnd ==
    ASSUME NEW n \in Nat, NEW k \in Nat
    PROVE  /\ \A r \in 0 .. 6 : Gathers(n, n, k, 0, r) /\ r < 6 => n % 4 # 1
           /\ \A m \in 0 .. 8 : Gathers(n, n, k, m, 0) /\ m > 0 => n % 4 = 1
BY DEF Gathers, Begun

LEMMA SeqSubset ==
    ASSUME NEW S, NEW T, S \subseteq T, NEW s \in Seq(S)
    PROVE  s \in Seq(T)
<1>1. PICK n \in Nat : n = Len(s) /\ s \in [1 .. n -> S]
  BY LenProperties
<1>2. s \in [1 .. n -> T]
  BY <1>1
<1> QED
  BY <1>2

-----------------------------------------------------------------------------
(* The invariant is kept. *)

LEMMA WhileEncoding ==
    stage = "encode" =>
        /\ Running /\ BitsIn = 8 /\ BitsOut = 6 /\ Source = data /\ Output = text
        /\ AtEnd <=> base = Len(data)
        /\ Equal <=> base = Len(data) /\ remaining_bits = 0
BY DEF Running, BitsIn, BitsOut, Source, Output, AtEnd, Equal

LEMMA WhileDecoding ==
    stage = "decode" =>
        /\ Running /\ BitsIn = 6 /\ BitsOut = 8 /\ Source = text /\ Output = out
        /\ (AtEnd <=> base = Len(text)) /\ (Equal <=> base = Len(text))
BY DEF Running, BitsIn, BitsOut, Source, Output, AtEnd, Equal

LEMMA IterInit == Init => IterInv
<1> SUFFICES ASSUME Init PROVE IterInv
  OBVIOUS
<1>1. 0 < Pow(6 - 0) /\ 0 < Pow(8 - 0)
  BY Powers
<1>2. base = 0 /\ buffer_in = 0 /\ remaining_bits = 0 /\ buffer_out = 0 /\ missing_bits = 0 /\ end_of_sequence = FALSE
  BY DEF Init
<1>3. Buffers
  BY <1>2 DEF Buffers
<1>4. CASE stage = "encode" /\ data \in Strings(Bytes, MaxBytes) /\ text = <<>>
  <2>1. data \in Seq(Bytes)
    BY <1>4, StringsAreSequences, Base64Assumption
  <2>2. data \in Seq(0 .. 255)
    <3> DEFINE T == 0 .. 255
    <3>1. Bytes \subseteq T
      BY Base64Assumption
    <3> HIDE DEF T
    <3>2. data \in Seq(T)
      BY <2>1, <3>1, SeqSubset
    <3> QED BY <3>2 DEF T
  <2>3. text \in Seq(0 .. 63) /\ Len(text) = 0 /\ out = <<>> /\ Len(data) \in Nat
    BY <1>4, <2>2 DEF Init
  <2>4. Regroups(Len(data), base, Len(text), missing_bits, remaining_bits)
    BY <1>2, <2>3 DEF Regroups, Begun
  <2>5. base \in 0 .. Len(data) /\ missing_bits <= 6 /\ remaining_bits < 8
    BY <1>2, <2>3
  <2>6. buffer_out < Pow(6 - missing_bits)
    BY <1>1, <1>2
  <2>7. Encoding
    BY <1>2, <1>3, <1>4, <2>2, <2>3, <2>4, <2>5, <2>6 DEF Encoding
  <2> QED BY <2>7 DEF IterInv
<1>5. CASE stage = "decode" /\ text \in Strings(Sextets \cup {Pad, Invalid}, MaxChars)
  <2>1. text \in Seq(Sextets \cup {Pad, Invalid})
    BY <1>5, StringsAreSequences, Base64Assumption
  <2>2. Sextets \cup {Pad, Invalid} \subseteq Chars
    BY Base64Assumption DEF Chars
  <2>3. text \in Seq(Chars)
    BY <2>1, <2>2, SeqSubset
  <2>4. out \in Seq(0 .. 255) /\ Len(out) = 0 /\ Len(text) \in Nat
    BY <2>3 DEF Init
  <2>5. Gathers(Len(text), base, Len(out), missing_bits, remaining_bits)
    BY <1>2, <2>4 DEF Gathers, Begun
  <2>6. base \in 0 .. Len(text) /\ remaining_bits < 6 /\ remaining_bits <= 6 /\ \A j \in 1 .. base : text[j] # Invalid
    BY <1>2, <2>4
  <2>7. buffer_out < Pow(8 - missing_bits)
    BY <1>1, <1>2
  <2>8. Decoding
    BY <1>2, <1>3, <1>5, <2>3, <2>4, <2>5, <2>6, <2>7 DEF Decoding
  <2> QED BY <2>8 DEF IterInv
<1> QED
  BY <1>4, <1>5 DEF Init

\* The numbers of a running EncodeBase64.
LEMMA EncodeNumbers ==
    ASSUME Encoding
    PROVE  /\ Len(data) \in Nat /\ Len(text) \in Nat /\ base \in Nat
           /\ missing_bits \in 0 .. 6 /\ remaining_bits \in 0 .. 8
           /\ missing_bits = 0 => remaining_bits < 8
BY DEF Encoding, Buffers

LEMMA EncodingStarts ==
    ASSUME Encoding, StartFill
    PROVE  Encoding'
<1>1. PICK n \in Nat, k \in Nat, b \in Nat, r \in 0 .. 8 :
          n = Len(data) /\ k = Len(text) /\ b = base /\ r = remaining_bits
  BY EncodeNumbers
<1>2. /\ missing_bits = 0 /\ missing_bits' = 6 /\ buffer_out' = 0 /\ UNCHANGED <<base, buffer_in, remaining_bits>>
      /\ ~(b = n /\ r = 0) /\ UNCHANGED <<stage, data, text, out>>
  BY <1>1, WhileEncoding DEF StartFill, Encoding
<1>3. end_of_sequence' = (end_of_sequence \/ b = n)
  BY <1>1, WhileEncoding DEF StartFill, Encoding
<1>4. ~end_of_sequence
  BY <1>1, <1>2 DEF Encoding, FillsUp
<1>5. r < 8 /\ Regroups(n, b, k, 0, r)
  BY <1>1, <1>2, <1>4 DEF Encoding
<1>6. (b # n => Regroups(n, b, k, 6, r)) /\ (b = n => FillsUp(n, b, k, 6, r))
  BY <1>2, <1>5, EncodeStart
<1>7. end_of_sequence' \in BOOLEAN /\ (end_of_sequence' <=> b = n)
  BY <1>3, <1>4
<1>8. buffer_out' < Pow(6 - missing_bits)'
  BY <1>2, Powers
<1>9. Buffers' /\ missing_bits' <= 6 /\ missing_bits' # 0
  BY <1>2 DEF Encoding, Buffers
<1> QED
  BY <1>1, <1>2, <1>6, <1>7, <1>8, <1>9 DEF Encoding

LEMMA EncodingLoads ==
    ASSUME Encoding, LoadNext \/ LoadZeros
    PROVE  Encoding'
<1>1. PICK n \in Nat, k \in Nat, b \in Nat, m \in 0 .. 6 :
          n = Len(data) /\ k = Len(text) /\ b = base /\ m = missing_bits
  BY EncodeNumbers
<1>2. m > 0 /\ remaining_bits = 0 /\ UNCHANGED <<stage, data, text, out, end_of_sequence, buffer_out, missing_bits>>
  BY <1>1 DEF LoadNext, LoadZeros
<1>3. buffer_out' < Pow(6 - missing_bits)'
  BY <1>2 DEF Encoding
<1>4. CASE LoadNext
  <2>1. /\ ~end_of_sequence /\ b # n
        /\ buffer_in' = ToSixBits(data[b + 1]) /\ remaining_bits' = 8 /\ base' = b + 1
    BY <1>1, <1>4, WhileEncoding DEF LoadNext, Encoding, Readable
  <2>2. b + 1 \in 1 .. n /\ base' \in 0 .. n
    BY <1>1, <2>1 DEF Encoding
  <2>3. data[b + 1] \in 0 .. 255
    BY <1>1, <2>2 DEF Encoding
  <2>4. Buffers'
    BY <1>2, <2>1, <2>3 DEF Encoding, Buffers, ToSixBits
  <2>5. Regroups(n, b, k, m, 0)
    BY <1>1, <1>2, <2>1 DEF Encoding
  <2>6. Regroups(n, b + 1, k, m, 8)
    BY <1>2, <2>5, EncodeLoad
  <2> QED BY <1>1, <1>2, <1>3, <2>1, <2>2, <2>4, <2>6 DEF Encoding
<1>5. CASE LoadZeros
  <2>1. end_of_sequence /\ buffer_in' = 0 /\ remaining_bits' = m /\ base' = b
    BY <1>1, <1>5 DEF LoadZeros
  <2>2. Buffers'
    BY <1>1, <1>2, <2>1 DEF Encoding, Buffers
  <2>3. FillsUp(n, b, k, m, 0)
    BY <1>1, <1>2, <2>1 DEF Encoding
  <2>4. FillsUp(n, b, k, m, m)
    BY <1>2, <2>3, EncodeLoad
  <2> QED BY <1>1, <1>2, <1>3, <2>1, <2>2, <2>4 DEF Encoding
<1> QED
  BY <1>4, <1>5

\* What AppendBits puts into buffer_out fits into the bits found so far.
Appended(i) == buffer_out * 2 ^ i + NextBits(i)

LEMMA BitsAppended ==
    ASSUME Buffers, NEW x \in 0 .. 8, NEW i \in 0 .. 8, x + i <= 8, i <= remaining_bits, buffer_out < Pow(x)
    PROVE  Appended(i) \in Nat /\ Appended(i) < Pow(x + i) /\ Appended(i) <= 255
<1>1. PICK r \in 0 .. 8 : r = remaining_bits /\ i <= r
  BY DEF Buffers
<1>2. PICK c \in Nat : c = NextBits(i) /\ c < Pow(i)
  BY <1>1, NextBitsRange DEF Buffers
<1>3. PICK o \in Nat : o = buffer_out /\ o < Pow(x)
  BY DEF Buffers
<1>4. o * Pow(i) + c \in Nat /\ o * Pow(i) + c < Pow(x + i)
  BY <1>2, <1>3, Shifted
<1>5. Appended(i) = buffer_out * Pow(i) + NextBits(i)
  BY DEF Pow, Appended
<1>6. x + i \in 0 .. 8
  OBVIOUS
<1>7. Pow(x + i) \in 1 .. 256
  BY <1>6, PowerRange
<1>8. PICK v \in Nat : v = o * Pow(i) + c /\ v < Pow(x + i)
  BY <1>4
<1>9. v <= 255
  BY <1>7, <1>8
<1> QED
  BY <1>2, <1>3, <1>5, <1>8, <1>9

LEMMA EncodingMoves ==
    ASSUME Encoding, AppendBits
    PROVE  Encoding'
<1>1. PICK n \in Nat, k \in Nat, b \in Nat, m \in 0 .. 6, r \in 0 .. 8 :
          n = Len(data) /\ k = Len(text) /\ b = base /\ m = missing_bits /\ r = remaining_bits
  BY EncodeNumbers
<1>2. PICK i \in 0 .. 8 : i = Lesser(m, r) /\ i <= m /\ i <= r /\ (m > r => i = r) /\ (m <= r => i = m)
  BY DEF Lesser
<1>3. m > 0 /\ r > 0 /\ UNCHANGED <<stage, data, base, buffer_in, end_of_sequence>>
  BY <1>1 DEF AppendBits
<1>4. PICK v \in Nat : v = Appended(i) /\ v < Pow(6 - (m - i)) /\ v <= 255
  <2>1. PICK x \in 0 .. 8 : x = 6 - m /\ x + i <= 8 /\ x + i = 6 - (m - i)
    BY <1>2
  <2>2. Buffers /\ buffer_out < Pow(6 - missing_bits)
    BY DEF Encoding
  <2>3. i <= remaining_bits /\ buffer_out < Pow(x)
    BY <1>1, <1>2, <2>1, <2>2
  <2>4. Appended(i) \in Nat /\ Appended(i) < Pow(x + i) /\ Appended(i) <= 255
    BY <2>1, <2>2, <2>3, BitsAppended
  <2> QED BY <2>1, <2>4
<1>5. /\ buffer_out' = v /\ missing_bits' = m - i /\ remaining_bits' = r - i
      /\ text' = IF m = i THEN Append(text, v) ELSE text
      /\ out' = out
  <2>1. stage = "encode" /\ i = Lesser(missing_bits, remaining_bits)
    BY <1>1, <1>2 DEF Encoding
  <2> QED BY <1>1, <1>4, <2>1 DEF AppendBits, Appended
<1>6. Buffers' /\ missing_bits' <= 6 /\ (missing_bits' = 0 => remaining_bits' < 8)
  <2>1. m - i \in 0 .. 8 /\ m - i <= 6 /\ r - i \in 0 .. 8 /\ (m - i = 0 => r - i < 8)
    BY <1>2, <1>3
  <2>2. buffer_in' \in 0 .. 255
    BY <1>3 DEF Encoding, Buffers
  <2>3. buffer_out' \in 0 .. 255
    <3>1. v <= 255 /\ buffer_out' = v
      BY <1>4, <1>5
    <3>2. v \in 0 .. 255
      BY <3>1
    <3> QED BY <3>1, <3>2
  <2> QED BY <1>5, <2>1, <2>2, <2>3 DEF Buffers
<1>7. buffer_out' < Pow(6 - missing_bits)'
  BY <1>4, <1>5
<1>8. CASE m > r
  <2>1. i = r /\ m # i /\ m - i = m - r /\ r - i = 0
    BY <1>2, <1>8
  <2>2. text' = text /\ missing_bits' = m - r /\ remaining_bits' = 0
    BY <1>5, <2>1
  <2>3. /\ ~end_of_sequence => Regroups(n, b, k, m - r, 0)
        /\ end_of_sequence => FillsUp(n, b, k, m - r, 0)
    BY <1>1, <1>3, <1>8, EncodeMove DEF Encoding
  <2> QED BY <1>1, <1>3, <1>5, <1>6, <1>7, <2>2, <2>3 DEF Encoding
<1>9. CASE m <= r
  <2>1. i = m /\ m - i = 0 /\ r - i = r - m
    BY <1>2, <1>9
  <2>2. text' = Append(text, v) /\ missing_bits' = 0 /\ remaining_bits' = r - m
    BY <1>5, <2>1
  <2>3. v \in 0 .. 63
    BY <1>4, <2>1, Powers
  <2>4. text' \in Seq(0 .. 63) /\ Len(text') = k + 1
    BY <1>1, <2>2, <2>3 DEF Encoding
  <2>5. /\ ~end_of_sequence => Regroups(n, b, k + 1, 0, r - m)
        /\ end_of_sequence => FillsUp(n, b, k + 1, 0, r - m)
    BY <1>1, <1>3, <1>9, EncodeMove DEF Encoding
  <2> QED BY <1>1, <1>3, <1>5, <1>6, <1>7, <2>2, <2>4, <2>5 DEF Encoding
<1> QED
  BY <1>8, <1>9

\* EncodeBase64 never throws, and the text is at least as long as the data.
LEMMA EncodingEnds ==
    ASSUME Encoding, LoadThrows \/ FinishEncode
    PROVE  Encoded'
<1>1. PICK n \in Nat, k \in Nat, b \in Nat, m \in 0 .. 6, r \in 0 .. 8 :
          n = Len(data) /\ k = Len(text) /\ b = base /\ m = missing_bits /\ r = remaining_bits
  BY EncodeNumbers
<1>2. ~LoadThrows
  <2> SUFFICES ASSUME LoadThrows PROVE FALSE
    OBVIOUS
  <2>1. m > 0 /\ r = 0 /\ ~end_of_sequence /\ ~Readable
    BY <1>1 DEF LoadThrows
  <2>2. b # n
    BY <1>1, <2>1 DEF Encoding, Regroups
  <2>3. data[b + 1] = Invalid
    BY <1>1, <2>1, <2>2, WhileEncoding DEF Readable, Encoding
  <2>4. b + 1 \in 1 .. n
    BY <1>1, <2>2 DEF Encoding
  <2>5. data[b + 1] \in 0 .. 255
    BY <1>1, <2>4 DEF Encoding
  <2>6. Invalid \notin 0 .. 255
    BY Base64Assumption, Zenon
  <2> QED BY <2>3, <2>5, <2>6
<1>3. m = 0 /\ b = n /\ r = 0 /\ stage' = "encoded" /\ UNCHANGED <<data, out, iterator>>
  BY <1>1, <1>2, WhileEncoding DEF FinishEncode, Encoding
<1>4. PICK p \in Nat : p = Padding(Len(data))
  BY <1>1 DEF Padding
<1> DEFINE fill == [i \in 1 .. p |-> Pad]
<1>5. text' = text \o fill
  BY <1>2, <1>4 DEF FinishEncode
<1>6. fill \in Seq(Chars) /\ Len(fill) = p
  BY DEF Chars
<1>7. text \in Seq(Chars)
  <2> DEFINE S == 0 .. 63
  <2>1. S \subseteq Chars /\ text \in Seq(S)
    BY DEF Chars, Encoding
  <2> HIDE DEF S
  <2> QED BY <2>1, SeqSubset
<1> HIDE DEF fill
<1>8. text' \in Seq(Chars) /\ Len(text') = k + p
  <2>1. text \o fill \in Seq(Chars) /\ Len(text \o fill) = Len(text) + Len(fill)
    BY <1>6, <1>7, ConcatProperties
  <2> QED BY <1>1, <1>5, <1>6, <2>1
<1>9. b <= k
  <2>1. ~end_of_sequence => 8 * b = 6 * k
    BY <1>1, <1>3 DEF Encoding, Regroups, Begun
  <2>2. end_of_sequence => 8 * b <= 6 * k
    BY <1>1, <1>3 DEF Encoding, FillsUp, Begun
  <2> QED BY <2>1, <2>2
<1>10. base' \in 0 .. Len(text')
  <2>1. PICK q \in Nat : q = Len(text') /\ q = k + p
    BY <1>8
  <2>2. base' = b
    BY <1>1, <1>3 DEF iterator
  <2> QED BY <1>9, <2>1, <2>2
<1> QED
  BY <1>3, <1>8, <1>10 DEF Encoded, Encoding, Buffers, iterator

LEMMA Handed ==
    ASSUME Encoded, Hand
    PROVE  Decoding'
<1>1. /\ base' = 0 /\ buffer_in' = 0 /\ remaining_bits' = 0 /\ buffer_out' = 0 /\ missing_bits' = 0
      /\ end_of_sequence' = FALSE /\ stage' = "decode" /\ UNCHANGED <<text, out>>
  BY DEF Hand
<1>2. text' \in Seq(Chars) /\ out' \in Seq(0 .. 255) /\ Len(out') = 0 /\ Len(text') \in Nat
  BY <1>1 DEF Encoded
<1>3. Gathers(Len(text), base, Len(out), missing_bits, remaining_bits)'
  BY <1>1, <1>2 DEF Gathers, Begun
<1>4. Buffers' /\ buffer_out' < Pow(8 - missing_bits)'
  BY <1>1, Powers DEF Buffers
<1>5. base' \in 0 .. Len(text') /\ \A j \in 1 .. base' : text'[j] # Invalid
  BY <1>1, <1>2
<1>6. remaining_bits' <= 6 /\ remaining_bits' < 6
  BY <1>1
<1> QED
  BY <1>1, <1>2, <1>3, <1>4, <1>5, <1>6 DEF Decoding

LEMMA DecodeNumbers ==
    ASSUME Decoding
    PROVE  /\ Len(text) \in Nat /\ Len(out) \in Nat /\ base \in Nat
           /\ missing_bits \in 0 .. 8 /\ remaining_bits \in 0 .. 6
           /\ missing_bits = 0 => remaining_bits < 6
BY DEF Decoding, Buffers

LEMMA DecodingStarts ==
    ASSUME Decoding, StartFill
    PROVE  Decoding'
<1>1. PICK n \in Nat, k \in Nat, b \in Nat, r \in 0 .. 6 :
          n = Len(text) /\ k = Len(out) /\ b = base /\ r = remaining_bits
  BY DecodeNumbers
<1>2. /\ missing_bits = 0 /\ missing_bits' = 8 /\ buffer_out' = 0 /\ UNCHANGED <<base, buffer_in, remaining_bits>>
      /\ b # n /\ end_of_sequence' = FALSE /\ UNCHANGED <<stage, data, text, out>>
  BY <1>1, WhileDecoding DEF StartFill, Decoding
<1>3. Gathers(n, b, k, 8, r)
  BY <1>1, <1>2, DecodeStart DEF Decoding
<1>4. Buffers'
  BY <1>2 DEF Decoding, Buffers
<1>5. buffer_out' < Pow(8 - missing_bits)'
  BY <1>2, Powers
<1> QED
  BY <1>1, <1>2, <1>3, <1>4, <1>5 DEF Decoding

LEMMA DecodingLoads ==
    ASSUME Decoding, LoadNext
    PROVE  Decoding'
<1>1. PICK n \in Nat, k \in Nat, b \in Nat, m \in 0 .. 8 :
          n = Len(text) /\ k = Len(out) /\ b = base /\ m = missing_bits
  BY DecodeNumbers
<1>2. /\ m > 0 /\ remaining_bits = 0 /\ UNCHANGED <<stage, text, out, end_of_sequence, buffer_out, missing_bits>>
      /\ b # n /\ text[b + 1] # Invalid
      /\ buffer_in' = ToSixBits(text[b + 1]) /\ remaining_bits' = 6 /\ base' = b + 1
  BY <1>1, WhileDecoding DEF LoadNext, Decoding, Readable
<1>3. b + 1 \in 1 .. n /\ base' \in 0 .. n
  BY <1>1, <1>2 DEF Decoding
<1>4. text[b + 1] \in Chars
  BY <1>1, <1>3 DEF Decoding
<1>5. buffer_in' \in 0 .. 255
  <2>1. CASE text[b + 1] = Pad
    BY <1>2, <2>1 DEF ToSixBits
  <2>2. CASE text[b + 1] \in 0 .. 63
    BY <1>2, <2>2 DEF ToSixBits
  <2> QED BY <1>2, <1>4, <2>1, <2>2 DEF Chars
<1>6. Buffers'
  BY <1>2, <1>5 DEF Decoding, Buffers
<1>7. Gathers(n, b, k, m, 0)
  BY <1>1, <1>2 DEF Decoding
<1>8. Gathers(n, b + 1, k, m, 6)
  BY <1>2, <1>7, DecodeLoad
<1>9. \A j \in 1 .. b + 1 : text[j] # Invalid
  <2> SUFFICES ASSUME NEW j \in 1 .. b + 1 PROVE text[j] # Invalid
    OBVIOUS
  <2>1. j \in 1 .. b \/ j = b + 1
    OBVIOUS
  <2> QED BY <1>1, <1>2, <2>1 DEF Decoding
<1>10. buffer_out' < Pow(8 - missing_bits)'
  BY <1>2 DEF Decoding
<1> QED
  BY <1>1, <1>2, <1>3, <1>6, <1>8, <1>9, <1>10 DEF Decoding

LEMMA DecodingMoves ==
    ASSUME Decoding, AppendBits
    PROVE  Decoding'
<1>1. PICK n \in Nat, k \in Nat, b \in Nat, m \in 0 .. 8, r \in 0 .. 6 :
          n = Len(text) /\ k = Len(out) /\ b = base /\ m = missing_bits /\ r = remaining_bits
  BY DecodeNumbers
<1>2. PICK i \in 0 .. 8 : i = Lesser(m, r) /\ i <= m /\ i <= r /\ (m > r => i = r) /\ (m <= r => i = m)
  BY DEF Lesser
<1>3. m > 0 /\ r > 0 /\ UNCHANGED <<stage, data, base, buffer_in, end_of_sequence>>
  BY <1>1 DEF AppendBits
<1>4. PICK v \in Nat : v = Appended(i) /\ v < Pow(8 - (m - i)) /\ v <= 255
  <2>1. PICK x \in 0 .. 8 : x = 8 - m /\ x + i <= 8 /\ x + i = 8 - (m - i)
    BY <1>2
  <2>2. Buffers /\ buffer_out < Pow(8 - missing_bits)
    BY DEF Decoding
  <2>3. i <= remaining_bits /\ buffer_out < Pow(x)
    BY <1>1, <1>2, <2>1, <2>2
  <2>4. Appended(i) \in Nat /\ Appended(i) < Pow(x + i) /\ Appended(i) <= 255
    BY <2>1, <2>2, <2>3, BitsAppended
  <2> QED BY <2>1, <2>4
<1>5. /\ buffer_out' = v /\ missing_bits' = m - i /\ remaining_bits' = r - i
      /\ out' = IF m = i THEN Append(out, v) ELSE out
      /\ text' = text
  <2>1. stage = "decode" /\ i = Lesser(missing_bits, remaining_bits)
    BY <1>1, <1>2 DEF Decoding
  <2> QED BY <1>1, <1>4, <2>1 DEF AppendBits, Appended
<1>6. v \in 0 .. 255
  <2>1. v <= 255
    BY <1>4
  <2> QED BY <2>1
<1>7. Buffers' /\ remaining_bits' <= 6 /\ (missing_bits' = 0 => remaining_bits' < 6)
  <2>1. m - i \in 0 .. 8 /\ r - i \in 0 .. 8 /\ r - i < 6 /\ r - i <= 6
    BY <1>2, <1>3
  <2>2. buffer_in' \in 0 .. 255
    BY <1>3 DEF Decoding, Buffers
  <2>3. buffer_out' \in 0 .. 255
    BY <1>5, <1>6
  <2> QED BY <1>5, <2>1, <2>2, <2>3 DEF Buffers
<1>8. buffer_out' < Pow(8 - missing_bits)'
  BY <1>4, <1>5
<1>9. Gathers(n, b, k, m, r)
  BY <1>1 DEF Decoding
<1>10. CASE m > r
  <2>1. i = r /\ m # i /\ m - i = m - r /\ r - i = 0
    BY <1>2, <1>10
  <2>2. out' = out /\ missing_bits' = m - r /\ remaining_bits' = 0
    BY <1>5, <2>1
  <2>3. Gathers(n, b, k, m - r, 0)
    BY <1>3, <1>9, <1>10, DecodeMove
  <2> QED BY <1>1, <1>3, <1>5, <1>7, <1>8, <2>2, <2>3 DEF Decoding
<1>11. CASE m <= r
  <2>1. i = m /\ m - i = 0 /\ r - i = r - m
    BY <1>2, <1>11
  <2>2. out' = Append(out, v) /\ missing_bits' = 0 /\ remaining_bits' = r - m
    BY <1>5, <2>1
  <2>3. out' \in Seq(0 .. 255) /\ Len(out') = k + 1
    BY <1>1, <1>6, <2>2 DEF Decoding
  <2>4. Gathers(n, b, k + 1, 0, r - m)
    BY <1>3, <1>9, <1>11, DecodeMove
  <2> QED BY <1>1, <1>3, <1>5, <1>7, <1>8, <2>2, <2>3, <2>4 DEF Decoding
<1> QED
  BY <1>10, <1>11

LEMMA DecodingEnds ==
    ASSUME Decoding, LoadThrows \/ FinishDecode
    PROVE  Ended'
<1>1. PICK n \in Nat, k \in Nat, b \in Nat, m \in 0 .. 8, r \in 0 .. 6 :
          n = Len(text) /\ k = Len(out) /\ b = base /\ m = missing_bits /\ r = remaining_bits
  BY DecodeNumbers
<1>2. Gathers(n, b, k, m, r) /\ b \in 0 .. n
  BY <1>1 DEF Decoding
<1>3. UNCHANGED <<data, text, out, iterator>>
  BY DEF LoadThrows, FinishDecode
<1>4. DOMAIN text = 1 .. n
  BY <1>1 DEF Decoding
<1>5. /\ Buffers' /\ end_of_sequence' \in BOOLEAN
      /\ text' \in Seq(Chars) /\ out' \in Seq(0 .. 255) /\ base' \in 0 .. Len(text')
  BY <1>3 DEF Decoding, Buffers, iterator
<1>6. CASE LoadThrows
  <2>1. m > 0 /\ r = 0 /\ ~Readable /\ stage' = "thrown"
    BY <1>1, <1>6 DEF LoadThrows
  <2>2. CASE b = n
    <3>1. n % 4 = 1
      BY <1>2, <2>1, <2>2, DecodeEnd
    <3>2. ThrowsExactly'
      BY <1>1, <1>3, <2>1, <3>1 DEF ThrowsExactly
    <3> QED BY <1>5, <2>1, <3>2 DEF Ended
  <2>3. CASE b # n
    <3>1. text[b + 1] = Invalid
      BY <1>1, <2>1, <2>3, WhileDecoding DEF Readable, Decoding
    <3>2. b + 1 \in DOMAIN text
      BY <1>2, <1>4, <2>3
    <3>3. ThrowsExactly'
      BY <1>3, <2>1, <3>1, <3>2 DEF ThrowsExactly
    <3> QED BY <1>5, <2>1, <3>3 DEF Ended
  <2> QED BY <2>2, <2>3
<1>7. CASE FinishDecode
  <2>1. m = 0 /\ b = n /\ stage' = "decoded"
    BY <1>1, <1>7, WhileDecoding DEF FinishDecode, Decoding
  <2>2. r < 6
    BY <1>1, <2>1 DEF Decoding
  <2>3. n % 4 # 1
    BY <1>2, <2>1, <2>2, DecodeEnd
  <2>4. \A j \in DOMAIN text : text[j] # Invalid
    BY <1>1, <1>4, <2>1 DEF Decoding
  <2>5. ThrowsExactly'
    BY <1>1, <1>3, <2>1, <2>3, <2>4 DEF ThrowsExactly
  <2> QED BY <1>5, <2>1, <2>5 DEF Ended
<1> QED
  BY <1>6, <1>7

\* What the stages rule out.
LEMMA StagesApart ==
    ASSUME IterInv, Next
    PROVE  /\ Encoding => StartFill \/ LoadNext \/ LoadZeros \/ AppendBits \/ LoadThrows \/ FinishEncode
           /\ Encoded => Hand
           /\ Decoding => StartFill \/ LoadNext \/ AppendBits \/ LoadThrows \/ FinishDecode
           /\ ~Ended
<1>1. StartFill \/ LoadNext \/ LoadZeros \/ LoadThrows \/ AppendBits => stage \in {"encode", "decode"}
  BY DEF StartFill, LoadNext, LoadZeros, LoadThrows, AppendBits, Running
<1>2. LoadZeros => end_of_sequence
  BY DEF LoadZeros
<1>3. /\ FinishEncode => stage = "encode"
      /\ FinishDecode => stage = "decode"
      /\ Hand => stage = "encoded"
  BY DEF FinishEncode, FinishDecode, Hand
<1>4. /\ Encoding => stage = "encode"
      /\ Encoded => stage = "encoded"
      /\ Decoding => stage = "decode" /\ ~end_of_sequence
      /\ Ended => stage \in {"decoded", "thrown"}
  BY DEF Encoding, Encoded, Decoding, Ended
<1> QED
  BY <1>1, <1>2, <1>3, <1>4 DEF Next

LEMMA IterStep == IterInv /\ [Next]_vars => IterInv'
<1> SUFFICES ASSUME IterInv, [Next]_vars PROVE IterInv'
  OBVIOUS
<1>1. CASE Next
  <2>1. CASE Encoding
    BY <1>1, <2>1, StagesApart, EncodingStarts, EncodingLoads, EncodingMoves, EncodingEnds DEF IterInv
  <2>2. CASE Encoded
    BY <1>1, <2>2, StagesApart, Handed DEF IterInv
  <2>3. CASE Decoding
    BY <1>1, <2>3, StagesApart, DecodingStarts, DecodingLoads, DecodingMoves, DecodingEnds DEF IterInv
  <2> QED BY <1>1, <2>1, <2>2, <2>3, StagesApart DEF IterInv
<1>2. CASE UNCHANGED vars
  BY <1>2 DEF vars, iterator, IterInv, Encoding, Encoded, Decoding, Ended, Buffers, ThrowsExactly
<1> QED
  BY <1>1, <1>2

LEMMA IterInvariant == Spec => []IterInv
BY IterInit, IterStep, PTL DEF Spec

-----------------------------------------------------------------------------
(* What the counts show. *)

\* The type invariant, for data and texts of any length: transform_width::fill() keeps every
\* group within its width, so the buffers never overflow a byte, every character
\* EncodeBase64 appends is a sextet or '=', every element DecodeBase64 appends is a byte, and
\* the base iterator never passes the end.
THEOREM GroupsCorrect == Spec => []TypeOK
<1>1. Encoding => TypeOK
  <2> SUFFICES ASSUME Encoding PROVE TypeOK
    OBVIOUS
  <2>1. text \in Seq(Chars)
    <3> DEFINE S == 0 .. 63
    <3>1. S \subseteq Chars /\ text \in Seq(S)
      BY DEF Chars, Encoding
    <3> HIDE DEF S
    <3> QED BY <3>1, SeqSubset
  <2>2. out \in Seq(0 .. 255)
    BY DEF Encoding
  <2> QED BY <2>1, <2>2 DEF TypeOK, Encoding, Buffers, Source
<1>2. Encoded => TypeOK
  <2> SUFFICES ASSUME Encoded PROVE TypeOK
    OBVIOUS
  <2>1. out \in Seq(0 .. 255)
    BY DEF Encoded
  <2> QED BY <2>1 DEF TypeOK, Encoded, Buffers, Source
<1>3. Decoding \/ Ended => TypeOK
  BY DEF TypeOK, Decoding, Ended, Buffers, Source
<1> QED
  BY <1>1, <1>2, <1>3, IterInvariant, PTL DEF IterInv

\* transform_width neither loses nor invents a bit, for data and texts of any length: what
\* fill() read is in the output, in m_buffer_out or left in m_buffer_in, and zeros come in
\* only behind the end, less than a group of them.
THEOREM BitsConservedCorrect == Spec => []BitsConserved
<1>1. Encoding => BitsConserved
  <2> SUFFICES ASSUME Encoding PROVE BitsConserved
    OBVIOUS
  <2>1. PICK n \in Nat, k \in Nat, b \in Nat, m \in 0 .. 6, r \in 0 .. 8 :
            n = Len(data) /\ k = Len(text) /\ b = base /\ m = missing_bits /\ r = remaining_bits
    BY EncodeNumbers
  <2>2. /\ ~end_of_sequence => Regroups(n, b, k, m, r)
        /\ end_of_sequence => FillsUp(n, b, k, m, r)
    BY <2>1 DEF Encoding
  <2>3. BitsIn = 8 /\ BitsOut = 6 /\ Output = text /\ (AtEnd <=> b = n)
    BY <2>1, WhileEncoding DEF Encoding
  <2>4. Moved = 6 * k + Begun(6, m)
    BY <2>1, <2>3 DEF Moved, Begun
  <2>5. PICK g \in Nat : g = Begun(6, m)
    BY DEF Begun
  <2>6. ~end_of_sequence => 8 * b = 6 * k + g + r
    BY <2>2, <2>5 DEF Regroups
  <2>7. end_of_sequence => b = n /\ 8 * b <= 6 * k + g + r /\ 6 * k + g + r < 8 * b + 6
    BY <2>2, <2>5 DEF FillsUp
  <2> QED BY <2>1, <2>3, <2>4, <2>5, <2>6, <2>7 DEF BitsConserved
<1>2. Decoding => BitsConserved
  <2> SUFFICES ASSUME Decoding PROVE BitsConserved
    OBVIOUS
  <2>1. PICK n \in Nat, k \in Nat, b \in Nat, m \in 0 .. 8, r \in 0 .. 6 :
            n = Len(text) /\ k = Len(out) /\ b = base /\ m = missing_bits /\ r = remaining_bits
    BY DecodeNumbers
  <2>2. Gathers(n, b, k, m, r) /\ ~end_of_sequence
    BY <2>1 DEF Decoding
  <2>3. BitsIn = 6 /\ BitsOut = 8 /\ Output = out
    BY WhileDecoding DEF Decoding
  <2>4. Moved = 8 * k + Begun(8, m)
    BY <2>1, <2>3 DEF Moved, Begun
  <2>5. 6 * b = 8 * k + Begun(8, m) + r
    BY <2>2 DEF Gathers
  <2> QED BY <2>1, <2>2, <2>3, <2>4, <2>5 DEF BitsConserved
<1>3. Encoded \/ Ended => BitsConserved
  BY DEF BitsConserved, Running, Encoded, Ended
<1> QED
  BY <1>1, <1>2, <1>3, IterInvariant, PTL DEF IterInv

\* DecodeBase64 throws for a character outside the alphabet, the NUL behind a text with one
\* character too many included, and for no other text, whatever its length; the text that
\* EncodeBase64 produces on the way to it included.
THEOREM ThrowsExactlyCorrect == Spec => []ThrowsExactly
<1>1. IterInv => ThrowsExactly
  BY DEF IterInv, Encoding, Encoded, Decoding, Ended, ThrowsExactly
<1> QED
  BY <1>1, IterInvariant, PTL

-----------------------------------------------------------------------------
(* The bits themselves. *)

\* Bit s of the number v, counted from the least significant one.
BitOf(v, s) == (v \div Pow(s)) % 2

\* Bits move in twos.
Twos == {0, 2, 4, 6, 8}

LEMMA HighBits ==
    ASSUME NEW b \in Nat, NEW c \in Nat, NEW i \in {2, 4, 6}, c < Pow(i), NEW t \in 0 .. 5, t + i <= 7
    PROVE  BitOf(b * Pow(i) + c, t + i) = BitOf(b, t)
<1>1. t \in {0, 1, 2, 3, 4, 5}
  OBVIOUS
<1>2. CASE i = 2
  <2>1. \A d \in 0 .. 3 :
            /\ (b * 4 + d) \div 4 = b \div 1 /\ (b * 4 + d) \div 8 = b \div 2
            /\ (b * 4 + d) \div 16 = b \div 4 /\ (b * 4 + d) \div 32 = b \div 8
            /\ (b * 4 + d) \div 64 = b \div 16 /\ (b * 4 + d) \div 128 = b \div 32
    OBVIOUS
  <2>2. c \in 0 .. 3
    BY <1>2, Powers
  <2> QED BY <1>1, <1>2, <2>1, <2>2, Powers DEF BitOf
<1>3. CASE i = 4
  <2>1. \A d \in 0 .. 15 :
            /\ (b * 16 + d) \div 16 = b \div 1 /\ (b * 16 + d) \div 32 = b \div 2
            /\ (b * 16 + d) \div 64 = b \div 4 /\ (b * 16 + d) \div 128 = b \div 8
    OBVIOUS
  <2>2. c \in 0 .. 15
    BY <1>3, Powers
  <2> QED BY <1>1, <1>3, <2>1, <2>2, Powers DEF BitOf
<1>4. CASE i = 6
  <2>1. \A d \in 0 .. 63 : (b * 64 + d) \div 64 = b \div 1 /\ (b * 64 + d) \div 128 = b \div 2
    OBVIOUS
  <2>2. c \in 0 .. 63
    BY <1>4, Powers
  <2> QED BY <1>1, <1>4, <2>1, <2>2, Powers DEF BitOf
<1> QED
  BY <1>2, <1>3, <1>4

LEMMA LowerBits ==
    ASSUME NEW b \in Nat, NEW c \in Nat, NEW i \in {2, 4, 6}, NEW s \in 0 .. 5, s < i
    PROVE  BitOf(b * Pow(i) + c, s) = BitOf(c, s)
<1>1. s \in {0, 1, 2, 3, 4, 5}
  OBVIOUS
<1>2. CASE i = 2
  <2>1. /\ ((b * 4 + c) \div 1) % 2 = (c \div 1) % 2
        /\ ((b * 4 + c) \div 2) % 2 = (c \div 2) % 2
    OBVIOUS
  <2> QED BY <1>1, <1>2, <2>1, Powers DEF BitOf
<1>3. CASE i = 4
  <2>1. /\ ((b * 16 + c) \div 1) % 2 = (c \div 1) % 2
        /\ ((b * 16 + c) \div 2) % 2 = (c \div 2) % 2
        /\ ((b * 16 + c) \div 4) % 2 = (c \div 4) % 2
        /\ ((b * 16 + c) \div 8) % 2 = (c \div 8) % 2
    OBVIOUS
  <2> QED BY <1>1, <1>3, <2>1, Powers DEF BitOf
<1>4. CASE i = 6
  <2>1. /\ ((b * 64 + c) \div 1) % 2 = (c \div 1) % 2
        /\ ((b * 64 + c) \div 2) % 2 = (c \div 2) % 2
        /\ ((b * 64 + c) \div 4) % 2 = (c \div 4) % 2
    OBVIOUS
  <2>2. /\ ((b * 64 + c) \div 8) % 2 = (c \div 8) % 2
        /\ ((b * 64 + c) \div 16) % 2 = (c \div 16) % 2
        /\ ((b * 64 + c) \div 32) % 2 = (c \div 32) % 2
    OBVIOUS
  <2> QED BY <1>1, <1>4, <2>1, <2>2, Powers DEF BitOf
<1> QED
  BY <1>2, <1>3, <1>4

\* The bits of d = a \div Pow(r - i) are the bits of a from r - i on; cutting d to i bits keeps
\* the lower ones.
LEMMA CutBits ==
    ASSUME NEW d \in Nat, NEW i \in {2, 4, 6}, NEW s \in 0 .. 5, s < i
    PROVE  BitOf(d % Pow(i), s) = BitOf(d, s)
<1>1. PICK q \in Nat, c \in Nat : d = q * Pow(i) + c /\ c = d % Pow(i)
  <2>1. CASE i = 2
    <3>1. d = (d \div 4) * 4 + (d % 4) /\ d \div 4 \in Nat /\ d % 4 \in Nat
      OBVIOUS
    <3> QED BY <2>1, <3>1, Powers
  <2>2. CASE i = 4
    <3>1. d = (d \div 16) * 16 + (d % 16) /\ d \div 16 \in Nat /\ d % 16 \in Nat
      OBVIOUS
    <3> QED BY <2>2, <3>1, Powers
  <2>3. CASE i = 6
    <3>1. d = (d \div 64) * 64 + (d % 64) /\ d \div 64 \in Nat /\ d % 64 \in Nat
      OBVIOUS
    <3> QED BY <2>3, <3>1, Powers
  <2> QED BY <2>1, <2>2, <2>3
<1> QED
  BY <1>1, LowerBits

LEMMA ShiftedBits ==
    ASSUME NEW a \in Nat, NEW u \in {0, 2, 4, 6}, NEW s \in 0 .. 5, s + u <= 7
    PROVE  BitOf(a \div Pow(u), s) = BitOf(a, s + u)
<1>1. s \in {0, 1, 2, 3, 4, 5}
  OBVIOUS
<1>2. CASE u = 0
  <2>1. a \div 1 = a
    OBVIOUS
  <2> QED BY <1>2, <2>1, Powers
<1>3. CASE u = 2
  <2>1. /\ (a \div 4) \div 1 = a \div 4 /\ (a \div 4) \div 2 = a \div 8 /\ (a \div 4) \div 4 = a \div 16
        /\ (a \div 4) \div 8 = a \div 32 /\ (a \div 4) \div 16 = a \div 64 /\ (a \div 4) \div 32 = a \div 128
    OBVIOUS
  <2> QED BY <1>1, <1>3, <2>1, Powers DEF BitOf
<1>4. CASE u = 4
  <2>1. /\ (a \div 16) \div 1 = a \div 16 /\ (a \div 16) \div 2 = a \div 32
        /\ (a \div 16) \div 4 = a \div 64 /\ (a \div 16) \div 8 = a \div 128
    OBVIOUS
  <2> QED BY <1>1, <1>4, <2>1, Powers DEF BitOf
<1>5. CASE u = 6
  <2>1. (a \div 64) \div 1 = a \div 64 /\ (a \div 64) \div 2 = a \div 128
    OBVIOUS
  <2> QED BY <1>1, <1>5, <2>1, Powers DEF BitOf
<1> QED
  BY <1>2, <1>3, <1>4, <1>5

LEMMA NextBitsBits ==
    ASSUME buffer_in \in 0 .. 255, NEW r \in {2, 4, 6, 8}, r = remaining_bits,
           NEW i \in {2, 4, 6}, i <= r, NEW s \in 0 .. 5, s < i
    PROVE  BitOf(NextBits(i), s) = BitOf(buffer_in, s + (r - i))
<1>1. PICK u \in {0, 2, 4, 6} : u = r - i /\ s + u <= 7
  OBVIOUS
<1>2. NextBits(i) = (buffer_in \div Pow(u)) % Pow(i)
  BY <1>1 DEF NextBits, Pow
<1>3. Pow(u) \in {1, 4, 16, 64}
  BY Powers
<1>4. PICK d \in Nat : d = buffer_in \div Pow(u)
  BY <1>3
<1>5. BitOf(d % Pow(i), s) = BitOf(d, s)
  BY CutBits
<1>6. BitOf(buffer_in \div Pow(u), s) = BitOf(buffer_in, s + u)
  BY <1>1, ShiftedBits
<1> QED
  BY <1>1, <1>2, <1>4, <1>5, <1>6

\* Bit k of the input, with zeros behind it.
SourceBit(s, w, k) == IF k < w * Len(s) THEN Bit(s, w, k) ELSE 0

\* The elements of w bits copied so far hold the input's bits in their places.
Copied(src, v, dst, w) == \A k \in 0 .. w * Len(dst) - 1 : Bit(dst, w, k) = SourceBit(src, v, k)

\* buffer_out holds the x bits from position p on.
Found(src, v, p, x, o) == \A j \in 0 .. x - 1 : BitOf(o, x - 1 - j) = SourceBit(src, v, p + j)

\* The low r bits of buffer_in are the ones before position e.
Left(src, v, e, r, a) == \A s \in 0 .. r - 1 : BitOf(a, s) = SourceBit(src, v, e - 1 - s)

\* fill() moves bits in twos, and each to its place.
Carried(src, v, dst, w, m, r, o, a) ==
    /\ m \in Twos /\ r \in Twos
    /\ Copied(src, v, dst, w)
    /\ Found(src, v, w * Len(dst), Begun(w, m), o)
    /\ Left(src, v, w * Len(dst) + Begun(w, m) + r, r, a)

LEMMA BitAt ==
    ASSUME NEW s, NEW w \in {6, 8}, NEW q \in Nat, NEW j \in 0 .. w - 1
    PROVE  Bit(s, w, w * q + j) = BitOf(ToSixBits(s[q + 1]), w - 1 - j)
<1>1. (w * q + j) \div w = q /\ (w * q + j) % w = j
  <2>1. CASE w = 6
    BY <2>1
  <2>2. CASE w = 8
    BY <2>2
  <2> QED BY <2>1, <2>2
<1>2. Bit(s, w, w * q + j) = BitOf(ToSixBits(s[(w * q + j) \div w + 1]), w - 1 - ((w * q + j) % w))
  BY DEF Bit, BitOf, Pow
<1> QED
  BY <1>1, <1>2

LEMMA PlaceOfBit ==
    ASSUME NEW w \in {6, 8}, NEW k \in Nat
    PROVE  \E q \in Nat, j \in 0 .. w - 1 : k = w * q + j
<1>1. CASE w = 6
  <2>1. k \div 6 \in Nat /\ k % 6 \in 0 .. 5 /\ k = 6 * (k \div 6) + (k % 6)
    OBVIOUS
  <2> QED BY <1>1, <2>1
<1>2. CASE w = 8
  <2>1. k \div 8 \in Nat /\ k % 8 \in 0 .. 7 /\ k = 8 * (k \div 8) + (k % 8)
    OBVIOUS
  <2> QED BY <1>2, <2>1
<1> QED
  BY <1>1, <1>2

LEMMA FoundMore ==
    ASSUME Buffers, NEW x \in {0, 2, 4, 6}, NEW i \in {2, 4, 6}, x + i <= 8,
           NEW r \in {2, 4, 6, 8}, r = remaining_bits, i <= r, buffer_out < Pow(x),
           NEW src, NEW v, NEW p \in Nat,
           Found(src, v, p, x, buffer_out), Left(src, v, p + x + r, r, buffer_in)
    PROVE  Found(src, v, p, x + i, Appended(i))
<1> SUFFICES ASSUME NEW j \in 0 .. x + i - 1
             PROVE  BitOf(Appended(i), x + i - 1 - j) = SourceBit(src, v, p + j)
  BY DEF Found
<1>1. PICK c \in Nat : c = NextBits(i) /\ c < Pow(i)
  BY NextBitsRange DEF Buffers
<1>2. PICK o \in Nat : o = buffer_out
  BY DEF Buffers
<1>3. Appended(i) = o * Pow(i) + c
  BY <1>1, <1>2 DEF Appended, Pow
<1>4. CASE j < x
  <2>1. PICK t \in 0 .. 5 : t = x - 1 - j /\ t + i <= 7 /\ t + i = x + i - 1 - j
    BY <1>4
  <2>2. BitOf(o * Pow(i) + c, t + i) = BitOf(o, t)
    BY <1>1, <2>1, HighBits
  <2>3. j \in 0 .. x - 1
    BY <1>4
  <2>4. BitOf(o, t) = SourceBit(src, v, p + j)
    BY <1>2, <2>1, <2>3 DEF Found
  <2> QED BY <1>3, <2>1, <2>2, <2>4
<1>5. CASE j >= x
  <2>1. PICK s \in 0 .. 5 : s = x + i - 1 - j /\ s < i
    BY <1>5
  <2>2. BitOf(o * Pow(i) + c, s) = BitOf(c, s)
    BY <2>1, LowerBits
  <2>3. BitOf(c, s) = BitOf(buffer_in, s + (r - i))
    BY <1>1, <2>1, NextBitsBits DEF Buffers
  <2>4. PICK u \in 0 .. r - 1 : u = s + (r - i) /\ (p + x + r) - 1 - u = p + j
    BY <2>1
  <2>5. BitOf(buffer_in, u) = SourceBit(src, v, p + j)
    BY <2>4 DEF Left
  <2> QED BY <1>3, <2>1, <2>2, <2>3, <2>4, <2>5
<1> QED
  BY <1>4, <1>5

LEMMA ByteIsNoPad ==
    ASSUME NEW e \in 0 .. 255
    PROVE  ToSixBits(e) = e
<1>1. Pad \notin 0 .. 255
  BY Base64Assumption, Zenon
<1>2. e # Pad
  BY <1>1, Zenon
<1> QED
  BY <1>2 DEF ToSixBits

LEMMA CopiedMore ==
    ASSUME NEW src, NEW v, NEW S, NEW dst \in Seq(S), NEW w \in {6, 8}, NEW e \in 0 .. 255,
           Copied(src, v, dst, w), Found(src, v, w * Len(dst), w, e)
    PROVE  Copied(src, v, Append(dst, e), w)
<1>1. PICK n \in Nat : n = Len(dst)
  OBVIOUS
<1> DEFINE dst2 == Append(dst, e)
<1>2. /\ Len(dst2) = n + 1 /\ dst2[n + 1] = e
      /\ \A i \in 1 .. n : dst2[i] = dst[i]
  BY <1>1
<1> HIDE DEF dst2
<1> SUFFICES ASSUME NEW k \in 0 .. w * (n + 1) - 1
             PROVE  Bit(dst2, w, k) = SourceBit(src, v, k)
  BY <1>2 DEF Copied, dst2
<1>3. PICK q \in Nat, j \in 0 .. w - 1 : k = w * q + j
  <2>1. k \in Nat
    BY w = 6 \/ w = 8
  <2> QED BY <2>1, PlaceOfBit
<1>4. Bit(dst2, w, k) = BitOf(ToSixBits(dst2[q + 1]), w - 1 - j)
  BY <1>3, BitAt
<1>5. Bit(dst, w, k) = BitOf(ToSixBits(dst[q + 1]), w - 1 - j)
  BY <1>3, BitAt
<1>6. q <= n
  BY <1>3
<1>7. CASE q < n
  <2>1. q + 1 \in 1 .. n /\ k \in 0 .. w * n - 1
    BY <1>3, <1>7
  <2>2. dst2[q + 1] = dst[q + 1]
    BY <1>2, <2>1
  <2>3. Bit(dst, w, k) = SourceBit(src, v, k)
    BY <1>1, <2>1 DEF Copied
  <2> QED BY <1>4, <1>5, <2>2, <2>3
<1>8. CASE q = n
  <2>1. ToSixBits(e) = e
    BY ByteIsNoPad
  <2>2. BitOf(e, w - 1 - j) = SourceBit(src, v, w * n + j)
    BY <1>1 DEF Found
  <2> QED BY <1>2, <1>3, <1>4, <1>8, <2>1, <2>2
<1> QED
  BY <1>6, <1>7, <1>8

LEMMA LeftLess ==
    ASSUME NEW src, NEW v, NEW e, NEW r \in Nat, NEW u \in Nat, u <= r, NEW a, Left(src, v, e, r, a)
    PROVE  Left(src, v, e, u, a)
BY DEF Left

LEMMA CarriedPart ==
    ASSUME Buffers, NEW src, NEW v, NEW S, NEW dst \in Seq(S), NEW w \in {6, 8},
           NEW m \in 0 .. w, NEW r \in 0 .. 8, m > 0, r > 0, m <= 6 \/ r <= 6, r = remaining_bits,
           buffer_out < Pow(w - m), Carried(src, v, dst, w, m, r, buffer_out, buffer_in), m > r
    PROVE  Carried(src, v, dst, w, m - r, 0, Appended(r), buffer_in)
<1>1. PICK n \in Nat : n = Len(dst)
  OBVIOUS
<1>2. PICK p \in Nat : p = w * n
  OBVIOUS
<1>3. m \in {2, 4, 6, 8} /\ r \in {2, 4, 6, 8}
  BY DEF Carried, Twos
<1>4. PICK x \in {0, 2, 4, 6} : x = w - m /\ x = Begun(w, m)
  BY <1>3 DEF Begun
<1>5. /\ Copied(src, v, dst, w) /\ Found(src, v, p, x, buffer_out) /\ Left(src, v, p + x + r, r, buffer_in)
      /\ buffer_out < Pow(x)
  BY <1>1, <1>2, <1>4 DEF Carried
<1>6. r \in {2, 4, 6} /\ x + r <= 8 /\ m - r \in Twos /\ 0 \in Twos
  BY <1>3, <1>4 DEF Twos
<1>7. Found(src, v, p, x + r, Appended(r))
  <2>1. PICK i \in {2, 4, 6} : i = r /\ i <= r /\ x + i <= 8
    BY <1>6
  <2>2. Found(src, v, p, x + i, Appended(i))
    BY <1>3, <1>5, <2>1, FoundMore
  <2> QED BY <2>1, <2>2
<1>8. Begun(w, m - r) = x + r
  BY <1>3, <1>4 DEF Begun
<1>9. \A e : Left(src, v, e, 0, buffer_in)
  BY DEF Left
<1>10. Found(src, v, w * Len(dst), Begun(w, m - r), Appended(r))
  BY <1>1, <1>2, <1>7, <1>8
<1>11. Carried(src, v, dst, w, m - r, 0, Appended(r), buffer_in)
  BY <1>5, <1>6, <1>9, <1>10 DEF Carried
<1> QED BY <1>11

LEMMA CarriedWhole ==
    ASSUME Buffers, NEW src, NEW v, NEW S, NEW dst \in Seq(S), NEW w \in {6, 8},
           NEW m \in 0 .. w, NEW r \in 0 .. 8, m > 0, r > 0, m <= 6 \/ r <= 6, r = remaining_bits,
           buffer_out < Pow(w - m), Carried(src, v, dst, w, m, r, buffer_out, buffer_in), m <= r
    PROVE  Carried(src, v, Append(dst, Appended(m)), w, 0, r - m, Appended(m), buffer_in)
<1>1. PICK n \in Nat : n = Len(dst)
  OBVIOUS
<1>2. PICK p \in Nat : p = w * n
  OBVIOUS
<1>3. m \in {2, 4, 6, 8} /\ r \in {2, 4, 6, 8}
  BY DEF Carried, Twos
<1>4. PICK x \in {0, 2, 4, 6} : x = w - m /\ x = Begun(w, m)
  BY <1>3 DEF Begun
<1>5. /\ Copied(src, v, dst, w) /\ Found(src, v, p, x, buffer_out) /\ Left(src, v, p + x + r, r, buffer_in)
      /\ buffer_out < Pow(x)
  BY <1>1, <1>2, <1>4 DEF Carried
<1>6. m \in {2, 4, 6} /\ x + m <= 8 /\ x + m = w /\ r - m \in Twos /\ 0 \in Twos
  BY <1>3, <1>4 DEF Twos
<1>7. Found(src, v, p, x + m, Appended(m))
  BY <1>3, <1>5, <1>6, FoundMore
<1>8. PICK e \in 0 .. 255 : e = Appended(m)
  <2>1. x \in 0 .. 8 /\ m \in 0 .. 8 /\ m <= remaining_bits
    BY <1>6
  <2>2. Appended(m) \in Nat /\ Appended(m) <= 255
    BY <1>5, <1>6, <2>1, BitsAppended
  <2>3. PICK z \in Nat : z = Appended(m) /\ z <= 255
    BY <2>2
  <2>4. z <= 255
    BY <2>3
  <2>5. z \in 0 .. 255
    BY <2>4
  <2> QED BY <2>3, <2>5
<1>9. Copied(src, v, Append(dst, e), w)
  BY <1>1, <1>2, <1>5, <1>6, <1>7, <1>8, CopiedMore
<1>10. Len(Append(dst, e)) = n + 1
  BY <1>1
<1>11. w * (n + 1) = p + w /\ Begun(w, 0) = 0 /\ (p + w) + 0 + (r - m) = p + x + r
  BY <1>2, <1>3, <1>6 DEF Begun
<1>12. Left(src, v, p + x + r, r - m, buffer_in)
  BY <1>3, <1>5, LeftLess
<1>13. \A z : Found(src, v, z, 0, e)
  BY DEF Found
<1>14. Left(src, v, w * Len(Append(dst, e)) + Begun(w, 0) + (r - m), r - m, buffer_in)
  BY <1>10, <1>11, <1>12
<1>15. Carried(src, v, Append(dst, e), w, 0, r - m, e, buffer_in)
  BY <1>6, <1>9, <1>11, <1>13, <1>14 DEF Carried
<1> QED BY <1>8, <1>15

\* An element read leaves all its bits.
LEMMA LoadedBits ==
    ASSUME NEW S, NEW src \in Seq(S), NEW v \in {6, 8}, NEW b \in Nat, b < Len(src)
    PROVE  Left(src, v, v * b + v, v, ToSixBits(src[b + 1]))
<1> SUFFICES ASSUME NEW s \in 0 .. v - 1
             PROVE  BitOf(ToSixBits(src[b + 1]), s) = SourceBit(src, v, (v * b + v) - 1 - s)
  BY DEF Left
<1>1. PICK n \in Nat : n = Len(src) /\ b < n
  OBVIOUS
<1>2. PICK j \in 0 .. v - 1 : j = v - 1 - s /\ v - 1 - j = s
  OBVIOUS
<1>3. Bit(src, v, v * b + j) = BitOf(ToSixBits(src[b + 1]), v - 1 - j)
  BY BitAt
<1>4. (v * b + v) - 1 - s = v * b + j /\ v * b + j < v * n
  <2>1. CASE v = 6
    BY <1>1, <1>2, <2>1
  <2>2. CASE v = 8
    BY <1>1, <1>2, <2>2
  <2> QED BY <2>1, <2>2
<1> QED
  BY <1>1, <1>2, <1>3, <1>4 DEF SourceBit

LEMMA CarriedLoads ==
    ASSUME NEW S, NEW src \in Seq(S), NEW v \in {6, 8}, NEW dst, NEW w,
           NEW m, NEW o, NEW a, Carried(src, v, dst, w, m, 0, o, a),
           NEW b \in Nat, b < Len(src), v * b = w * Len(dst) + Begun(w, m)
    PROVE  Carried(src, v, dst, w, m, v, o, ToSixBits(src[b + 1]))
<1>1. Left(src, v, v * b + v, v, ToSixBits(src[b + 1]))
  BY LoadedBits
<1>2. Left(src, v, w * Len(dst) + Begun(w, m) + v, v, ToSixBits(src[b + 1]))
  BY <1>1
<1>3. v \in Twos
  BY DEF Twos
<1> QED
  BY <1>2, <1>3 DEF Carried

LEMMA ZeroBits ==
    ASSUME NEW s \in 0 .. 8
    PROVE  BitOf(0, s) = 0
<1>1. PICK p \in 1 .. 256 : p = Pow(s)
  BY PowerRange
<1>2. Pow(s) \in {1, 2, 4, 8, 16, 32, 64, 128, 256}
  BY UpToEight, Powers
<1>3. 0 \div Pow(s) = 0
  BY <1>2
<1> QED
  BY <1>3 DEF BitOf

LEMMA CarriedZeros ==
    ASSUME NEW S, NEW src \in Seq(S), NEW D, NEW dst \in Seq(D), NEW m \in 0 .. 6, NEW o, NEW a,
           Carried(src, 8, dst, 6, m, 0, o, a), 8 * Len(src) <= 6 * Len(dst) + Begun(6, m)
    PROVE  Carried(src, 8, dst, 6, m, m, o, 0)
<1>1. PICK n \in Nat, k \in Nat, g \in Nat : n = Len(src) /\ k = Len(dst) /\ g = Begun(6, m)
  <2>1. Len(src) \in Nat /\ Len(dst) \in Nat
    OBVIOUS
  <2>2. Begun(6, m) \in Nat
    BY DEF Begun
  <2> QED BY <2>1, <2>2
<1>2. 8 * n <= 6 * k + g
  BY <1>1
<1>3. Left(src, 8, 6 * k + g + m, m, 0)
  <2> SUFFICES ASSUME NEW s \in 0 .. m - 1
               PROVE  BitOf(0, s) = SourceBit(src, 8, (6 * k + g + m) - 1 - s)
    BY DEF Left
  <2>1. s \in 0 .. 8 /\ ~((6 * k + g + m) - 1 - s < 8 * n)
    BY <1>2
  <2> QED BY <1>1, <2>1, ZeroBits DEF SourceBit
<1> QED
  BY <1>1, <1>3 DEF Carried

\* What EncodeBase64 makes of the data d: whole sextets with its bits, then the padding.
Sextet(d) == (8 * Len(d) + 5) \div 6
TextOf(d, t) ==
    /\ Len(t) = Sextet(d) + Padding(Len(d)) /\ Len(t) % 4 = 0
    /\ \A i \in 1 .. Sextet(d) : t[i] \in 0 .. 63
    /\ \A i \in Sextet(d) + 1 .. Len(t) : t[i] = Pad
    /\ \A k \in 0 .. 6 * Sextet(d) - 1 : Bit(t, 6, k) = SourceBit(d, 8, k)

BitsInv ==
    /\ stage = "encode" => Carried(data, 8, text, 6, missing_bits, remaining_bits, buffer_out, buffer_in)
    /\ stage = "decode" => Carried(text, 6, out, 8, missing_bits, remaining_bits, buffer_out, buffer_in)
    /\ stage = "encoded" \/ (stage # "encode" /\ data # NoData) => data \in Seq(0 .. 255) /\ TextOf(data, text)
    /\ DecodedRight

LEMMA CarriedStarts ==
    ASSUME NEW src, NEW v, NEW dst, NEW w \in {6, 8}, NEW r, NEW o, NEW a, NEW z,
           Carried(src, v, dst, w, 0, r, o, a)
    PROVE  Carried(src, v, dst, w, w, r, z, a)
<1>1. Begun(w, w) = 0 /\ Begun(w, 0) = 0 /\ w \in Twos
  BY DEF Begun, Twos
<1>2. Found(src, v, w * Len(dst), 0, z)
  BY DEF Found
<1> QED
  BY <1>1, <1>2 DEF Carried

LEMMA NothingCarried ==
    ASSUME NEW src, NEW v, NEW w \in {6, 8}
    PROVE  Carried(src, v, <<>>, w, 0, 0, 0, 0)
<1>1. Begun(w, 0) = 0 /\ 0 \in Twos /\ w * Len(<<>>) = 0
  BY DEF Begun, Twos
<1>2. Copied(src, v, <<>>, w)
  BY <1>1 DEF Copied
<1>3. (\A p : Found(src, v, p, 0, 0)) /\ (\A e : Left(src, v, e, 0, 0))
  BY DEF Found, Left
<1> QED
  BY <1>1, <1>2, <1>3 DEF Carried

LEMMA BitsInit == Init => BitsInv
<1> SUFFICES ASSUME Init PROVE BitsInv
  OBVIOUS
<1>1. Carried(data, 8, <<>>, 6, 0, 0, 0, 0) /\ Carried(text, 6, <<>>, 8, 0, 0, 0, 0)
  BY NothingCarried
<1>2. /\ missing_bits = 0 /\ remaining_bits = 0 /\ buffer_out = 0 /\ buffer_in = 0 /\ out = <<>>
      /\ \/ stage = "encode" /\ text = <<>>
         \/ stage = "decode" /\ data = NoData
  BY DEF Init
<1> QED
  BY <1>1, <1>2 DEF BitsInv, DecodedRight

LEMMA StaysEncoding ==
    ASSUME stage' = "encode",
           Carried(data', 8, text', 6, missing_bits', remaining_bits', buffer_out', buffer_in')
    PROVE  BitsInv'
BY DEF BitsInv, DecodedRight

LEMMA StaysDecoding ==
    ASSUME BitsInv, stage = "decode", stage' = "decode", UNCHANGED <<data, text>>,
           Carried(text', 6, out', 8, missing_bits', remaining_bits', buffer_out', buffer_in')
    PROVE  BitsInv'
BY DEF BitsInv, DecodedRight

LEMMA EncodingBits ==
    ASSUME Encoding, BitsInv, StartFill \/ LoadNext \/ LoadZeros \/ AppendBits
    PROVE  BitsInv'
<1>1. PICK n \in Nat, k \in Nat, b \in Nat, m \in 0 .. 6, r \in 0 .. 8 :
          n = Len(data) /\ k = Len(text) /\ b = base /\ m = missing_bits /\ r = remaining_bits
  BY EncodeNumbers
<1>2. Carried(data, 8, text, 6, m, r, buffer_out, buffer_in) /\ stage = "encode"
  BY <1>1 DEF BitsInv, Encoding
<1>3. data \in Seq(0 .. 255) /\ text \in Seq(0 .. 63) /\ Buffers
  BY DEF Encoding
<1>4. stage' = "encode" /\ data' = data
  BY <1>2 DEF StartFill, LoadNext, LoadZeros, AppendBits
<1>5. CASE StartFill
  <2>1. m = 0 /\ missing_bits' = 6 /\ buffer_out' = 0 /\ UNCHANGED <<text, buffer_in, remaining_bits>>
    BY <1>1, <1>2, <1>5, WhileEncoding DEF StartFill
  <2>2. Carried(data, 8, text, 6, 6, r, 0, buffer_in)
    BY <1>2, <2>1, CarriedStarts
  <2> QED BY <1>1, <1>4, <2>1, <2>2, StaysEncoding
<1>6. CASE LoadNext
  <2>1. /\ m > 0 /\ r = 0 /\ ~end_of_sequence /\ b # n /\ UNCHANGED <<text, missing_bits, buffer_out>>
        /\ buffer_in' = ToSixBits(data[b + 1]) /\ remaining_bits' = 8
    BY <1>1, <1>2, <1>6, WhileEncoding DEF LoadNext, Readable
  <2>2. b < Len(data) /\ 8 * b = 6 * Len(text) + Begun(6, m)
    <3>1. PICK g \in Nat : g = Begun(6, m)
      BY DEF Begun
    <3>2. 8 * b = 6 * k + g + 0 /\ b <= n
      BY <1>1, <2>1, <3>1 DEF Encoding, Regroups
    <3>3. 8 * b = 6 * k + g /\ b < n
      BY <2>1, <3>2
    <3> QED BY <1>1, <3>1, <3>3
  <2>3. Carried(data, 8, text, 6, m, 0, buffer_out, buffer_in)
    BY <1>2, <2>1
  <2>4. Carried(data, 8, text, 6, m, 8, buffer_out, ToSixBits(data[b + 1]))
    BY <1>3, <2>2, <2>3, CarriedLoads
  <2> QED BY <1>1, <1>4, <2>1, <2>4, StaysEncoding
<1>7. CASE LoadZeros
  <2>1. /\ r = 0 /\ end_of_sequence /\ UNCHANGED <<text, missing_bits, buffer_out>>
        /\ buffer_in' = 0 /\ remaining_bits' = m
    BY <1>1, <1>7 DEF LoadZeros
  <2>2. 8 * Len(data) <= 6 * Len(text) + Begun(6, m)
    <3>1. PICK g \in Nat : g = Begun(6, m)
      BY DEF Begun
    <3>2. 8 * b <= 6 * k + g + 0 /\ b = n
      BY <1>1, <2>1, <3>1 DEF Encoding, FillsUp
    <3> QED BY <1>1, <3>1, <3>2
  <2>3. Carried(data, 8, text, 6, m, 0, buffer_out, buffer_in)
    BY <1>2, <2>1
  <2>4. Carried(data, 8, text, 6, m, m, buffer_out, 0)
    BY <1>3, <2>2, <2>3, CarriedZeros
  <2> QED BY <1>1, <1>4, <2>1, <2>4, StaysEncoding
<1>8. CASE AppendBits
  <2>1. m > 0 /\ r > 0 /\ buffer_in' = buffer_in
    BY <1>1, <1>8 DEF AppendBits
  <2>2. buffer_out < Pow(6 - m)
    BY <1>1 DEF Encoding
  <2>3. /\ m > r => Carried(data, 8, text, 6, m - r, 0, Appended(r), buffer_in)
        /\ m <= r => Carried(data, 8, Append(text, Appended(m)), 6, 0, r - m, Appended(m), buffer_in)
    <3> DEFINE S == 0 .. 63
    <3>1. text \in Seq(S) /\ r = remaining_bits
      BY <1>1, <1>3
    <3> HIDE DEF S
    <3>2. PICK w \in {6, 8}, v \in {6, 8} : w = 6 /\ v = 8
      OBVIOUS
    <3>3. /\ m \in 0 .. w /\ buffer_out < Pow(w - m) /\ Carried(data, v, text, w, m, r, buffer_out, buffer_in)
          /\ m > 0 /\ r > 0 /\ (m <= 6 \/ r <= 6) /\ Buffers
      BY <1>2, <1>3, <2>1, <2>2, <3>2
    <3>4. ASSUME m > r PROVE Carried(data, v, text, w, m - r, 0, Appended(r), buffer_in)
      BY <3>1, <3>3, <3>4, CarriedPart
    <3>5. ASSUME m <= r PROVE Carried(data, v, Append(text, Appended(m)), w, 0, r - m, Appended(m), buffer_in)
      BY <3>1, <3>3, <3>5, CarriedWhole
    <3> QED BY <3>2, <3>4, <3>5
  <2>4. PICK i \in 0 .. 8 : i = Lesser(missing_bits, remaining_bits) /\ (m > r => i = r) /\ (m <= r => i = m)
    BY <1>1 DEF Lesser
  <2>5. /\ buffer_out' = Appended(i) /\ missing_bits' = m - i /\ remaining_bits' = r - i
        /\ text' = IF m = i THEN Append(text, Appended(i)) ELSE text
    BY <1>1, <1>2, <1>8, <2>4 DEF AppendBits, Appended
  <2>6. CASE m > r
    <3>1. missing_bits' = m - r /\ remaining_bits' = 0 /\ buffer_out' = Appended(r) /\ text' = text
      BY <2>4, <2>5, <2>6
    <3> QED BY <1>4, <2>1, <2>3, <2>6, <3>1, StaysEncoding
  <2>7. CASE m <= r
    <3>1. missing_bits' = 0 /\ remaining_bits' = r - m /\ buffer_out' = Appended(m) /\ text' = Append(text, Appended(m))
      BY <2>4, <2>5, <2>7
    <3> QED BY <1>4, <2>1, <2>3, <2>7, <3>1, StaysEncoding
  <2> QED BY <2>6, <2>7
<1> QED
  BY <1>5, <1>6, <1>7, <1>8

\* Whole sextets for n bytes.
LEMMA SextetsSuffice ==
    ASSUME NEW n \in Nat
    PROVE  \E k \in Nat : k = (8 * n + 5) \div 6 /\ 8 * n <= 6 * k /\ 6 * k < 8 * n + 6
<1>1. /\ (8 * n + 5) \div 6 \in Nat
      /\ 8 * n <= 6 * ((8 * n + 5) \div 6) /\ 6 * ((8 * n + 5) \div 6) < 8 * n + 6
  OBVIOUS
<1> QED
  BY <1>1

LEMMA PaddingCounts ==
    ASSUME NEW n \in Nat, NEW k \in Nat, 8 * n <= 6 * k, 6 * k < 8 * n + 6
    PROVE  /\ (8 * n + 5) \div 6 = k
           /\ Padding(n) \in 0 .. 2 /\ (k + Padding(n)) % 4 = 0
           /\ (6 * (k + Padding(n))) \div 8 = n + Padding(n)
           /\ 8 * (n + Padding(n)) <= 6 * (k + Padding(n))
<1>1. (8 * n + 5) \div 6 = k
  OBVIOUS
<1>2. PICK q \in Nat, d \in 0 .. 2 : n = 3 * q + d
  <2>1. n \div 3 \in Nat /\ n % 3 \in 0 .. 2 /\ n = 3 * (n \div 3) + (n % 3)
    OBVIOUS
  <2> QED BY <2>1
<1>3. d \in {0, 1, 2}
  OBVIOUS
<1>4. CASE d = 0
  BY <1>1, <1>2, <1>4 DEF Padding
<1>5. CASE d = 1
  BY <1>1, <1>2, <1>5 DEF Padding
<1>6. CASE d = 2
  BY <1>1, <1>2, <1>6 DEF Padding
<1> QED
  BY <1>3, <1>4, <1>5, <1>6

LEMMA EncodedBits ==
    ASSUME Encoding, BitsInv, FinishEncode
    PROVE  BitsInv'
<1>1. PICK n \in Nat, k \in Nat, b \in Nat, m \in 0 .. 6, r \in 0 .. 8 :
          n = Len(data) /\ k = Len(text) /\ b = base /\ m = missing_bits /\ r = remaining_bits
  BY EncodeNumbers
<1>2. m = 0 /\ b = n /\ r = 0 /\ stage = "encode" /\ stage' = "encoded" /\ data' = data
  BY <1>1, WhileEncoding DEF FinishEncode, Encoding
<1>3. 8 * n <= 6 * k /\ 6 * k < 8 * n + 6
  <2>1. ~end_of_sequence => 8 * n = 6 * k
    BY <1>1, <1>2 DEF Encoding, Regroups, Begun
  <2>2. end_of_sequence => 8 * n <= 6 * k /\ 6 * k < 8 * n + 6
    BY <1>1, <1>2 DEF Encoding, FillsUp, Begun
  <2> QED BY <2>1, <2>2
<1>4. Sextet(data) = k
  BY <1>1, <1>3, PaddingCounts DEF Sextet
<1>5. PICK p \in 0 .. 2 : p = Padding(Len(data)) /\ (k + p) % 4 = 0
  BY <1>1, <1>3, PaddingCounts
<1> DEFINE fill == [i \in 1 .. p |-> Pad]
<1>6. text' = text \o fill
  BY <1>5 DEF FinishEncode
<1>7. fill \in Seq({Pad}) /\ Len(fill) = p /\ \A i \in 1 .. p : fill[i] = Pad
  OBVIOUS
<1>8. text \in Seq(0 .. 63) /\ \A i \in 1 .. k : text[i] \in 0 .. 63
  BY <1>1 DEF Encoding
<1> HIDE DEF fill
<1>9. Len(text') = k + p
  BY <1>1, <1>6, <1>7, <1>8
<1>10. \A i \in 1 .. k : text'[i] = text[i]
  BY <1>1, <1>6, <1>7, <1>8
<1>11. \A i \in k + 1 .. k + p : text'[i] = Pad
  <2> SUFFICES ASSUME NEW i \in k + 1 .. k + p PROVE text'[i] = Pad
    OBVIOUS
  <2>1. i \in 1 .. k + p /\ ~(i <= k) /\ i - k \in 1 .. p
    OBVIOUS
  <2>2. text'[i] = fill[i - k]
    BY <1>1, <1>6, <1>7, <1>8, <2>1
  <2> QED BY <1>7, <2>1, <2>2
<1>12. \A j \in 0 .. 6 * k - 1 : Bit(text', 6, j) = SourceBit(data, 8, j)
  <2> SUFFICES ASSUME NEW j \in 0 .. 6 * k - 1 PROVE Bit(text', 6, j) = SourceBit(data, 8, j)
    OBVIOUS
  <2>1. Bit(text, 6, j) = SourceBit(data, 8, j)
    BY <1>1, <1>2 DEF BitsInv, Carried, Copied
  <2>2. j \div 6 + 1 \in 1 .. k
    OBVIOUS
  <2>3. text'[j \div 6 + 1] = text[j \div 6 + 1]
    BY <1>10, <2>2
  <2>4. Bit(text', 6, j) = Bit(text, 6, j)
    BY <2>3 DEF Bit
  <2> QED BY <2>1, <2>4
<1>13. TextOf(data, text')
  BY <1>4, <1>5, <1>8, <1>9, <1>10, <1>11, <1>12 DEF TextOf
<1>14. data \in Seq(0 .. 255)
  BY DEF Encoding
<1> QED
  BY <1>2, <1>13, <1>14 DEF BitsInv, DecodedRight

LEMMA HandedBits ==
    ASSUME Encoded, BitsInv, Hand
    PROVE  BitsInv'
<1>1. Carried(text, 6, <<>>, 8, 0, 0, 0, 0)
  BY NothingCarried
<1>2. /\ missing_bits' = 0 /\ remaining_bits' = 0 /\ buffer_out' = 0 /\ buffer_in' = 0
      /\ UNCHANGED <<data, text, out>> /\ stage = "encoded" /\ stage' = "decode" /\ out = <<>>
  BY DEF Hand, Encoded
<1>3. Carried(text', 6, out', 8, missing_bits', remaining_bits', buffer_out', buffer_in')
  BY <1>1, <1>2
<1> QED
  BY <1>2, <1>3 DEF BitsInv, DecodedRight

LEMMA DecodingBits ==
    ASSUME Decoding, BitsInv, StartFill \/ LoadNext \/ AppendBits
    PROVE  BitsInv'
<1>1. PICK n \in Nat, k \in Nat, b \in Nat, m \in 0 .. 8, r \in 0 .. 6 :
          n = Len(text) /\ k = Len(out) /\ b = base /\ m = missing_bits /\ r = remaining_bits
  BY DecodeNumbers
<1>2. Carried(text, 6, out, 8, m, r, buffer_out, buffer_in) /\ stage = "decode"
  BY <1>1 DEF BitsInv, Decoding
<1>3. text \in Seq(Chars) /\ out \in Seq(0 .. 255) /\ Buffers
  BY DEF Decoding
<1>4. stage' = "decode" /\ UNCHANGED <<data, text>>
  BY <1>2 DEF StartFill, LoadNext, AppendBits
<1>5. CASE StartFill
  <2>1. m = 0 /\ missing_bits' = 8 /\ buffer_out' = 0 /\ UNCHANGED <<out, buffer_in, remaining_bits>>
    BY <1>1, <1>2, <1>5, WhileDecoding DEF StartFill
  <2>2. Carried(text, 6, out, 8, 8, r, 0, buffer_in)
    BY <1>2, <2>1, CarriedStarts
  <2> QED BY <1>1, <1>2, <1>4, <2>1, <2>2, StaysDecoding
<1>6. CASE LoadNext
  <2>1. /\ m > 0 /\ r = 0 /\ b # n /\ UNCHANGED <<out, missing_bits, buffer_out>>
        /\ buffer_in' = ToSixBits(text[b + 1]) /\ remaining_bits' = 6
    BY <1>1, <1>2, <1>6, WhileDecoding DEF LoadNext, Readable
  <2>2. b < Len(text) /\ 6 * b = 8 * Len(out) + Begun(8, m)
    <3>1. PICK g \in Nat : g = Begun(8, m)
      BY DEF Begun
    <3>2. 6 * b = 8 * k + g + 0 /\ b <= n
      BY <1>1, <2>1, <3>1 DEF Decoding, Gathers
    <3>3. 6 * b = 8 * k + g /\ b < n
      BY <2>1, <3>2
    <3> QED BY <1>1, <3>1, <3>3
  <2>3. Carried(text, 6, out, 8, m, 0, buffer_out, buffer_in)
    BY <1>2, <2>1
  <2>4. Carried(text, 6, out, 8, m, 6, buffer_out, ToSixBits(text[b + 1]))
    BY <1>3, <2>2, <2>3, CarriedLoads
  <2> QED BY <1>1, <1>2, <1>4, <2>1, <2>4, StaysDecoding
<1>7. CASE AppendBits
  <2>1. m > 0 /\ r > 0 /\ buffer_in' = buffer_in
    BY <1>1, <1>7 DEF AppendBits
  <2>2. buffer_out < Pow(8 - m)
    BY <1>1 DEF Decoding
  <2>3. /\ m > r => Carried(text, 6, out, 8, m - r, 0, Appended(r), buffer_in)
        /\ m <= r => Carried(text, 6, Append(out, Appended(m)), 8, 0, r - m, Appended(m), buffer_in)
    <3> DEFINE S == 0 .. 255
    <3>1. out \in Seq(S) /\ r = remaining_bits /\ r \in 0 .. 8
      BY <1>1, <1>3
    <3> HIDE DEF S
    <3>2. PICK w \in {6, 8}, v \in {6, 8} : w = 8 /\ v = 6
      OBVIOUS
    <3>3. /\ m \in 0 .. w /\ buffer_out < Pow(w - m) /\ Carried(text, v, out, w, m, r, buffer_out, buffer_in)
          /\ m > 0 /\ r > 0 /\ (m <= 6 \/ r <= 6) /\ Buffers
      BY <1>2, <1>3, <2>1, <2>2, <3>2
    <3>4. ASSUME m > r PROVE Carried(text, v, out, w, m - r, 0, Appended(r), buffer_in)
      BY <3>1, <3>3, <3>4, CarriedPart
    <3>5. ASSUME m <= r PROVE Carried(text, v, Append(out, Appended(m)), w, 0, r - m, Appended(m), buffer_in)
      BY <3>1, <3>3, <3>5, CarriedWhole
    <3> QED BY <3>2, <3>4, <3>5
  <2>4. PICK i \in 0 .. 8 : i = Lesser(missing_bits, remaining_bits) /\ (m > r => i = r) /\ (m <= r => i = m)
    BY <1>1 DEF Lesser
  <2>5. /\ buffer_out' = Appended(i) /\ missing_bits' = m - i /\ remaining_bits' = r - i
        /\ out' = IF m = i THEN Append(out, Appended(i)) ELSE out
    BY <1>1, <1>2, <1>7, <2>4 DEF AppendBits, Appended
  <2>6. CASE m > r
    <3>1. missing_bits' = m - r /\ remaining_bits' = 0 /\ buffer_out' = Appended(r) /\ out' = out
      BY <2>4, <2>5, <2>6
    <3> QED BY <1>2, <1>4, <2>1, <2>3, <2>6, <3>1, StaysDecoding
  <2>7. CASE m <= r
    <3>1. missing_bits' = 0 /\ remaining_bits' = r - m /\ buffer_out' = Appended(m) /\ out' = Append(out, Appended(m))
      BY <2>4, <2>5, <2>7
    <3> QED BY <1>2, <1>4, <2>1, <2>3, <2>7, <3>1, StaysDecoding
  <2> QED BY <2>6, <2>7
<1> QED
  BY <1>5, <1>6, <1>7

LEMMA DecodedBits ==
    ASSUME Decoding, BitsInv, LoadThrows \/ FinishDecode
    PROVE  BitsInv'
<1>1. PICK n \in Nat, k \in Nat, b \in Nat, m \in 0 .. 8, r \in 0 .. 6 :
          n = Len(text) /\ k = Len(out) /\ b = base /\ m = missing_bits /\ r = remaining_bits
  BY DecodeNumbers
<1>2. stage = "decode" /\ UNCHANGED <<data, text, out>> /\ stage' \in {"decoded", "thrown"}
  BY DEF LoadThrows, FinishDecode, Decoding
<1>3. CASE LoadThrows
  <2>1. stage' = "thrown"
    BY <1>3 DEF LoadThrows
  <2> QED BY <1>2, <2>1 DEF BitsInv, DecodedRight
<1>4. CASE FinishDecode
  <2>1. m = 0 /\ b = n
    BY <1>1, <1>2, <1>4, WhileDecoding DEF FinishDecode
  <2>2. 6 * n = 8 * k + r /\ r < 6
    BY <1>1, <2>1 DEF Decoding, Gathers, Begun
  <2>3. k = (6 * n) \div 8 /\ 8 * k <= 6 * n
    BY <2>2
  <2>4. \A j \in 0 .. 8 * k - 1 : Bit(out, 8, j) = SourceBit(text, 6, j)
    BY <1>1, <1>2 DEF BitsInv, Carried, Copied
  <2>5. \A j \in 0 .. 8 * k - 1 : SourceBit(text, 6, j) = Bit(text, 6, j)
    BY <1>1, <2>3 DEF SourceBit
  <2>6. DecodedRight'
    BY <1>1, <1>2, <2>3, <2>4, <2>5 DEF DecodedRight
  <2> QED BY <1>2, <2>6 DEF BitsInv
<1> QED
  BY <1>3, <1>4

LEMMA BitsStep == IterInv /\ BitsInv /\ [Next]_vars => BitsInv'
<1> SUFFICES ASSUME IterInv, BitsInv, [Next]_vars PROVE BitsInv'
  OBVIOUS
<1>1. CASE Next
  <2>1. CASE Encoding
    <3>1. ~LoadThrows
      <4>1. LoadThrows => Encoded' /\ stage' = "thrown"
        BY <2>1, EncodingEnds DEF LoadThrows
      <4> QED BY <4>1 DEF Encoded
    <3> QED BY <1>1, <2>1, <3>1, StagesApart, EncodingBits, EncodedBits
  <2>2. CASE Encoded
    BY <1>1, <2>2, StagesApart, HandedBits
  <2>3. CASE Decoding
    BY <1>1, <2>3, StagesApart, DecodingBits, DecodedBits
  <2> QED BY <1>1, <2>1, <2>2, <2>3, StagesApart DEF IterInv
<1>2. CASE UNCHANGED vars
  BY <1>2 DEF vars, iterator, BitsInv, DecodedRight
<1> QED
  BY <1>1, <1>2

LEMMA BitsInvariant == Spec => [](IterInv /\ BitsInv)
<1>1. Init => IterInv /\ BitsInv
  BY IterInit, BitsInit
<1>2. (IterInv /\ BitsInv) /\ [Next]_vars => (IterInv /\ BitsInv)'
  BY IterStep, BitsStep
<1> QED
  BY <1>1, <1>2, PTL DEF Spec

\* A byte is its eight bits.
Octets == 0 .. 255
SameBits(a, b) == \A s \in 0 .. 7 : BitOf(a, s) = BitOf(b, s)

LEMMA SameByte ==
    ASSUME NEW a \in Octets, NEW b \in Octets, SameBits(a, b)
    PROVE  a = b
<1>1. BitOf(a, 7) = BitOf(b, 7) /\ BitOf(a, 6) = BitOf(b, 6) /\ BitOf(a, 5) = BitOf(b, 5) /\ BitOf(a, 4) = BitOf(b, 4)
  BY DEF SameBits
<1>2. BitOf(a, 3) = BitOf(b, 3) /\ BitOf(a, 2) = BitOf(b, 2) /\ BitOf(a, 1) = BitOf(b, 1) /\ BitOf(a, 0) = BitOf(b, 0)
  BY DEF SameBits
<1>3. /\ (a \div 128) % 2 = (b \div 128) % 2 /\ (a \div 64) % 2 = (b \div 64) % 2
      /\ (a \div 32) % 2 = (b \div 32) % 2 /\ (a \div 16) % 2 = (b \div 16) % 2
  BY <1>1, Powers DEF BitOf
<1>4. /\ (a \div 8) % 2 = (b \div 8) % 2 /\ (a \div 4) % 2 = (b \div 4) % 2
      /\ (a \div 2) % 2 = (b \div 2) % 2 /\ (a \div 1) % 2 = (b \div 1) % 2
  BY <1>2, Powers DEF BitOf
<1>5. \A c \in 0 .. 255 :
          /\ c \div 128 = (c \div 128) % 2
          /\ c \div 64 = 2 * (c \div 128) + ((c \div 64) % 2)
          /\ c \div 32 = 2 * (c \div 64) + ((c \div 32) % 2)
          /\ c \div 16 = 2 * (c \div 32) + ((c \div 16) % 2)
  OBVIOUS
<1>6. \A c \in 0 .. 255 :
          /\ c \div 8 = 2 * (c \div 16) + ((c \div 8) % 2)
          /\ c \div 4 = 2 * (c \div 8) + ((c \div 4) % 2)
          /\ c \div 2 = 2 * (c \div 4) + ((c \div 2) % 2)
          /\ c = 2 * (c \div 2) + ((c \div 1) % 2)
  OBVIOUS
<1>7. a \div 16 = b \div 16
  BY <1>3, <1>5 DEF Octets
<1> QED
  BY <1>4, <1>6, <1>7 DEF Octets

\* EncodeBase64 is right for data of any length: the text holds the bits of the data in their
\* places, zero-filled to whole sextets, and '=' up to a multiple of four characters.
THEOREM EncodedRightCorrect == Spec => []EncodedRight
<1>1. IterInv /\ BitsInv => EncodedRight
  <2> SUFFICES ASSUME IterInv, BitsInv, stage = "encoded" PROVE EncodedRight
    BY DEF EncodedRight
  <2>1. data \in Seq(0 .. 255) /\ TextOf(data, text)
    BY DEF BitsInv
  <2>2. text \in Seq(Chars)
    BY DEF IterInv, Encoding, Encoded, Decoding, Ended
  <2>3. PICK n \in Nat, l \in Nat : n = Len(data) /\ l = Len(text) /\ DOMAIN text = 1 .. l
    BY <2>1, <2>2
  <2>4. PICK k \in Nat : k = (8 * n + 5) \div 6 /\ k = Sextet(data)
    BY <2>3 DEF Sextet
  <2>5. l % 4 = 0
    BY <2>1, <2>3 DEF TextOf
  <2>6. ASSUME NEW i \in DOMAIN text PROVE text[i] = Pad <=> i > k
    <3>1. i \in 1 .. l
      BY <2>3
    <3>2. CASE i <= k
      <4>1. i \in 1 .. k
        BY <3>1, <3>2
      <4>2. text[i] \in 0 .. 63
        BY <2>1, <2>4, <4>1 DEF TextOf
      <4>3. Pad \notin 0 .. 255
        BY Base64Assumption, Zenon
      <4>4. text[i] # Pad
        BY <4>2, <4>3
      <4> QED BY <3>1, <3>2, <4>4
    <3>3. CASE i > k
      <4>1. i \in k + 1 .. l
        BY <3>1, <3>3
      <4>2. text[i] = Pad
        BY <2>1, <2>3, <2>4, <4>1 DEF TextOf
      <4> QED BY <3>3, <4>2
    <3> QED BY <3>1, <3>2, <3>3
  <2>7. \A j \in 0 .. 6 * k - 1 : Bit(text, 6, j) = IF j < 8 * n THEN Bit(data, 8, j) ELSE 0
    BY <2>1, <2>3, <2>4 DEF TextOf, SourceBit
  <2> QED BY <2>3, <2>4, <2>5, <2>6, <2>7 DEF EncodedRight
<1> QED
  BY <1>1, BitsInvariant, PTL

\* DecodeBase64 is right for a text of any length: it returns as many whole bytes as the text
\* has bits for, and they hold the bits of the text in their places, '=' counting as zeros.
THEOREM DecodedRightCorrect == Spec => []DecodedRight
<1>1. BitsInv => DecodedRight
  BY DEF BitsInv
<1> QED
  BY <1>1, BitsInvariant, PTL

\* The whole text, padding included, reads as the data and zeros behind it.
LEMMA TextBits ==
    ASSUME NEW d \in Seq(0 .. 255), NEW t, TextOf(d, t), NEW z \in Nat, z < 6 * Len(t)
    PROVE  Bit(t, 6, z) = SourceBit(d, 8, z)
<1>1. PICK n \in Nat : n = Len(d)
  OBVIOUS
<1>2. PICK k \in Nat : k = Sextet(d) /\ 8 * n <= 6 * k
  BY <1>1 DEF Sextet
<1>3. PICK p \in 0 .. 2 : p = Padding(n)
  BY DEF Padding
<1>4. Len(t) = k + p
  BY <1>1, <1>2, <1>3 DEF TextOf
<1>5. CASE z < 6 * k
  <2>1. z \in 0 .. 6 * k - 1
    BY <1>5
  <2> QED BY <1>2, <2>1 DEF TextOf
<1>6. CASE z >= 6 * k
  <2>1. PICK q \in Nat, j \in 0 .. 6 - 1 : z = 6 * q + j
    BY PlaceOfBit
  <2>2. q + 1 \in k + 1 .. k + p
    BY <1>4, <1>6, <2>1
  <2>3. t[q + 1] = Pad
    BY <1>2, <1>4, <2>2 DEF TextOf
  <2>4. Bit(t, 6, z) = BitOf(ToSixBits(t[q + 1]), 6 - 1 - j)
    BY <2>1, BitAt
  <2>5. ToSixBits(t[q + 1]) = 0
    BY <2>3 DEF ToSixBits
  <2>6. 6 - 1 - j \in 0 .. 8
    OBVIOUS
  <2>7. Bit(t, 6, z) = 0
    BY <2>4, <2>5, <2>6, ZeroBits
  <2>8. ~(z < 8 * n)
    BY <1>2, <1>6
  <2> QED BY <1>1, <2>7, <2>8 DEF SourceBit
<1> QED
  BY <1>5, <1>6

\* What DecodeBase64 makes of the text t.
BytesOf(t, o) ==
    /\ Len(o) = (6 * Len(t)) \div 8
    /\ \A k \in 0 .. 8 * Len(o) - 1 : Bit(o, 8, k) = Bit(t, 6, k)

LEMMA DataRecovered ==
    ASSUME NEW d \in Seq(Octets), NEW t, TextOf(d, t), NEW o \in Seq(Octets), BytesOf(t, o)
    PROVE  /\ Len(o) = Len(d) + Padding(Len(d))
           /\ \A i \in DOMAIN o : o[i] = IF i <= Len(d) THEN d[i] ELSE 0
<1>1. PICK n \in Nat : n = Len(d)
  OBVIOUS
<1>2. PICK k \in Nat : k = Sextet(d) /\ 8 * n <= 6 * k /\ 6 * k < 8 * n + 6
  BY <1>1, SextetsSuffice DEF Sextet
<1>3. PICK p \in 0 .. 2 : p = Padding(n) /\ (6 * (k + p)) \div 8 = n + p /\ 8 * (n + p) <= 6 * (k + p)
  BY <1>2, PaddingCounts
<1>4. Len(t) = k + p
  BY <1>1, <1>2, <1>3 DEF TextOf
<1>5. Len(o) = n + p
  BY <1>3, <1>4 DEF BytesOf
<1>6. d \in Seq(0 .. 255)
  BY DEF Octets
<1>7. ASSUME NEW i \in 1 .. n + p PROVE o[i] = IF i <= n THEN d[i] ELSE 0
  <2>1. o[i] \in Octets
    <3>1. i \in 1 .. Len(o)
      BY <1>5
    <3> QED BY <3>1
  <2>2. PICK q \in Nat : q = i - 1 /\ q + 1 = i
    OBVIOUS
  <2>3. ASSUME NEW s \in 0 .. 7
        PROVE  \E j \in 0 .. 7 :
                  /\ 7 - j = s /\ 8 * q + j \in 0 .. 8 * (n + p) - 1
                  /\ BitOf(o[i], s) = SourceBit(d, 8, 8 * q + j)
    <3>1. PICK j \in 0 .. 8 - 1 : j = 7 - s /\ 8 - 1 - j = s /\ 7 - j = s
      OBVIOUS
    <3>2. PICK z \in Nat : z = 8 * q + j
      OBVIOUS
    <3>3. z \in 0 .. 8 * (n + p) - 1 /\ z < 6 * (k + p)
      <4>1. q < n + p /\ z < 8 * (n + p)
        BY <2>2, <3>2
      <4>2. 8 * (n + p) <= 6 * (k + p)
        BY <1>3
      <4> QED BY <4>1, <4>2
    <3>4. Bit(o, 8, 8 * q + j) = BitOf(ToSixBits(o[q + 1]), 8 - 1 - j)
      BY BitAt
    <3>5. ToSixBits(o[i]) = o[i]
      <4>1. PICK c \in 0 .. 255 : c = o[i]
        BY <2>1 DEF Octets
      <4> QED BY <4>1, ByteIsNoPad
    <3>6. BitOf(o[i], s) = Bit(o, 8, z)
      BY <2>2, <3>1, <3>2, <3>4, <3>5
    <3>7. Bit(o, 8, z) = Bit(t, 6, z)
      BY <1>5, <3>3 DEF BytesOf
    <3>8. Bit(t, 6, z) = SourceBit(d, 8, z)
      BY <1>4, <1>6, <3>3, TextBits
    <3>9. j \in 0 .. 7 /\ BitOf(o[i], s) = SourceBit(d, 8, 8 * q + j) /\ 8 * q + j \in 0 .. 8 * (n + p) - 1
      BY <3>2, <3>3, <3>6, <3>7, <3>8
    <3> QED BY <3>1, <3>9
  <2>4. CASE i <= n
    <3>1. d[i] \in Octets
      <4>1. i \in 1 .. Len(d)
        BY <1>1, <2>4
      <4> QED BY <4>1
    <3>2. ASSUME NEW s \in 0 .. 7 PROVE BitOf(o[i], s) = BitOf(d[i], s)
      <4>1. PICK j \in 0 .. 8 - 1 : 7 - j = s /\ 8 - 1 - j = s /\ BitOf(o[i], s) = SourceBit(d, 8, 8 * q + j)
        BY <2>3
      <4>2. 8 * q + j < 8 * n
        BY <2>2, <2>4
      <4>3. Bit(d, 8, 8 * q + j) = BitOf(ToSixBits(d[q + 1]), 8 - 1 - j)
        BY BitAt
      <4>4. ToSixBits(d[i]) = d[i]
        <5>1. PICK c \in 0 .. 255 : c = d[i]
          BY <3>1 DEF Octets
        <5> QED BY <5>1, ByteIsNoPad
      <4>5. Bit(d, 8, 8 * q + j) = BitOf(d[i], s)
        BY <2>2, <4>1, <4>3, <4>4
      <4> QED BY <1>1, <4>1, <4>2, <4>5 DEF SourceBit
    <3>3. o[i] = d[i]
      <4>1. SameBits(o[i], d[i])
        BY <3>2 DEF SameBits
      <4> QED BY <2>1, <3>1, <4>1, SameByte
    <3> QED BY <2>4, <3>3
  <2>5. CASE i > n
    <3>1. ASSUME NEW s \in 0 .. 7 PROVE BitOf(o[i], s) = BitOf(0, s)
      <4>1. PICK j \in 0 .. 7 : BitOf(o[i], s) = SourceBit(d, 8, 8 * q + j)
        BY <2>3
      <4>2. ~(8 * q + j < 8 * n)
        BY <2>2, <2>5
      <4>3. BitOf(o[i], s) = 0
        BY <1>1, <4>1, <4>2 DEF SourceBit
      <4>4. s \in 0 .. 8
        OBVIOUS
      <4>5. BitOf(0, s) = 0
        BY <4>4, ZeroBits
      <4> QED BY <4>3, <4>5
    <3>2. o[i] = 0
      <4>1. PICK zero \in Octets : zero = 0
        BY DEF Octets
      <4>2. SameBits(o[i], zero)
        BY <3>1, <4>1 DEF SameBits
      <4>3. o[i] = zero
        BY <2>1, <4>1, <4>2, SameByte
      <4> QED BY <4>1, <4>3
    <3> QED BY <2>5, <3>2
  <2> QED BY <2>4, <2>5
<1>8. DOMAIN o = 1 .. n + p
  BY <1>5
<1> QED
  BY <1>1, <1>3, <1>5, <1>7, <1>8

\* What a client encodes reaches the server complete, for data of any length: DecodeBase64
\* does not throw on what EncodeBase64 produced, and returns the data and behind it only
\* zero bytes, one for each '='.
THEOREM DataSurvivesCorrect == Spec => []DataSurvives
<1>1. IterInv /\ BitsInv => DataSurvives
  <2> SUFFICES ASSUME IterInv, BitsInv, stage \in {"decoded", "thrown"}, data # NoData PROVE DataSurvives
    BY DEF DataSurvives
  <2>1. data \in Seq(0 .. 255) /\ TextOf(data, text)
    BY DEF BitsInv
  <2>2. Ended
    BY DEF IterInv, Encoding, Encoded, Decoding
  <2>3. out \in Seq(0 .. 255) /\ text \in Seq(Chars) /\ ThrowsExactly
    BY <2>2 DEF Ended
  <2>4. stage = "decoded"
    <3>1. PICK l \in Nat : l = Len(text) /\ DOMAIN text = 1 .. l
      BY <2>3
    <3>2. l % 4 # 1
      BY <2>1, <3>1 DEF TextOf
    <3>3. PICK k \in Nat : k = Sextet(data)
      BY <2>1 DEF Sextet
    <3>4. Invalid \notin 0 .. 255 /\ Pad # Invalid
      BY Base64Assumption, Zenon
    <3>5. ASSUME NEW i \in DOMAIN text PROVE text[i] # Invalid
      <4>1. i \in 1 .. k \/ i \in k + 1 .. l
        BY <3>1
      <4>2. text[i] \in 0 .. 63 \/ text[i] = Pad
        BY <2>1, <3>1, <3>3, <4>1 DEF TextOf
      <4> QED BY <3>4, <4>2
    <3> QED BY <2>3, <3>1, <3>2, <3>5 DEF ThrowsExactly
  <2>5. BytesOf(text, out)
    BY <2>4 DEF BitsInv, DecodedRight, BytesOf
  <2>6. /\ Len(out) = Len(data) + Padding(Len(data))
        /\ \A i \in DOMAIN out : out[i] = IF i <= Len(data) THEN data[i] ELSE 0
    <3>1. data \in Seq(Octets) /\ out \in Seq(Octets)
      BY <2>1, <2>3 DEF Octets
    <3> QED BY <2>1, <2>5, <3>1, DataRecovered
  <2> QED BY <2>4, <2>6 DEF DataSurvives
<1> QED
  BY <1>1, BitsInvariant, PTL

=============================================================================
