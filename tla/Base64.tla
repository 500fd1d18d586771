------------------------------- MODULE Base64 -------------------------------
(***************************************************************************)
(* EncodeBase64 and DecodeBase64 of json_protocol.cpp, which copy from one *)
(* sequence to the other through the iterators of boost::archive:          *)
(* transform_width regroups 8 bits to 6 or 6 to 8 with a small buffer, and *)
(* the base64 iterators translate between sextets and characters.          *)
(*                                                                         *)
(* One step is one pass through the loop of transform_width::fill(), or    *)
(* one comparison with the end iterator.  A behaviour either encodes some  *)
(* data and then decodes the text it produced, as a client and the server  *)
(* do for memory_write, or decodes any text a client may send.             *)
(*                                                                         *)
(* A character is the sextet it stands for, Pad ('=') or Invalid.          *)
(***************************************************************************)
EXTENDS Integers, Sequences

CONSTANTS
    Bytes,     \* the bytes that data is made of
    Sextets,   \* the sextets that the text of a client is made of
    Pad,       \* '='
    Invalid,   \* a character outside the alphabet, the terminating NUL included
    NoData,    \* the text comes from a client, not from EncodeBase64
    MaxBytes,  \* bound: length of data
    MaxChars   \* bound: length of a client's text

Chars == 0 .. 63 \cup {Pad, Invalid}

ASSUME Base64Assumption ==
    /\ Bytes \subseteq 0 .. 255 /\ Sextets \subseteq 0 .. 63
    /\ {Pad, Invalid} \cap (0 .. 255) = {}
    /\ Pad # Invalid
    /\ MaxBytes \in Nat /\ MaxChars \in Nat

VARIABLES
    stage,            \* encode, encoded, decode, decoded or thrown
    data,             \* the argument of EncodeBase64
    text,             \* its result, the argument of DecodeBase64
    out,              \* the result of DecodeBase64
    base,             \* transform_width: elements read through the base iterator
    buffer_in,        \* m_buffer_in
    remaining_bits,   \* m_remaining_bits
    end_of_sequence,  \* m_end_of_sequence
    buffer_out,       \* m_buffer_out
    missing_bits      \* fill()'s missing_bits; 0 outside fill()

iterator == <<base, buffer_in, remaining_bits, end_of_sequence, buffer_out, missing_bits>>
vars == <<stage, data, text, out, iterator>>

Strings(S, n) == UNION {[1 .. k -> S] : k \in 0 .. n}

Init ==
    /\ \/ stage = "encode" /\ data \in Strings(Bytes, MaxBytes) /\ text = <<>>
       \/ stage = "decode" /\ data = NoData /\ text \in Strings(Sextets \cup {Pad, Invalid}, MaxChars)
    /\ out = <<>>
    /\ base = 0 /\ buffer_in = 0 /\ remaining_bits = 0
    /\ end_of_sequence = FALSE
    /\ buffer_out = 0 /\ missing_bits = 0

-----------------------------------------------------------------------------
Running == stage \in {"encode", "decode"}
BitsIn == IF stage = "encode" THEN 8 ELSE 6
BitsOut == IF stage = "encode" THEN 6 ELSE 8
Source == IF stage = "encode" THEN data ELSE text
Output == IF stage = "encode" THEN text ELSE out
AtEnd == base = Len(Source)

EqualDiscards == AtEnd
EqualZeroFills == AtEnd /\ remaining_bits = 0
\* transform_width::equal_impl: left over bits are discarded when the groups grow
\* and filled up with zeros when they shrink.
Equal == IF BitsIn < BitsOut THEN AtEnd ELSE AtEnd /\ remaining_bits = 0

\* The iterator is not at the end: dereference it, that is enter fill().
StartFill ==
    /\ Running /\ missing_bits = 0 /\ ~Equal
    /\ missing_bits' = BitsOut
    /\ buffer_out' = 0
    /\ end_of_sequence' = (end_of_sequence \/ (BitsIn > BitsOut /\ AtEnd))
    /\ UNCHANGED <<stage, data, text, out, base, buffer_in, remaining_bits>>

\* binary_from_base64 renders '=' as 0.
ToSixBits(ch) == IF ch = Pad THEN 0 ELSE ch

\* The base iterator can be read: to_6_bit throws for a character outside the alphabet, and
\* so for the NUL behind the text.
Readable == IF AtEnd THEN FALSE ELSE Source[base + 1] # Invalid

\* fill() needs bits and there is another element to read.
LoadNext ==
    /\ Running /\ missing_bits > 0 /\ remaining_bits = 0
    /\ ~end_of_sequence /\ Readable
    /\ buffer_in' = ToSixBits(Source[base + 1])
    /\ remaining_bits' = BitsIn
    /\ base' = base + 1
    /\ UNCHANGED <<stage, data, text, out, end_of_sequence, buffer_out, missing_bits>>

LoadZerosWhole ==
    /\ Running /\ missing_bits > 0 /\ remaining_bits = 0
    /\ end_of_sequence
    /\ buffer_in' = 0
    /\ remaining_bits' = BitsIn
    /\ UNCHANGED <<stage, data, text, out, base, end_of_sequence, buffer_out, missing_bits>>

\* fill() needs bits after the end: zeros.
LoadZeros ==
    /\ Running /\ missing_bits > 0 /\ remaining_bits = 0
    /\ end_of_sequence
    /\ buffer_in' = 0
    /\ remaining_bits' = missing_bits
    /\ UNCHANGED <<stage, data, text, out, base, end_of_sequence, buffer_out, missing_bits>>

\* fill() needs bits and the next element cannot be read.
LoadThrows ==
    /\ Running /\ missing_bits > 0 /\ remaining_bits = 0
    /\ ~end_of_sequence /\ ~Readable
    /\ stage' = "thrown"
    /\ UNCHANGED <<data, text, out, iterator>>

LesserByOne(a, b) == IF a < b THEN a ELSE b - 1
Lesser(a, b) == IF a < b THEN a ELSE b

Unmasked(n) == buffer_in \div 2 ^ (remaining_bits - n)
LowBits(n) == buffer_in % 2 ^ n
\* The next n bits of buffer_in, the most significant ones first.
NextBits(n) == (buffer_in \div 2 ^ (remaining_bits - n)) % 2 ^ n

\* The rest of a pass of fill(): move bits from the input to the output buffer;
\* with the last one, the copied element is complete.
AppendBits ==
    LET i == Lesser(missing_bits, remaining_bits)
        b == buffer_out * 2 ^ i + NextBits(i)
        complete == missing_bits = i
    IN
    /\ Running /\ missing_bits > 0 /\ remaining_bits > 0
    /\ buffer_out' = b
    /\ missing_bits' = missing_bits - i
    /\ remaining_bits' = remaining_bits - i
    /\ text' = IF complete /\ stage = "encode" THEN Append(text, b) ELSE text
    /\ out' = IF complete /\ stage = "decode" THEN Append(out, b) ELSE out
    /\ UNCHANGED <<stage, data, base, buffer_in, end_of_sequence>>

PaddingOf(n) == 3 - (n % 3)
\* How many '=' EncodeBase64 appends to n bytes.
Padding(n) == (3 - (n % 3)) % 3

\* The rest of EncodeBase64: append the padding.
FinishEncode ==
    /\ stage = "encode" /\ missing_bits = 0 /\ Equal
    /\ text' = text \o [i \in 1 .. Padding(Len(data)) |-> Pad]
    /\ stage' = "encoded"
    /\ UNCHANGED <<data, out, iterator>>

FinishDecode ==
    /\ stage = "decode" /\ missing_bits = 0 /\ Equal
    /\ stage' = "decoded"
    /\ UNCHANGED <<data, text, out, iterator>>

\* The text reaches a decoder, which has an iterator of its own.
Hand ==
    /\ stage = "encoded"
    /\ stage' = "decode"
    /\ base' = 0 /\ buffer_in' = 0 /\ remaining_bits' = 0
    /\ end_of_sequence' = FALSE
    /\ buffer_out' = 0 /\ missing_bits' = 0
    /\ UNCHANGED <<data, text, out>>

Next ==
    \/ StartFill \/ LoadNext \/ LoadZeros \/ LoadThrows \/ AppendBits
    \/ FinishEncode \/ FinishDecode \/ Hand

Spec == Init /\ [][Next]_vars
\* The code is sequential and does not wait for anything.
FairSpec == Spec /\ WF_vars(Next)

-----------------------------------------------------------------------------
(* Properties. *)

\* Bit k of a sequence of w-bit numbers, counted from 0 at the most significant end.
Bit(s, w, k) == (ToSixBits(s[k \div w + 1]) \div 2 ^ (w - 1 - (k % w))) % 2

\* The type invariant: groups stay within their width, so that no bits of one element
\* spill into the next.
TypeOK ==
    /\ stage \in {"encode", "encoded", "decode", "decoded", "thrown"}
    /\ text \in Seq(Chars) /\ out \in Seq(0 .. 255)
    /\ base \in 0 .. Len(Source)
    /\ buffer_in \in 0 .. 255
    /\ remaining_bits \in 0 .. 8 /\ missing_bits \in 0 .. 8
    /\ end_of_sequence \in BOOLEAN
    /\ buffer_out \in 0 .. 255

\* Bits the iterator has taken out of its input, so far.
Moved == BitsOut * Len(Output) + (IF missing_bits = 0 THEN 0 ELSE BitsOut - missing_bits)

\* transform_width neither loses nor invents a bit while it runs: what it read is in the
\* output, in the output buffer or left in the input buffer, and only at the end of the
\* input zeros come in, less than an element of them.
BitsConserved ==
    Running =>
        /\ ~end_of_sequence => BitsIn * base = Moved + remaining_bits
        /\ end_of_sequence =>
              /\ AtEnd
              /\ BitsIn * base <= Moved + remaining_bits
              /\ Moved + remaining_bits < BitsIn * base + BitsOut

\* EncodeBase64 produces the bits of its argument, zero-filled to whole sextets, and '='
\* up to a multiple of four characters.
EncodedRight ==
    stage = "encoded" =>
        LET n == Len(data)
            sextets == (8 * n + 5) \div 6
        IN  /\ Len(text) % 4 = 0
            /\ \A i \in DOMAIN text : text[i] = Pad <=> i > sextets
            /\ \A k \in 0 .. 6 * sextets - 1 :
                  Bit(text, 6, k) = IF k < 8 * n THEN Bit(data, 8, k) ELSE 0

\* DecodeBase64 produces the bits of its argument, '=' counting as zero bits, as many
\* whole bytes as there are.
DecodedRight ==
    stage = "decoded" =>
        /\ Len(out) = (6 * Len(text)) \div 8
        /\ \A k \in 0 .. 8 * Len(out) - 1 : Bit(out, 8, k) = Bit(text, 6, k)

\* DecodeBase64 throws exactly when the text has a character outside the alphabet or one
\* character more than a multiple of four.
ThrowsExactly ==
    LET bad == Len(text) % 4 = 1 \/ \E i \in DOMAIN text : text[i] = Invalid
    IN  /\ stage = "thrown" => bad
        /\ stage = "decoded" => ~bad

\* Data that was encoded comes back complete and in front; what follows is at most two
\* zero bytes, one for each '='.
DataSurvives ==
    stage \in {"decoded", "thrown"} /\ data # NoData =>
        /\ stage = "decoded"
        /\ Len(out) = Len(data) + Padding(Len(data))
        /\ \A i \in DOMAIN out : out[i] = IF i <= Len(data) THEN data[i] ELSE 0

\* Both conversions come to an end, whatever the text.
Terminates == <>(stage \in {"decoded", "thrown"})

\* What the test of json_protocol.cpp requires: the decoded data of a memory_write is the
\* data that was encoded.
RoundTrip == stage = "decoded" /\ data # NoData => out = data
=============================================================================
