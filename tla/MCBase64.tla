------------------------------ MODULE MCBase64 ------------------------------
(* Instances of Base64 for TLC. *)
EXTENDS Base64

\* All zeros, all ones, a single bit at either end, and alternating bits.
SampleBytes == {0, 1, 128, 165, 255}
SampleSextets == {0, 33, 63}
=============================================================================
