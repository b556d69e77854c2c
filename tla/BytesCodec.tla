------------------------------ MODULE BytesCodec ------------------------------
(***************************************************************************)
(* The header of a length-prefixed frame:                                  *)
(* libs/hbb_common/src/bytes_codec.rs.                                     *)
(***************************************************************************)
EXTENDS Integers, Sequences

(* mutant: the two-byte header begins one too late *)
EncodeHeadLate(n) ==
  IF n <= 64 THEN <<(4 * n) % 256>>
  ELSE <<((4 * n) % 256) + 1, ((4 * n) \div 256) % 256>>

\* encode, the header: the length above two bits that say how long the header is.
EncodeHead(n) ==
  IF n <= 63 THEN <<4 * n>>
  ELSE IF n <= 16383 THEN <<((4 * n) % 256) + 1, (4 * n) \div 256>>
  ELSE IF n <= 4194303
       THEN <<((4 * n) % 256) + 2, ((4 * n) \div 256) % 256, (4 * n) \div 65536>>
  ELSE <<((4 * n) % 256) + 3, ((4 * n) \div 256) % 256, ((4 * n) \div 65536) % 256,
         (4 * n) \div 16777216>>

\* decode_head: the length of the header, from its first byte, and the length it holds.
HeadLen(b) == (b % 4) + 1
DecodeHead(h) ==
  (h[1] + (IF Len(h) > 1 THEN 256 * h[2] ELSE 0)
        + (IF Len(h) > 2 THEN 65536 * h[3] ELSE 0)
        + (IF Len(h) > 3 THEN 16777216 * h[4] ELSE 0)) \div 4
=============================================================================
