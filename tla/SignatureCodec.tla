--------------------------- MODULE SignatureCodec ---------------------------
(***************************************************************************)
(* How the two numbers of an ECDSA signature travel: the client puts the   *)
(* bytes of r and s one after the other, each without leading zeros        *)
(* (assinarRequest in client/client.go), and the server cuts what it gets  *)
(* in the middle (verifyECDSA in internal/blockchain/signature.go).        *)
(*                                                                         *)
(* A positive number is the sequence of its bytes, the highest first and   *)
(* not zero, so that no arithmetic is needed to tell whether two numbers   *)
(* are the same.  ECDSA accepts the two numbers that the client signed     *)
(* with, and no others that a cut in the wrong place makes of them.        *)
(***************************************************************************)
EXTENDS Integers, Sequences

CONSTANT Byte       \* the values of a byte

ASSUME ByteAssumption == 0 \in Byte

\* The bytes that big.Int.Bytes gives of a positive number.
Numeral == { b \in Seq(Byte) : b # << >> /\ b[1] # 0 }

\* big.Int.SetBytes makes of b the number that Bytes gives as x: zeros come first.
SetBytesGives(b, x) ==
  LET zeros == Len(b) - Len(x) IN
    /\ zeros >= 0
    /\ \A i \in 1 .. Len(b) : b[i] = IF i <= zeros THEN 0 ELSE x[i - zeros]

Join(r, s) == r \o s

Half(sig) == Len(sig) \div 2

\* Whether the server finds in sig the numbers r and s that the client signed with.
Verifies(sig, r, s) ==
  /\ Len(sig) >= 2
  /\ SetBytesGives(SubSeq(sig, 1, Half(sig)), r)
  /\ SetBytesGives(SubSeq(sig, Half(sig) + 1, Len(sig)), s)

\* The lengths that come through the cut: s may have one byte more than r.
\* (Each has 32 bytes but for one in 256, which has fewer.)
LengthsFit(r, s) == Len(s) \in { Len(r), Len(r) + 1 }
=============================================================================
