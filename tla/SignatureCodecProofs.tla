------------------------ MODULE SignatureCodecProofs ------------------------
(***************************************************************************)
(* What the cut in the middle does to a signature, for numbers of any      *)
(* length.                                                                 *)
(***************************************************************************)
EXTENDS SignatureCodec, TLAPS

LEMMA JoinedBytes ==
  ASSUME NEW r \in Numeral, NEW s \in Numeral
  PROVE  /\ Join(r, s) \in Seq(Byte)
         /\ Len(Join(r, s)) = Len(r) + Len(s)
         /\ Len(r) \in Nat \ {0} /\ Len(s) \in Nat \ {0}
         /\ \A i \in 1 .. Len(r) : Join(r, s)[i] = r[i]
         /\ \A i \in 1 .. Len(s) : Join(r, s)[Len(r) + i] = s[i]
BY DEF Join, Numeral

\* Bytes without leading zeros stand for the number whose bytes they are.
LEMMA SameBytes ==
  ASSUME NEW b, NEW x \in Seq(Byte), Len(b) = Len(x),
         \A i \in 1 .. Len(x) : b[i] = x[i]
  PROVE  SetBytesGives(b, x)
<1>1. Len(x) \in Nat /\ Len(b) - Len(x) = 0
  OBVIOUS
<1>2. \A i \in 1 .. Len(b) : ~ (i <= 0) /\ i - 0 = i
  BY <1>1
<1> QED BY <1>1, <1>2 DEF SetBytesGives

\* A cut after as many bytes as the first number has gives back both numbers.
LEMMA CutAtFirst ==
  ASSUME NEW r \in Numeral, NEW s \in Numeral, Half(Join(r, s)) = Len(r)
  PROVE  Verifies(Join(r, s), r, s)
<1> DEFINE sig == Join(r, s)
<1>1. /\ sig \in Seq(Byte) /\ Len(sig) = Len(r) + Len(s)
      /\ Len(r) \in Nat \ {0} /\ Len(s) \in Nat \ {0}
  BY JoinedBytes
<1>2. SetBytesGives(SubSeq(sig, 1, Len(r)), r)
  <2>1. Len(SubSeq(sig, 1, Len(r))) = Len(r)
    BY <1>1
  <2>2. \A i \in 1 .. Len(r) : SubSeq(sig, 1, Len(r))[i] = r[i]
    BY <1>1, JoinedBytes
  <2> HIDE DEF sig
  <2> QED BY <2>1, <2>2, SameBytes DEF Numeral
<1>3. SetBytesGives(SubSeq(sig, Len(r) + 1, Len(sig)), s)
  <2>1. Len(SubSeq(sig, Len(r) + 1, Len(sig))) = Len(s)
    BY <1>1
  <2>2. \A i \in 1 .. Len(s) : SubSeq(sig, Len(r) + 1, Len(sig))[i] = sig[Len(r) + i]
    BY <1>1
  <2>3. \A i \in 1 .. Len(s) : sig[Len(r) + i] = s[i]
    BY JoinedBytes
  <2> HIDE DEF sig
  <2> QED BY <2>1, <2>2, <2>3, SameBytes DEF Numeral
<1> QED BY <1>1, <1>2, <1>3 DEF Verifies

\* A cut anywhere else leaves too few bytes for one of the two.
LEMMA CutElsewhere ==
  ASSUME NEW r \in Numeral, NEW s \in Numeral, Verifies(Join(r, s), r, s)
  PROVE  Half(Join(r, s)) = Len(r)
<1> DEFINE sig == Join(r, s)
           h == Half(sig)
<1>1. /\ sig \in Seq(Byte) /\ Len(sig) = Len(r) + Len(s)
      /\ Len(r) \in Nat \ {0} /\ Len(s) \in Nat \ {0}
  BY JoinedBytes
<1>2. h \in Nat /\ h <= Len(sig)
  BY <1>1 DEF Half
<1>3. Len(SubSeq(sig, 1, h)) = h /\ Len(SubSeq(sig, h + 1, Len(sig))) = Len(sig) - h
  BY <1>1, <1>2
<1>4. h - Len(r) >= 0
  BY <1>3 DEF Verifies, SetBytesGives
<1>5. (Len(sig) - h) - Len(s) >= 0
  BY <1>3 DEF Verifies, SetBytesGives
<1> QED BY <1>1, <1>2, <1>4, <1>5

(* The server finds the numbers of a signature exactly if the second has as *)
(* many bytes as the first or one more: verifyECDSA's cut of what           *)
(* assinarRequest joins.                                                    *)
THEOREM SignatureCut ==
  ASSUME NEW r \in Numeral, NEW s \in Numeral
  PROVE  Verifies(Join(r, s), r, s) <=> LengthsFit(r, s)
<1>1. /\ Len(Join(r, s)) = Len(r) + Len(s)
      /\ Len(r) \in Nat \ {0} /\ Len(s) \in Nat \ {0}
  BY JoinedBytes
<1>2. Half(Join(r, s)) = Len(r) <=> LengthsFit(r, s)
  BY <1>1 DEF Half, LengthsFit
<1> QED BY <1>2, CutAtFirst, CutElsewhere
=============================================================================
