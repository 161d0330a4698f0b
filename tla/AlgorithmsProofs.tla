-------------------------- MODULE AlgorithmsProofs --------------------------
(***************************************************************************)
(* Why tokens survive the database although b64enc is not base64 where     *)
(* char is signed: on the characters that b64enc writes, decoding and      *)
(* encoding again changes nothing.  First for a group of three bytes, then *)
(* for strings of every length; and what b64enc writes where it is base64. *)
(* And that Packet::parse undoes Packet::build, and accepts nothing else;  *)
(* and that handleCommand gives a command the words that were meant.       *)
(***************************************************************************)
EXTENDS Codec, Framing, CommandLine, FiniteSetTheorems, SequenceTheorems, TLAPS

Octet == 0..255

\* What the encoder writes are values of the alphabet.
LEMMA EncodedRange ==
  ASSUME NEW a \in 0..255, NEW b \in 0..255, NEW c \in 0..255
  PROVE  /\ Enc1(a) \in 0..63 /\ Enc2(a, b) \in 0..63
         /\ Enc3(b, c) \in 0..63 /\ Enc4(c) \in 0..63
  BY DEF Enc1, Enc2, Enc3, Enc4, Merge, Char

\* What the decoder makes of them are bytes.
LEMMA DecodedRange ==
  ASSUME NEW p \in 0..63, NEW q \in 0..63, NEW r \in 0..63, NEW s \in 0..63
  PROVE  Dec1(p, q) \in 0..255 /\ Dec2(q, r) \in 0..255 /\ Dec3(r, s) \in 0..255
  BY DEF Dec1, Dec2, Dec3

\* Where char is signed, the second character of a group has both high bits
\* set when the byte it borrows from is negative, and the third has four.
LEMMA EncodedSign ==
  ASSUME NEW a \in 0..255, NEW b \in 0..255, SignedChar
  PROVE  /\ Enc2(a, b) % 16 >= 8 => Enc2(a, b) >= 48
         /\ Enc3(a, b) % 4 >= 2 => Enc3(a, b) >= 60
  BY DEF Enc2, Enc3, Merge, Char

\* Such a second character is written again from the bytes read from it.
LEMMA SecondKept ==
  ASSUME NEW p \in 0..63, NEW q \in 0..63, NEW r \in 0..63,
         SignedChar /\ q % 16 >= 8 => q >= 48
  PROVE  Enc2(Dec1(p, q), Dec2(q, r)) = q
<1>1. PICK h \in 0..3, l \in 0..15 : q = 16 * h + l
  <2>1. q \div 16 \in 0..3 /\ q % 16 \in 0..15 /\ q = 16 * (q \div 16) + (q % 16)
    OBVIOUS
  <2> QED
    BY <2>1
<1>2. PICK t \in 0..15 : t = r \div 4
  <2>1. r \div 4 \in 0..15
    OBVIOUS
  <2> QED
    BY <2>1
<1>3. q \div 16 = h /\ q % 16 = l /\ (16 * q) % 256 = 16 * l
  BY <1>1
<1>4. (Dec1(p, q) * 16) % 64 = 16 * h
  BY <1>3 DEF Dec1
<1>5. Dec2(q, r) = 16 * l + t
  BY <1>2, <1>3 DEF Dec2
<1>6. CASE SignedChar /\ l >= 8
  <2>1. h = 3
    BY <1>1, <1>3, <1>6
  <2>2. Char(16 * l + t) \div 16 = l - 16
    BY <1>6 DEF Char
  <2> QED
    BY <1>1, <1>4, <1>5, <1>6, <2>1, <2>2 DEF Enc2, Merge
<1>7. CASE ~(SignedChar /\ l >= 8)
  <2>1. Char(16 * l + t) \div 16 = l
    BY <1>7 DEF Char
  <2> QED
    BY <1>1, <1>4, <1>5, <2>1 DEF Enc2, Merge
<1> QED
  BY <1>6, <1>7

\* And such a third character.
LEMMA ThirdKept ==
  ASSUME NEW q \in 0..63, NEW r \in 0..63, NEW s \in 0..63,
         SignedChar /\ r % 4 >= 2 => r >= 60
  PROVE  Enc3(Dec2(q, r), Dec3(r, s)) = r
<1>1. PICK h \in 0..15, l \in 0..3 : r = 4 * h + l
  <2>1. r \div 4 \in 0..15 /\ r % 4 \in 0..3 /\ r = 4 * (r \div 4) + (r % 4)
    OBVIOUS
  <2> QED
    BY <2>1
<1>2. PICK m \in 0..15 : (16 * q) % 256 = 16 * m
  <2>1. q % 16 \in 0..15 /\ (16 * q) % 256 = 16 * (q % 16)
    OBVIOUS
  <2> QED
    BY <2>1
<1>3. r \div 4 = h /\ r % 4 = l /\ (64 * r) % 256 = 64 * l
  BY <1>1
<1>4. (Dec2(q, r) * 4) % 64 = 4 * h
  BY <1>2, <1>3 DEF Dec2
<1>5. Dec3(r, s) = 64 * l + s
  BY <1>3 DEF Dec3
<1>6. CASE SignedChar /\ l >= 2
  <2>1. h = 15
    BY <1>1, <1>3, <1>6
  <2>2. Char(64 * l + s) \div 64 = l - 4
    BY <1>6 DEF Char
  <2> QED
    BY <1>1, <1>4, <1>5, <1>6, <2>1, <2>2 DEF Enc3, Merge
<1>7. CASE ~(SignedChar /\ l >= 2)
  <2>1. Char(64 * l + s) \div 64 = l
    BY <1>7 DEF Char
  <2> QED
    BY <1>1, <1>4, <1>5, <2>1 DEF Enc3, Merge
<1> QED
  BY <1>6, <1>7

(***************************************************************************)
(* A group of three bytes: the four characters b64enc wrote are written    *)
(* again from what b64dec reads in them, whether char is signed or not     *)
(* (account.cpp stores b64dec of a token and compares b64enc of that).     *)
(***************************************************************************)
THEOREM GroupSurvives ==
  ASSUME NEW a \in Octet, NEW b \in Octet, NEW c \in Octet
  PROVE  /\ Enc1(Dec1(Enc1(a), Enc2(a, b))) = Enc1(a)
         /\ Enc2(Dec1(Enc1(a), Enc2(a, b)), Dec2(Enc2(a, b), Enc3(b, c))) = Enc2(a, b)
         /\ Enc3(Dec2(Enc2(a, b), Enc3(b, c)), Dec3(Enc3(b, c), Enc4(c))) = Enc3(b, c)
         /\ Enc4(Dec3(Enc3(b, c), Enc4(c))) = Enc4(c)
<1>a. /\ Enc1(a) \in 0..63 /\ Enc2(a, b) \in 0..63
      /\ Enc3(b, c) \in 0..63 /\ Enc4(c) \in 0..63
  <2>1. a \in 0..255 /\ b \in 0..255 /\ c \in 0..255
    BY DEF Octet
  <2> QED
    BY <2>1 DEF Enc1, Enc2, Enc3, Enc4, Merge, Char
<1>b. /\ SignedChar /\ Enc2(a, b) % 16 >= 8 => Enc2(a, b) >= 48
      /\ SignedChar /\ Enc3(b, c) % 4 >= 2 => Enc3(b, c) >= 60
  BY EncodedSign, ZenonT(60) DEF Octet
<1>1. Enc1(Dec1(Enc1(a), Enc2(a, b))) = Enc1(a)
  BY <1>a DEF Enc1, Dec1
<1>2. Enc2(Dec1(Enc1(a), Enc2(a, b)), Dec2(Enc2(a, b), Enc3(b, c))) = Enc2(a, b)
  BY <1>a, <1>b, SecondKept, Zenon
<1>3. Enc3(Dec2(Enc2(a, b), Enc3(b, c)), Dec3(Enc3(b, c), Enc4(c))) = Enc3(b, c)
  BY <1>a, <1>b, ThirdKept, Zenon
<1>4. Enc4(Dec3(Enc3(b, c), Enc4(c))) = Enc4(c)
  BY <1>a DEF Enc4, Dec3
<1> QED
  BY <1>1, <1>2, <1>3, <1>4, Zenon

(***************************************************************************)
(* The last group of a token whose length is no multiple of three: the     *)
(* missing bytes count as zero when it is written, and again when it is    *)
(* written from the one or two bytes b64dec reads.                         *)
(***************************************************************************)
THEOREM LastGroupSurvives ==
  ASSUME NEW a \in 0..255, NEW b \in 0..255
  PROVE  /\ Enc1(Dec1(Enc1(a), Enc2(a, 0))) = Enc1(a)
         /\ Enc2(Dec1(Enc1(a), Enc2(a, 0)), 0) = Enc2(a, 0)
         /\ Enc3(Dec2(Enc2(a, b), Enc3(b, 0)), 0) = Enc3(b, 0)
  BY SMTT(30) DEF Enc1, Enc2, Enc3, Merge, Char, Dec1, Dec2

(***************************************************************************)
(* Where char is unsigned, b64dec undoes b64enc: no bit of a byte is lost. *)
(***************************************************************************)
THEOREM UnsignedRoundTrip ==
  ASSUME ~SignedChar, NEW a \in 0..255, NEW b \in 0..255, NEW c \in 0..255
  PROVE  /\ Dec1(Enc1(a), Enc2(a, b)) = a
         /\ Dec2(Enc2(a, b), Enc3(b, c)) = b
         /\ Dec3(Enc3(b, c), Enc4(c)) = c
  BY SMTT(30) DEF Enc1, Enc2, Enc3, Enc4, Merge, Char, Dec1, Dec2, Dec3

-----------------------------------------------------------------------------
(***************************************************************************)
(* Whole strings.  Group g of an input are its bytes 3g+1 to 3g+3 and the  *)
(* characters 4g+1 to 4g+4 written for them; a byte behind the end counts  *)
(* as zero.                                                                *)
(***************************************************************************)
ByteString == Seq(0..255)
At(in, i) == IF i <= Len(in) THEN in[i] ELSE 0
CodedLen(in) == 4 * ((Len(in) + 2) \div 3)

\* The bytes of an input, and those behind its end.
LEMMA ByteAt ==
  ASSUME NEW in \in ByteString, NEW i \in Nat \ {0}
  PROVE  At(in, i) \in 0..255
<1>1. Len(in) \in Nat /\ in \in Seq(0..255)
  BY DEF ByteString
<1>2. CASE i <= Len(in)
  <2>1. in[i] \in 0..255
    BY <1>1, <1>2, ElementOfSeq, SMTT(60)
  <2> QED
    BY <1>2, <2>1 DEF At
<1>3. CASE ~(i <= Len(in))
  BY <1>3 DEF At
<1> QED
  BY <1>2, <1>3

\* A function on 1 to k is a sequence.
LEMMA FunctionIsSeq ==
  ASSUME NEW k \in Nat, NEW S, NEW f \in [1..k -> S]
  PROVE  f \in Seq(S) /\ Len(f) = k
<1>1. f \in Seq(S)
  BY SeqDef
<1> QED
  BY <1>1, LenProperties

\* What b64enc writes for the whole of an input.
LEMMA Encoded ==
  ASSUME NEW in \in ByteString, NEW g \in Nat, 3 * g < Len(in)
  PROVE  /\ b64enc(in)[4 * g + 1] = Enc1(At(in, 3 * g + 1))
         /\ b64enc(in)[4 * g + 2] = Enc2(At(in, 3 * g + 1), At(in, 3 * g + 2))
         /\ b64enc(in)[4 * g + 3] = IF 3 * g + 2 <= Len(in)
              THEN Enc3(At(in, 3 * g + 2), At(in, 3 * g + 3)) ELSE Other
         /\ b64enc(in)[4 * g + 4] = IF 3 * g + 3 <= Len(in)
              THEN Enc4(At(in, 3 * g + 3)) ELSE Other
<1> DEFINE n == Len(in)
<1>0. n \in Nat /\ 3 * g + 1 <= n
  BY DEF ByteString
<1>1. 4 * g + 4 <= CodedLen(in) /\ CodedLen(in) \in Nat
  BY <1>0 DEF CodedLen
<1> DEFINE at(i) == IF i <= n THEN in[i] ELSE 0
<1>2. ASSUME NEW j \in 1..CodedLen(in), NEW i, i = 3 * ((j - 1) \div 4) + 1
      PROVE  /\ j % 4 = 1 => b64enc(in)[j] = Enc1(in[i])
             /\ j % 4 = 2 => b64enc(in)[j] = Enc2(in[i], at(i + 1))
             /\ j % 4 = 3 => b64enc(in)[j] =
                  IF i + 1 <= n THEN Enc3(in[i + 1], at(i + 2)) ELSE Other
             /\ j % 4 = 0 => b64enc(in)[j] = IF i + 2 <= n THEN Enc4(in[i + 2]) ELSE Other
  BY <1>2, SMTT(60) DEF b64enc, CodedLen
<1>3. /\ (4 * g + 1) % 4 = 1 /\ 3 * g + 1 = 3 * (((4 * g + 1) - 1) \div 4) + 1
      /\ (4 * g + 2) % 4 = 2 /\ 3 * g + 1 = 3 * (((4 * g + 2) - 1) \div 4) + 1
      /\ (4 * g + 3) % 4 = 3 /\ 3 * g + 1 = 3 * (((4 * g + 3) - 1) \div 4) + 1
      /\ (4 * g + 4) % 4 = 0 /\ 3 * g + 1 = 3 * (((4 * g + 4) - 1) \div 4) + 1
  OBVIOUS
<1>a. /\ 4 * g + 1 \in 1..CodedLen(in) /\ 4 * g + 2 \in 1..CodedLen(in)
      /\ 4 * g + 3 \in 1..CodedLen(in) /\ 4 * g + 4 \in 1..CodedLen(in)
      /\ (3 * g + 1) + 1 = 3 * g + 2 /\ (3 * g + 1) + 2 = 3 * g + 3
  BY <1>1
<1> HIDE DEF n, at
<1>4. b64enc(in)[4 * g + 1] = Enc1(in[3 * g + 1])
  BY <1>a, <1>2, <1>3, Zenon
<1>5. b64enc(in)[4 * g + 2] = Enc2(in[3 * g + 1], at((3 * g + 1) + 1))
  BY <1>a, <1>2, <1>3, Zenon
<1>6. b64enc(in)[4 * g + 3] =
        IF (3 * g + 1) + 1 <= n THEN Enc3(in[(3 * g + 1) + 1], at((3 * g + 1) + 2)) ELSE Other
  BY <1>a, <1>2, <1>3, Zenon
<1>7. b64enc(in)[4 * g + 4] = IF (3 * g + 1) + 2 <= n THEN Enc4(in[(3 * g + 1) + 2]) ELSE Other
  BY <1>a, <1>2, <1>3, Zenon
<1> USE DEF n, at
<1>8. At(in, 3 * g + 1) = in[3 * g + 1] /\ At(in, 3 * g + 2) = at(3 * g + 2)
      /\ At(in, 3 * g + 3) = at(3 * g + 3)
  BY <1>0 DEF At
<1>9. 3 * g + 2 <= n => At(in, 3 * g + 2) = in[3 * g + 2]
  BY DEF At
<1>10. 3 * g + 3 <= n => At(in, 3 * g + 3) = in[3 * g + 3]
  BY DEF At
<1> HIDE DEF n, at
<1>11. /\ b64enc(in)[4 * g + 2] = Enc2(in[3 * g + 1], at(3 * g + 2))
       /\ b64enc(in)[4 * g + 3] =
             IF 3 * g + 2 <= n THEN Enc3(in[3 * g + 2], at(3 * g + 3)) ELSE Other
       /\ b64enc(in)[4 * g + 4] = IF 3 * g + 3 <= n THEN Enc4(in[3 * g + 3]) ELSE Other
  BY <1>a, <1>5, <1>6, <1>7
<1> QED
  BY <1>4, <1>8, <1>9, <1>10, <1>11 DEF n

\* Every character belongs to a group, and every byte.
LEMMA Groups ==
  ASSUME NEW in \in ByteString
  PROVE  /\ \A j \in 1..CodedLen(in) : \E g \in Nat :
              3 * g < Len(in) /\ j \in {4 * g + 1, 4 * g + 2, 4 * g + 3, 4 * g + 4}
         /\ \A i \in 1..Len(in) : \E g \in Nat :
              3 * g < Len(in) /\ i \in {3 * g + 1, 3 * g + 2, 3 * g + 3}
<1>0. Len(in) \in Nat
  BY DEF ByteString
<1>1. ASSUME NEW j \in 1..CodedLen(in)
      PROVE  \E g \in Nat : 3 * g < Len(in) /\ j \in {4 * g + 1, 4 * g + 2, 4 * g + 3, 4 * g + 4}
  <2> DEFINE g == (j - 1) \div 4
  <2>1. g \in Nat /\ j \in {4 * g + 1, 4 * g + 2, 4 * g + 3, 4 * g + 4}
    BY <1>0 DEF CodedLen
  <2>2. 3 * g < Len(in)
    BY <1>0 DEF CodedLen
  <2> QED
    BY <2>1, <2>2
<1>2. ASSUME NEW i \in 1..Len(in)
      PROVE  \E g \in Nat : 3 * g < Len(in) /\ i \in {3 * g + 1, 3 * g + 2, 3 * g + 3}
  <2> DEFINE g == (i - 1) \div 3
  <2>1. g \in Nat /\ 3 * g < Len(in) /\ i \in {3 * g + 1, 3 * g + 2, 3 * g + 3}
    BY <1>0
  <2> QED
    BY <2>1
<1> QED
  BY <1>1, <1>2

\* The result of b64enc is a sequence; padding is where no bit of the input is.
LEMMA EncodedString ==
  ASSUME NEW in \in ByteString
  PROVE  /\ b64enc(in) \in Seq(0..64) /\ Len(b64enc(in)) = CodedLen(in)
         /\ \A j \in 1..CodedLen(in) : (b64enc(in)[j] = Other) <=> (6 * (j - 1) >= 8 * Len(in))
<1>0. Len(in) \in Nat /\ CodedLen(in) \in Nat
  BY DEF ByteString, CodedLen
<1>1. ASSUME NEW j \in 1..CodedLen(in)
      PROVE  /\ b64enc(in)[j] \in 0..64
             /\ (b64enc(in)[j] = Other) <=> (6 * (j - 1) >= 8 * Len(in))
  <2>1. PICK g \in Nat : 3 * g < Len(in) /\ j \in {4 * g + 1, 4 * g + 2, 4 * g + 3, 4 * g + 4}
    BY Groups
  <2>a. PICK a \in 0..255 : a = At(in, 3 * g + 1)
    BY ByteAt
  <2>b. PICK b \in 0..255 : b = At(in, 3 * g + 2)
    BY ByteAt
  <2>c. PICK c \in 0..255 : c = At(in, 3 * g + 3)
    BY ByteAt
  <2>3. PICK p \in 0..63 : p = Enc1(a)
    BY DEF Enc1
  <2>d. PICK q \in 0..63 : q = Enc2(a, b)
    BY SMTT(60) DEF Enc2, Merge, Char
  <2>e. PICK r \in 0..63 : r = Enc3(b, c)
    BY DEF Enc3, Merge, Char
  <2>f. PICK s \in 0..63 : s = Enc4(c)
    BY DEF Enc4
  <2>4. /\ b64enc(in)[4 * g + 1] = p /\ b64enc(in)[4 * g + 2] = q
        /\ b64enc(in)[4 * g + 3] = IF 3 * g + 2 <= Len(in) THEN r ELSE Other
        /\ b64enc(in)[4 * g + 4] = IF 3 * g + 3 <= Len(in) THEN s ELSE Other
    BY <2>1, <2>a, <2>b, <2>c, <2>3, <2>d, <2>e, <2>f, Encoded, ZenonT(60)
  <2>5. CASE j = 4 * g + 1
    <3>1. (6 * (j - 1) >= 8 * Len(in)) <=> FALSE
      BY <1>0, <2>1, <2>5
    <3>2. b64enc(in)[j] = p
      BY <2>4, <2>5, Zenon
    <3> QED
      BY <3>1, <3>2 DEF Other
  <2>6. CASE j = 4 * g + 2
    <3>1. (6 * (j - 1) >= 8 * Len(in)) <=> FALSE
      BY <1>0, <2>1, <2>6
    <3>2. b64enc(in)[j] = q
      BY <2>4, <2>6, Zenon
    <3> QED
      BY <3>1, <3>2 DEF Other
  <2>7. CASE j = 4 * g + 3
    <3>1. (6 * (j - 1) >= 8 * Len(in)) <=> ~(3 * g + 2 <= Len(in))
      BY <1>0, <2>1, <2>7
    <3>2. b64enc(in)[j] = IF 3 * g + 2 <= Len(in) THEN r ELSE Other
      BY <2>4, <2>7, Zenon
    <3> QED
      BY <3>1, <3>2 DEF Other
  <2>8. CASE j = 4 * g + 4
    <3>1. (6 * (j - 1) >= 8 * Len(in)) <=> ~(3 * g + 3 <= Len(in))
      BY <1>0, <2>1, <2>8
    <3>2. b64enc(in)[j] = IF 3 * g + 3 <= Len(in) THEN s ELSE Other
      BY <2>4, <2>8, Zenon
    <3> QED
      BY <3>1, <3>2 DEF Other
  <2> QED
    BY <2>1, <2>5, <2>6, <2>7, <2>8
<1>2. /\ b64enc(in) = [j \in 1..CodedLen(in) |-> b64enc(in)[j]]
  BY DEF b64enc, CodedLen
<1>3. b64enc(in) \in [1..CodedLen(in) -> 0..64]
  BY <1>1, <1>2
<1>4. b64enc(in) \in Seq(0..64) /\ Len(b64enc(in)) = CodedLen(in)
  BY <1>0, <1>3, FunctionIsSeq
<1> QED
  BY <1>1, <1>4

\* Where all characters of the alphabet come first, they are what is selected.
LEMMA SelectedIs ==
  ASSUME NEW in \in Seq(0..64), NEW m \in 0..Len(in),
         \A j \in 1..Len(in) : in[j] # Other <=> j <= m
  PROVE  Selected(in) = [k \in 1..m |-> in[k]]
<1>0. Len(in) \in Nat /\ m \in Nat
  OBVIOUS
<1> DEFINE kept == {i \in 1..Len(in) : InAlphabet(in[i])}
<1>1. kept = 1..m
  BY <1>0 DEF InAlphabet
<1>2. Cardinality(kept) = m
  <2>1. Cardinality(1..m) = IF 1 > m THEN 0 ELSE m - 1 + 1
    BY <1>0, FS_Interval
  <2>2. Cardinality(1..m) = m
    BY <1>0, <2>1
  <2> HIDE DEF kept
  <2> QED
    BY <1>1, <2>2, Zenon
<1>3. \A i \in 1..m : Cardinality({j \in kept : j < i}) = i - 1
  <2> SUFFICES ASSUME NEW i \in 1..m PROVE Cardinality({j \in kept : j < i}) = i - 1
    OBVIOUS
  <2>1. {j \in kept : j < i} = 1..(i - 1)
    BY <1>0, <1>1
  <2>2. Cardinality(1..(i - 1)) = IF 1 > i - 1 THEN 0 ELSE i - 1 - 1 + 1
    BY <1>0, FS_Interval
  <2>3. Cardinality(1..(i - 1)) = i - 1
    BY <1>0, <2>2
  <2> HIDE DEF kept
  <2> QED
    BY <2>1, <2>3, Zenon
<1>4. \A k \in 1..m : (CHOOSE i \in kept : Cardinality({j \in kept : j < i}) = k - 1) = k
  <2> SUFFICES ASSUME NEW k \in 1..m
               PROVE  (CHOOSE i \in kept : Cardinality({j \in kept : j < i}) = k - 1) = k
    OBVIOUS
  <2>1. k \in kept /\ Cardinality({j \in kept : j < k}) = k - 1
    BY <1>1, <1>3
  <2>2. \A i \in kept : Cardinality({j \in kept : j < i}) = k - 1 => i = k
    BY <1>0, <1>1, <1>3
  <2> HIDE DEF kept
  <2> QED
    BY <2>1, <2>2
<1>5. Selected(in) =
        [k \in 1..Cardinality(kept) |->
          in[CHOOSE i \in kept : Cardinality({j \in kept : j < i}) = k - 1]]
  BY DEF Selected
<1> HIDE DEF kept
<1> QED
  BY <1>2, <1>4, <1>5

\* What b64dec reads in the output of b64enc: as many bytes as there were.
LEMMA Decoded ==
  ASSUME NEW in \in ByteString
  PROVE  LET n == Len(in)
             code == b64enc(in)
             out == b64dec(code)
         IN /\ out = [j \in 1..n |-> out[j]]
            /\ \A g \in Nat :
                 /\ 3 * g + 1 <= n => out[3 * g + 1] = Dec1(code[4 * g + 1], code[4 * g + 2])
                 /\ 3 * g + 2 <= n => out[3 * g + 2] = Dec2(code[4 * g + 2], code[4 * g + 3])
                 /\ 3 * g + 3 <= n => out[3 * g + 3] = Dec3(code[4 * g + 3], code[4 * g + 4])
<1> DEFINE n == Len(in)
           code == b64enc(in)
           m == (4 * n + 2) \div 3
           f == [k \in 1..m |-> code[k]]
           at(i) == IF i <= Len(f) THEN f[i] ELSE 0
<1>0. n \in Nat /\ m \in Nat /\ CodedLen(in) \in Nat /\ m <= CodedLen(in)
  BY DEF ByteString, CodedLen
<1>1. /\ code \in Seq(0..64) /\ Len(code) = CodedLen(in)
      /\ \A j \in 1..CodedLen(in) : (code[j] = Other) <=> (6 * (j - 1) >= 8 * n)
  BY EncodedString
<1> HIDE DEF code
<1>2. Selected(code) = f
  <2>1. \A j \in 1..Len(code) : code[j] # Other <=> j <= m
    BY <1>0, <1>1
  <2>2. m \in 0..Len(code)
    BY <1>0, <1>1
  <2> HIDE DEF m
  <2> QED
    BY <1>1, <2>1, <2>2, SelectedIs
<1>3. f \in [1..m -> 0..64] /\ Len(f) = m
  <2>1. \A k \in 1..m : code[k] \in 0..64
    <3>1. \A k \in 1..Len(code) : code[k] \in 0..64
      BY <1>1, ElementOfSeq
    <3> QED
      BY <1>0, <1>1, <3>1
  <2>2. f \in [1..m -> 0..64]
    BY <2>1
  <2> HIDE DEF f, m
  <2> QED
    BY <1>0, <2>2, FunctionIsSeq
<1>4. DecodedLength(m, CutShort(code)) = n
  <2>1. n % 3 # 0 => ~CutShort(code)
    <3> SUFFICES ASSUME n % 3 # 0 PROVE ~InAlphabet(code[Len(code)])
      BY DEF CutShort
    <3>1. CodedLen(in) \in 1..CodedLen(in) /\ 6 * (CodedLen(in) - 1) >= 8 * n
      BY <1>0 DEF CodedLen
    <3> QED
      BY <1>1, <3>1 DEF InAlphabet
  <2>2. PICK h \in Nat, k \in 0..2 : n = 3 * h + k
    <3>1. n \div 3 \in Nat /\ n % 3 \in 0..2 /\ n = 3 * (n \div 3) + (n % 3)
      BY <1>0
    <3> QED
      BY <3>1
  <2>3. CASE k = 0
    <3>1. m = 4 * h /\ m % 4 = 0 /\ m \div 4 = h
      BY <2>2, <2>3
    <3> HIDE DEF m
    <3> QED
      BY <2>2, <2>3, <3>1 DEF DecodedLength
  <2>4. CASE k = 1
    <3>1. m = 4 * h + 2 /\ m % 4 = 2 /\ m \div 4 = h /\ n % 3 # 0
      BY <2>2, <2>4
    <3> HIDE DEF m
    <3> QED
      BY <2>1, <2>2, <2>4, <3>1 DEF DecodedLength
  <2>5. CASE k = 2
    <3>1. m = 4 * h + 3 /\ m % 4 = 3 /\ m \div 4 = h /\ n % 3 # 0
      BY <2>2, <2>5
    <3> HIDE DEF m
    <3> QED
      BY <2>1, <2>2, <2>5, <3>1 DEF DecodedLength
  <2> QED
    BY <2>3, <2>4, <2>5
<1> DEFINE out == b64dec(code)
<1>5. out = [j \in 1..n |->
        LET i == 4 * ((j - 1) \div 3) + 1 IN
          CASE j % 3 = 1 -> Dec1(f[i], at(i + 1))
            [] j % 3 = 2 -> Dec2(f[i + 1], at(i + 2))
            [] j % 3 = 0 -> Dec3(f[i + 2], at(i + 3))]
  <2> HIDE DEF f, m, n
  <2>1. out = [j \in 1..DecodedLength(Len(f), CutShort(code)) |->
          LET i == 4 * ((j - 1) \div 3) + 1 IN
            CASE j % 3 = 1 -> Dec1(f[i], at(i + 1))
              [] j % 3 = 2 -> Dec2(f[i + 1], at(i + 2))
              [] j % 3 = 0 -> Dec3(f[i + 2], at(i + 3))]
    BY <1>2 DEF b64dec
  <2> HIDE DEF at, out
  <2>2. DecodedLength(Len(f), CutShort(code)) = n
    BY <1>3, <1>4, Zenon
  <2> QED
    BY <2>1, <2>2, Zenon
<1>6. ASSUME NEW j \in 1..n, NEW i, i = 4 * ((j - 1) \div 3) + 1
      PROVE  /\ j % 3 = 1 => out[j] = Dec1(f[i], at(i + 1))
             /\ j % 3 = 2 => out[j] = Dec2(f[i + 1], at(i + 2))
             /\ j % 3 = 0 => out[j] = Dec3(f[i + 2], at(i + 3))
  <2> HIDE DEF out, f, at
  <2> QED
    BY <1>5, <1>6, SMTT(60)
<1>7. ASSUME NEW g \in Nat
      PROVE  /\ 3 * g + 1 <= n => out[3 * g + 1] = Dec1(code[4 * g + 1], code[4 * g + 2])
             /\ 3 * g + 2 <= n => out[3 * g + 2] = Dec2(code[4 * g + 2], code[4 * g + 3])
             /\ 3 * g + 3 <= n => out[3 * g + 3] = Dec3(code[4 * g + 3], code[4 * g + 4])
  <2>1. /\ (3 * g + 1) % 3 = 1 /\ 4 * g + 1 = 4 * (((3 * g + 1) - 1) \div 3) + 1
        /\ (3 * g + 2) % 3 = 2 /\ 4 * g + 1 = 4 * (((3 * g + 2) - 1) \div 3) + 1
        /\ (3 * g + 3) % 3 = 0 /\ 4 * g + 1 = 4 * (((3 * g + 3) - 1) \div 3) + 1
        /\ (4 * g + 1) + 1 = 4 * g + 2 /\ (4 * g + 1) + 2 = 4 * g + 3 /\ (4 * g + 1) + 3 = 4 * g + 4
    OBVIOUS
  <2>2. \A k \in 1..m : f[k] = code[k] /\ at(k) = code[k]
    BY <1>0, <1>3
  <2>3. ASSUME 3 * g + 1 <= n
        PROVE  out[3 * g + 1] = Dec1(code[4 * g + 1], code[4 * g + 2])
    <3>1. 3 * g + 1 \in 1..n /\ 4 * g + 1 \in 1..m /\ 4 * g + 2 \in 1..m
      BY <1>0, <2>3
    <3> HIDE DEF out, f, at, n, m
    <3>2. out[3 * g + 1] = Dec1(f[4 * g + 1], at((4 * g + 1) + 1))
      BY <1>6, <2>1, <3>1, Zenon
    <3> QED
      BY <2>1, <2>2, <3>1, <3>2
  <2>4. ASSUME 3 * g + 2 <= n
        PROVE  out[3 * g + 2] = Dec2(code[4 * g + 2], code[4 * g + 3])
    <3>1. 3 * g + 2 \in 1..n /\ 4 * g + 2 \in 1..m /\ 4 * g + 3 \in 1..m
      BY <1>0, <2>4
    <3> HIDE DEF out, f, at, n, m
    <3>2. out[3 * g + 2] = Dec2(f[(4 * g + 1) + 1], at((4 * g + 1) + 2))
      BY <1>6, <2>1, <3>1, Zenon
    <3> QED
      BY <2>1, <2>2, <3>1, <3>2
  <2>5. ASSUME 3 * g + 3 <= n
        PROVE  out[3 * g + 3] = Dec3(code[4 * g + 3], code[4 * g + 4])
    <3>1. 3 * g + 3 \in 1..n /\ 4 * g + 3 \in 1..m /\ 4 * g + 4 \in 1..m
      BY <1>0, <2>5
    <3> HIDE DEF out, f, at, n, m
    <3>2. out[3 * g + 3] = Dec3(f[(4 * g + 1) + 2], at((4 * g + 1) + 3))
      BY <1>6, <2>1, <3>1, Zenon
    <3> QED
      BY <2>1, <2>2, <3>1, <3>2
  <2> QED
    BY <2>3, <2>4, <2>5
<1>8. out = [j \in 1..n |-> out[j]]
  <2> HIDE DEF f, at
  <2> QED
    BY <1>5
<1> QED
  BY <1>7, <1>8 DEF code

\* What b64dec reads in the output of b64enc are bytes again.
LEMMA DecodedString ==
  ASSUME NEW in \in ByteString
  PROVE  b64dec(b64enc(in)) \in ByteString /\ Len(b64dec(b64enc(in))) = Len(in)
<1> DEFINE n == Len(in)
           code == b64enc(in)
           out == b64dec(code)
<1>0. n \in Nat
  BY DEF ByteString
<1>1. /\ out = [j \in 1..n |-> out[j]]
      /\ \A g \in Nat :
           /\ 3 * g + 1 <= n => out[3 * g + 1] = Dec1(code[4 * g + 1], code[4 * g + 2])
           /\ 3 * g + 2 <= n => out[3 * g + 2] = Dec2(code[4 * g + 2], code[4 * g + 3])
           /\ 3 * g + 3 <= n => out[3 * g + 3] = Dec3(code[4 * g + 3], code[4 * g + 4])
  BY Decoded
<1>2. ASSUME NEW k \in Nat \ {0}, 6 * (k - 1) < 8 * n PROVE code[k] \in 0..63
  <2>1. k \in 1..CodedLen(in)
    BY <1>0, <1>2 DEF CodedLen
  <2>2. /\ code \in Seq(0..64) /\ Len(code) = CodedLen(in)
        /\ (code[k] = Other) <=> (6 * (k - 1) >= 8 * n)
    BY <2>1, EncodedString
  <2> HIDE DEF code
  <2>3. code[k] \in 0..64
    BY <2>1, <2>2, ElementOfSeq
  <2>4. ~(6 * (k - 1) >= 8 * n)
    BY <1>0, <1>2
  <2>5. code[k] # Other
    BY <2>2, <2>4
  <2> QED
    BY <2>3, <2>5 DEF Other
<1> HIDE DEF code, out, n
<1>3. ASSUME NEW j \in 1..n PROVE out[j] \in 0..255
  <2>1. PICK g \in Nat : 3 * g < n /\ j \in {3 * g + 1, 3 * g + 2, 3 * g + 3}
    BY Groups DEF n
  <2>2. CASE j = 3 * g + 1
    <3>1. /\ 4 * g + 1 \in Nat \ {0} /\ 6 * ((4 * g + 1) - 1) < 8 * n
          /\ 4 * g + 2 \in Nat \ {0} /\ 6 * ((4 * g + 2) - 1) < 8 * n
          /\ 3 * g + 1 <= n
      BY <1>0, <2>1, <2>2
    <3>2. code[4 * g + 1] \in 0..63 /\ code[4 * g + 2] \in 0..63
      BY <1>2, <3>1, Zenon
    <3>3. PICK p \in 0..63, q \in 0..63 : p = code[4 * g + 1] /\ q = code[4 * g + 2]
      BY <3>2, Zenon
    <3>4. out[j] = Dec1(p, q)
      BY <1>1, <2>2, <3>1, <3>3, Zenon
    <3> QED
      BY <3>4 DEF Dec1
  <2>3. CASE j = 3 * g + 2
    <3>1. /\ 4 * g + 2 \in Nat \ {0} /\ 6 * ((4 * g + 2) - 1) < 8 * n
          /\ 4 * g + 3 \in Nat \ {0} /\ 6 * ((4 * g + 3) - 1) < 8 * n
          /\ 3 * g + 2 <= n
      BY <1>0, <2>1, <2>3
    <3>2. code[4 * g + 2] \in 0..63 /\ code[4 * g + 3] \in 0..63
      BY <1>2, <3>1, Zenon
    <3>3. PICK p \in 0..63, q \in 0..63 : p = code[4 * g + 2] /\ q = code[4 * g + 3]
      BY <3>2, Zenon
    <3>4. out[j] = Dec2(p, q)
      BY <1>1, <2>3, <3>1, <3>3, Zenon
    <3> QED
      BY <3>4 DEF Dec2
  <2>4. CASE j = 3 * g + 3
    <3>1. /\ 4 * g + 3 \in Nat \ {0} /\ 6 * ((4 * g + 3) - 1) < 8 * n
          /\ 4 * g + 4 \in Nat \ {0} /\ 6 * ((4 * g + 4) - 1) < 8 * n
          /\ 3 * g + 3 <= n
      BY <1>0, <2>1, <2>4
    <3>2. code[4 * g + 3] \in 0..63 /\ code[4 * g + 4] \in 0..63
      BY <1>2, <3>1, Zenon
    <3>3. PICK p \in 0..63, q \in 0..63 : p = code[4 * g + 3] /\ q = code[4 * g + 4]
      BY <3>2, Zenon
    <3>4. out[j] = Dec3(p, q)
      BY <1>1, <2>4, <3>1, <3>3, Zenon
    <3> QED
      BY <3>4 DEF Dec3
  <2> QED
    BY <2>1, <2>2, <2>3, <2>4
<1>4. out \in [1..n -> 0..255]
  BY <1>1, <1>3, SMTT(60)
<1>5. out \in Seq(0..255) /\ Len(out) = n
  BY <1>0, <1>4, FunctionIsSeq
<1> QED
  BY <1>5 DEF code, out, n, ByteString

\* A token that was decoded is encoded as before.
LEMMA EncodedAgain ==
  ASSUME NEW in \in ByteString
  PROVE  b64enc(b64dec(b64enc(in))) = b64enc(in)
<1> DEFINE n == Len(in)
           code == b64enc(in)
           out == b64dec(code)
           again == b64enc(out)
<1>0. n \in Nat /\ CodedLen(in) \in Nat
  BY DEF ByteString, CodedLen
<1>1. out \in ByteString /\ Len(out) = n
  BY DecodedString
<1>2. CodedLen(out) = CodedLen(in)
  BY <1>1 DEF CodedLen
<1>3. \A g \in Nat :
        /\ 3 * g + 1 <= n => out[3 * g + 1] = Dec1(code[4 * g + 1], code[4 * g + 2])
        /\ 3 * g + 2 <= n => out[3 * g + 2] = Dec2(code[4 * g + 2], code[4 * g + 3])
        /\ 3 * g + 3 <= n => out[3 * g + 3] = Dec3(code[4 * g + 3], code[4 * g + 4])
  BY Decoded
<1>4. ASSUME NEW g \in Nat, 3 * g < n
      PROVE  /\ again[4 * g + 1] = code[4 * g + 1] /\ again[4 * g + 2] = code[4 * g + 2]
             /\ again[4 * g + 3] = code[4 * g + 3] /\ again[4 * g + 4] = code[4 * g + 4]
  <2>a. PICK a \in 0..255 : a = At(in, 3 * g + 1)
    BY ByteAt
  <2>b. PICK b \in 0..255 : b = At(in, 3 * g + 2)
    BY ByteAt
  <2>c. PICK c \in 0..255 : c = At(in, 3 * g + 3)
    BY ByteAt
  <2>d. PICK x \in 0..255 : x = At(out, 3 * g + 1)
    <3> HIDE DEF out
    <3>1. 3 * g + 1 \in Nat \ {0}
      OBVIOUS
    <3>2. At(out, 3 * g + 1) \in 0..255
      BY <1>1, <3>1, ByteAt, ZenonT(60)
    <3> QED
      BY <3>2, Zenon
  <2>e. PICK y \in 0..255 : y = At(out, 3 * g + 2)
    <3> HIDE DEF out
    <3>1. 3 * g + 2 \in Nat \ {0}
      OBVIOUS
    <3>2. At(out, 3 * g + 2) \in 0..255
      BY <1>1, <3>1, ByteAt, ZenonT(60)
    <3> QED
      BY <3>2, ZenonT(60)
  <2>f. PICK z \in 0..255 : z = At(out, 3 * g + 3)
    <3> HIDE DEF out
    <3>1. 3 * g + 3 \in Nat \ {0}
      OBVIOUS
    <3>2. At(out, 3 * g + 3) \in 0..255
      BY <1>1, <3>1, ByteAt, ZenonT(60)
    <3> QED
      BY <3>2, ZenonT(60)
  <2>1. /\ code[4 * g + 1] = Enc1(a) /\ code[4 * g + 2] = Enc2(a, b)
        /\ code[4 * g + 3] = IF 3 * g + 2 <= n THEN Enc3(b, c) ELSE Other
        /\ code[4 * g + 4] = IF 3 * g + 3 <= n THEN Enc4(c) ELSE Other
    BY <1>4, <2>a, <2>b, <2>c, Encoded, SMTT(60)
  <2>2. /\ again[4 * g + 1] = Enc1(x) /\ again[4 * g + 2] = Enc2(x, y)
        /\ again[4 * g + 3] = IF 3 * g + 2 <= n THEN Enc3(y, z) ELSE Other
        /\ again[4 * g + 4] = IF 3 * g + 3 <= n THEN Enc4(z) ELSE Other
    <3> HIDE DEF out, n
    <3>1. 3 * g < Len(out)
      BY <1>1, <1>4
    <3> QED
      BY <1>1, <3>1, <2>d, <2>e, <2>f, Encoded
  <2> HIDE DEF out, code, again
  <2>3. x = Dec1(Enc1(a), Enc2(a, b))
    <3>1. 3 * g + 1 <= n
      BY <1>0, <1>4
    <3> QED
      BY <1>1, <1>3, <2>1, <2>d, <3>1, SMTT(60) DEF At
  <2>g. /\ Enc1(Dec1(Enc1(a), Enc2(a, b))) = Enc1(a)
        /\ Enc2(Dec1(Enc1(a), Enc2(a, b)), Dec2(Enc2(a, b), Enc3(b, c))) = Enc2(a, b)
        /\ Enc3(Dec2(Enc2(a, b), Enc3(b, c)), Dec3(Enc3(b, c), Enc4(c))) = Enc3(b, c)
        /\ Enc4(Dec3(Enc3(b, c), Enc4(c))) = Enc4(c)
    <3>1. a \in Octet /\ b \in Octet /\ c \in Octet
      BY DEF Octet
    <3> QED
      BY <3>1, GroupSurvives, ZenonT(60)
  <2>4. CASE 3 * g + 3 <= n
    <3>0. 3 * g + 2 <= n
      BY <1>0, <2>4
    <3>1. y = Dec2(Enc2(a, b), Enc3(b, c))
      BY <1>1, <1>3, <2>1, <2>e, <3>0 DEF At
    <3>2. z = Dec3(Enc3(b, c), Enc4(c))
      BY <1>1, <1>3, <2>1, <2>f, <2>4, <3>0 DEF At
    <3>3. Enc1(x) = Enc1(a) /\ Enc2(x, y) = Enc2(a, b) /\ Enc3(y, z) = Enc3(b, c) /\ Enc4(z) = Enc4(c)
      <4>1. Enc1(x) = Enc1(a)
        BY <2>3, <2>g, ZenonT(60)
      <4>2. Enc2(x, y) = Enc2(a, b)
        BY <2>3, <3>1, <2>g, Zenon
      <4>3. Enc3(y, z) = Enc3(b, c)
        BY <3>1, <3>2, <2>g, ZenonT(60)
      <4>4. Enc4(z) = Enc4(c)
        BY <3>2, <2>g, Zenon
      <4> QED
        BY <4>1, <4>2, <4>3, <4>4
    <3> QED
      BY <2>1, <2>2, <2>4, <3>0, <3>3, ZenonT(60)
  <2>5. CASE ~(3 * g + 3 <= n) /\ 3 * g + 2 <= n
    <3>1. c = 0 /\ z = 0
      BY <1>1, <2>5, <2>c, <2>f DEF At
    <3>2. y = Dec2(Enc2(a, b), Enc3(b, c))
      BY <1>1, <1>3, <2>1, <2>e, <2>5, SMTT(60) DEF At
    <3>3. Enc1(x) = Enc1(a) /\ Enc2(x, y) = Enc2(a, b)
      <4>1. Enc1(x) = Enc1(a)
        BY <2>3, <2>g, Zenon
      <4>2. Enc2(x, y) = Enc2(a, b)
        BY <2>3, <3>2, <2>g, Zenon
      <4> QED
        BY <4>1, <4>2
    <3>4. Enc3(y, z) = Enc3(b, c)
      BY <3>1, <3>2, LastGroupSurvives, ZenonT(60)
    <3> QED
      BY <2>1, <2>2, <2>5, <3>3, <3>4, Zenon
  <2>6. CASE ~(3 * g + 3 <= n) /\ ~(3 * g + 2 <= n)
    <3>1. b = 0 /\ y = 0
      BY <1>1, <2>6, <2>b, <2>e DEF At
    <3>2. Enc1(x) = Enc1(a) /\ Enc2(x, y) = Enc2(a, b)
      BY <2>3, <3>1, LastGroupSurvives, ZenonT(60)
    <3> QED
      BY <2>1, <2>2, <2>6, <3>2, ZenonT(60)
  <2> QED
    BY <2>4, <2>5, <2>6
<1>5. \A j \in 1..CodedLen(in) : again[j] = code[j]
  <2> SUFFICES ASSUME NEW j \in 1..CodedLen(in) PROVE again[j] = code[j]
    OBVIOUS
  <2>1. PICK g \in Nat : 3 * g < n /\ j \in {4 * g + 1, 4 * g + 2, 4 * g + 3, 4 * g + 4}
    BY Groups
  <2> HIDE DEF again, code, out
  <2> QED
    BY <1>4, <2>1
<1>6. code \in Seq(0..64) /\ Len(code) = CodedLen(in)
  BY EncodedString
<1>7. again \in Seq(0..64) /\ Len(again) = CodedLen(in)
  <2> HIDE DEF out
  <2> QED
    BY <1>1, <1>2, EncodedString
<1> HIDE DEF again, code, out
<1>8. again = code
  BY <1>5, <1>6, <1>7, SeqEqual
<1> QED
  BY <1>8 DEF again, out, code

\* hexdec undoes hexenc.
LEMMA HexAgain ==
  ASSUME NEW in \in ByteString
  PROVE  hexdec(hexenc(in)) = in
<1> DEFINE n == Len(in)
           code == hexenc(in)
<1>0. n \in Nat /\ in \in [1..n -> 0..255]
  BY LenProperties, ZenonT(60) DEF ByteString
<1> HIDE DEF n
<1>1. \A j \in 1..n : in[j] \in 0..255 /\ in[j] \div 16 \in 0..15 /\ in[j] % 16 \in 0..15
  <2> SUFFICES ASSUME NEW j \in 1..n
               PROVE  in[j] \in 0..255 /\ in[j] \div 16 \in 0..15 /\ in[j] % 16 \in 0..15
    OBVIOUS
  <2>1. PICK v \in 0..255 : v = in[j]
    BY <1>0
  <2>2. v \div 16 \in 0..15 /\ v % 16 \in 0..15
    OBVIOUS
  <2> QED
    BY <2>1, <2>2
<1>2. \A j \in 1..n : /\ code[2 * j - 1] = in[j] \div 16 /\ code[2 * j] = in[j] % 16
  <2> SUFFICES ASSUME NEW j \in 1..n
               PROVE  code[2 * j - 1] = in[j] \div 16 /\ code[2 * j] = in[j] % 16
    OBVIOUS
  <2>1. /\ 2 * j - 1 \in 1..(2 * n) /\ 2 * j \in 1..(2 * n)
        /\ (2 * j - 1) % 2 = 1 /\ (2 * j) % 2 # 1
        /\ ((2 * j - 1) + 1) \div 2 = j /\ (2 * j) \div 2 = j
    BY <1>0
  <2> QED
    BY <2>1 DEF hexenc, n
<1>3. Len(code) = 2 * n
  <2>1. code \in [1..(2 * n) -> {code[j] : j \in 1..(2 * n)}]
    BY DEF hexenc, n
  <2>2. 2 * n \in Nat
    BY <1>0
  <2> HIDE DEF code
  <2> QED
    BY <2>1, <2>2, FunctionIsSeq
<1> HIDE DEF code
<1>4. hexdec(code) = [j \in 1..n |-> 16 * code[2 * j - 1] + code[2 * j]]
  <2>1. Len(code) \div 2 = n
    BY <1>0, <1>3
  <2> QED
    BY <2>1 DEF hexdec
<1>5. \A j \in 1..n : 16 * code[2 * j - 1] + code[2 * j] = in[j]
  <2> SUFFICES ASSUME NEW j \in 1..n PROVE 16 * code[2 * j - 1] + code[2 * j] = in[j]
    OBVIOUS
  <2>1. PICK v \in 0..255 : v = in[j]
    BY <1>0
  <2>2. code[2 * j - 1] = v \div 16 /\ code[2 * j] = v % 16
    BY <1>2, <2>1, Zenon
  <2>3. 16 * (v \div 16) + (v % 16) = v
    OBVIOUS
  <2> QED
    BY <2>1, <2>2, <2>3, Zenon
<1>6. hexdec(code) = in
  BY <1>0, <1>4, <1>5
<1> QED
  BY <1>6 DEF code

RawOk == raw \in ByteString

\* The inputs of the runs are byte strings.
LEMMA RawIsBytes == InitRaw /\ [][Grow]_raw => []RawOk
<1>1. InitRaw => RawOk
  BY DEF InitRaw, RawOk, ByteString
<1>2. RawOk /\ [Grow]_raw => RawOk'
  <2> SUFFICES ASSUME RawOk, Grow PROVE raw' \in ByteString
    BY DEF RawOk
  <2>1. PICK b \in Byte : raw' = Append(raw, b)
    BY DEF Grow
  <2>2. b \in 0..255
    BY CodecAssumption
  <2> QED
    BY <2>1, <2>2, AppendProperties DEF RawOk, ByteString
<1> QED
  BY <1>1, <1>2, PTL

(***************************************************************************)
(* TokenSurvives for tokens of every length over all bytes, with signed    *)
(* and with unsigned char: what a client was given is what an Account      *)
(* loaded from the database compares with.                                 *)
(***************************************************************************)
THEOREM TokensSurvive == InitRaw /\ [][Grow]_raw => []TokenSurvives
<1>1. RawOk => TokenSurvives
  <2> SUFFICES ASSUME raw \in ByteString PROVE TokenSurvives
    BY DEF RawOk
  <2>1. b64enc(b64dec(b64enc(raw))) = b64enc(raw)
    BY EncodedAgain
  <2>2. hexdec(hexenc(raw)) = raw
    BY HexAgain
  <2> QED
    BY <2>1, <2>2 DEF TokenSurvives, LoadedToken, StoredToken, Given
<1> QED
  BY <1>1, RawIsBytes, PTL

-----------------------------------------------------------------------------
(***************************************************************************)
(* Bits.  Bit u of a character and bit u of a byte, the highest being 0.   *)
(***************************************************************************)
Six(v, u) == (v \div 2^(5 - u)) % 2
Bit(v, u) == (v \div 2^(7 - u)) % 2

\* A byte that is not negative as a char is its own value.
LEMMA SameChar ==
  ASSUME NEW v \in 0..255, Char(v) >= 0
  PROVE  Char(v) = v
BY DEF Char

\* A bit's place in its byte is determined.
LEMMA BytePos ==
  ASSUME NEW x \in Int, NEW y \in 0..7, NEW v \in Int, NEW w \in 0..7,
         8 * (x - 1) + y = 8 * (v - 1) + w
  PROVE  x = v /\ y = w
<1>1. x = v
  OBVIOUS
<1> QED
  BY <1>1

\* Where bit u of character j is: the byte and the place in it, by the place
\* of the character in its group.
LEMMA SextetPos ==
  ASSUME NEW g \in Nat, NEW j \in Nat, NEW u \in 0..5, NEW x \in Nat, NEW y \in 0..7,
         6 * (j - 1) + u = 8 * (x - 1) + y
  PROVE  /\ j = 4 * g + 1 /\ u \in 0..5 => x = 3 * g + 1 /\ y = u
         /\ j = 4 * g + 2 /\ u \in 0..1 => x = 3 * g + 1 /\ y = u + 6
         /\ j = 4 * g + 2 /\ u \in 2..5 => x = 3 * g + 2 /\ y = u - 2
         /\ j = 4 * g + 3 /\ u \in 0..3 => x = 3 * g + 2 /\ y = u + 4
         /\ j = 4 * g + 3 /\ u \in 4..5 => x = 3 * g + 3 /\ y = u - 4
         /\ j = 4 * g + 4 /\ u \in 0..5 => x = 3 * g + 3 /\ y = u + 2
<1>1. ASSUME j = 4 * g + 1, u \in 0..5 PROVE x = 3 * g + 1 /\ y = u
  <2>1. 8 * (x - 1) + y = 8 * ((3 * g + 1) - 1) + (u) /\ u \in 0..7 /\ 3 * g + 1 \in Int
    BY <1>1
  <2> QED
    BY <2>1, BytePos
<1>2. ASSUME j = 4 * g + 2, u \in 0..1 PROVE x = 3 * g + 1 /\ y = u + 6
  <2>1. 8 * (x - 1) + y = 8 * ((3 * g + 1) - 1) + (u + 6) /\ u + 6 \in 0..7 /\ 3 * g + 1 \in Int
    BY <1>2
  <2> QED
    BY <2>1, BytePos
<1>3. ASSUME j = 4 * g + 2, u \in 2..5 PROVE x = 3 * g + 2 /\ y = u - 2
  <2>1. 8 * (x - 1) + y = 8 * ((3 * g + 2) - 1) + (u - 2) /\ u - 2 \in 0..7 /\ 3 * g + 2 \in Int
    BY <1>3
  <2> QED
    BY <2>1, BytePos
<1>4. ASSUME j = 4 * g + 3, u \in 0..3 PROVE x = 3 * g + 2 /\ y = u + 4
  <2>1. 8 * (x - 1) + y = 8 * ((3 * g + 2) - 1) + (u + 4) /\ u + 4 \in 0..7 /\ 3 * g + 2 \in Int
    BY <1>4
  <2> QED
    BY <2>1, BytePos
<1>5. ASSUME j = 4 * g + 3, u \in 4..5 PROVE x = 3 * g + 3 /\ y = u - 4
  <2>1. 8 * (x - 1) + y = 8 * ((3 * g + 3) - 1) + (u - 4) /\ u - 4 \in 0..7 /\ 3 * g + 3 \in Int
    BY <1>5
  <2> QED
    BY <2>1, BytePos
<1>6. ASSUME j = 4 * g + 4, u \in 0..5 PROVE x = 3 * g + 3 /\ y = u + 2
  <2>1. 8 * (x - 1) + y = 8 * ((3 * g + 3) - 1) + (u + 2) /\ u + 2 \in 0..7 /\ 3 * g + 3 \in Int
    BY <1>6
  <2> QED
    BY <2>1, BytePos
<1> QED
  BY <1>1, <1>2, <1>3, <1>4, <1>5, <1>6, Zenon

\* The bits of the four characters of a group are those of its bytes in order.
SameBits(a, b, c) ==
  /\ \A u \in 0..5 : Six(Enc1(a), u) = Bit(a, u)
  /\ \A u \in 0..1 : Six(Enc2(a, b), u) = Bit(a, u + 6)
  /\ \A u \in 2..5 : Six(Enc2(a, b), u) = Bit(b, u - 2)
  /\ \A u \in 0..3 : Six(Enc3(b, c), u) = Bit(b, u + 4)
  /\ \A u \in 4..5 : Six(Enc3(b, c), u) = Bit(c, u - 4)
  /\ \A u \in 0..5 : Six(Enc4(c), u) = Bit(c, u + 2)

LEMMA SextetBits ==
  ASSUME NEW a \in 0..255, NEW b \in 0..255, NEW c \in 0..255, Char(b) = b, Char(c) = c
  PROVE  SameBits(a, b, c)
<1>a. Enc2(a, b) = ((a * 16) % 64) + (b \div 16)
  BY DEF Enc2, Merge
<1>b. Enc3(b, c) = ((b * 4) % 64) + (c \div 64)
  BY DEF Enc3, Merge
<1>1. ASSUME NEW u \in 0..5 PROVE Six(Enc1(a), u) = Bit(a, u)
  <2>1. CASE u = 0
    BY <2>1 DEF Six, Bit, Enc1
  <2>2. CASE u = 1
    BY <2>2 DEF Six, Bit, Enc1
  <2>3. CASE u = 2
    BY <2>3 DEF Six, Bit, Enc1
  <2>4. CASE u = 3
    BY <2>4, SMTT(60) DEF Six, Bit, Enc1
  <2>5. CASE u = 4
    BY <2>5 DEF Six, Bit, Enc1
  <2>6. CASE u = 5
    BY <2>6 DEF Six, Bit, Enc1
  <2> QED
    BY <2>1, <2>2, <2>3, <2>4, <2>5, <2>6
<1>2. ASSUME NEW u \in 0..1 PROVE Six(Enc2(a, b), u) = Bit(a, u + 6)
  <2>1. CASE u = 0
    BY <1>a, <2>1 DEF Six, Bit
  <2>2. CASE u = 1
    BY <1>a, <2>2 DEF Six, Bit
  <2> QED
    BY <2>1, <2>2
<1>3. ASSUME NEW u \in 2..5 PROVE Six(Enc2(a, b), u) = Bit(b, u - 2)
  <2>1. CASE u = 2
    BY <1>a, <2>1 DEF Six, Bit
  <2>2. CASE u = 3
    BY <1>a, <2>2 DEF Six, Bit
  <2>3. CASE u = 4
    BY <1>a, <2>3, SMTT(60) DEF Six, Bit
  <2>4. CASE u = 5
    BY <1>a, <2>4 DEF Six, Bit
  <2> QED
    BY <2>1, <2>2, <2>3, <2>4
<1>4. ASSUME NEW u \in 0..3 PROVE Six(Enc3(b, c), u) = Bit(b, u + 4)
  <2>1. CASE u = 0
    BY <1>b, <2>1, SMTT(60) DEF Six, Bit
  <2>2. CASE u = 1
    BY <1>b, <2>2, SMTT(60) DEF Six, Bit
  <2>3. CASE u = 2
    BY <1>b, <2>3, SMTT(60) DEF Six, Bit
  <2>4. CASE u = 3
    BY <1>b, <2>4 DEF Six, Bit
  <2> QED
    BY <2>1, <2>2, <2>3, <2>4
<1>5. ASSUME NEW u \in 4..5 PROVE Six(Enc3(b, c), u) = Bit(c, u - 4)
  <2>1. CASE u = 4
    BY <1>b, <2>1, SMTT(60) DEF Six, Bit
  <2>2. CASE u = 5
    BY <1>b, <2>2 DEF Six, Bit
  <2> QED
    BY <2>1, <2>2
<1>6. ASSUME NEW u \in 0..5 PROVE Six(Enc4(c), u) = Bit(c, u + 2)
  <2>1. CASE u = 0
    BY <2>1 DEF Six, Bit, Enc4
  <2>2. CASE u = 1
    BY <2>2 DEF Six, Bit, Enc4
  <2>3. CASE u = 2
    BY <2>3 DEF Six, Bit, Enc4
  <2>4. CASE u = 3
    BY <2>4 DEF Six, Bit, Enc4
  <2>5. CASE u = 4
    BY <2>5 DEF Six, Bit, Enc4
  <2>6. CASE u = 5
    BY <2>6 DEF Six, Bit, Enc4
  <2> QED
    BY <2>1, <2>2, <2>3, <2>4, <2>5, <2>6
<1> QED
  BY <1>1, <1>2, <1>3, <1>4, <1>5, <1>6 DEF SameBits

\* No bit of zero is set.
LEMMA NoBits ==
  ASSUME NEW p \in 0..7 PROVE Bit(0, p) = 0
<1>0. CASE p = 0
  BY <1>0 DEF Bit
<1>1. CASE p = 1
  BY <1>1 DEF Bit
<1>2. CASE p = 2
  BY <1>2 DEF Bit
<1>3. CASE p = 3
  BY <1>3 DEF Bit
<1>4. CASE p = 4
  BY <1>4 DEF Bit
<1>5. CASE p = 5
  BY <1>5 DEF Bit
<1>6. CASE p = 6
  BY <1>6 DEF Bit
<1>7. CASE p = 7
  BY <1>7 DEF Bit
<1> QED
  BY <1>0, <1>1, <1>2, <1>3, <1>4, <1>5, <1>6, <1>7

\* The bits of the output are those of the input, with zeros behind them.
LEMMA EncodedBits ==
  ASSUME NEW in \in ByteString, \A i \in 1..Len(in) : Char(in[i]) >= 0,
         NEW i \in 1..(6 * CodedLen(in)), b64enc(in)[((i - 1) \div 6) + 1] # Other
  PROVE  Bits(b64enc(in), 6, i) = IF i <= 8 * Len(in) THEN Bits(in, 8, i) ELSE 0
<1> DEFINE n == Len(in)
           code == b64enc(in)
           j == ((i - 1) \div 6) + 1
           u == (i - 1) % 6
           byte == ((i - 1) \div 8) + 1
           pos == (i - 1) % 8
<1>0. n \in Nat /\ CodedLen(in) \in Nat /\ i \in Nat \ {0}
  BY DEF ByteString, CodedLen
<1>1. /\ j \in 1..CodedLen(in) /\ u \in 0..5 /\ i - 1 = 6 * (j - 1) + u
      /\ byte \in Nat \ {0} /\ pos \in 0..7 /\ i - 1 = 8 * (byte - 1) + pos
  BY <1>0
<1>2. Bits(code, 6, i) = Six(code[j], u)
  BY <1>1 DEF Bits, Six
<1> HIDE DEF j, u, byte, pos, n, code
<1>3. (IF i <= 8 * n THEN Bits(in, 8, i) ELSE 0) = Bit(At(in, byte), pos)
  <2>1. CASE byte <= n
    <3>1. i <= 8 * n
      BY <1>0, <1>1, <2>1
    <3>2. Bits(in, 8, i) = Bit(in[byte], pos)
      BY <1>0 DEF Bits, Bit, byte, pos
    <3>3. At(in, byte) = in[byte]
      BY <2>1 DEF At, n
    <3> QED
      BY <3>1, <3>2, <3>3
  <2>2. CASE ~(byte <= n)
    <3>1. ~(i <= 8 * n)
      BY <1>0, <1>1, <2>2
    <3>2. At(in, byte) = 0
      BY <2>2 DEF At, n
    <3>3. Bit(0, pos) = 0
      BY <1>1, NoBits, Zenon
    <3> QED
      BY <3>1, <3>2, <3>3
  <2> QED
    BY <2>1, <2>2
<1>4. PICK g \in Nat : 3 * g < n /\ j \in {4 * g + 1, 4 * g + 2, 4 * g + 3, 4 * g + 4}
  BY <1>1, Groups DEF n
<1>a. PICK a \in 0..255 : a = At(in, 3 * g + 1)
  <2>1. 3 * g + 1 \in Nat \ {0}
    OBVIOUS
  <2>2. At(in, 3 * g + 1) \in 0..255
    BY <2>1, ByteAt, Zenon
  <2> QED
    BY <2>2, Zenon
<1>b. PICK b \in 0..255 : b = At(in, 3 * g + 2)
  <2>1. 3 * g + 2 \in Nat \ {0}
    OBVIOUS
  <2>2. At(in, 3 * g + 2) \in 0..255
    BY <2>1, ByteAt, Zenon
  <2> QED
    BY <2>2, Zenon
<1>c. PICK c \in 0..255 : c = At(in, 3 * g + 3)
  <2>1. 3 * g + 3 \in Nat \ {0}
    OBVIOUS
  <2>2. At(in, 3 * g + 3) \in 0..255
    BY <2>1, ByteAt, Zenon
  <2> QED
    BY <2>2, Zenon
<1>5. \A k \in Nat \ {0} : Char(At(in, k)) = At(in, k)
  <2> SUFFICES ASSUME NEW k \in Nat \ {0} PROVE Char(At(in, k)) = At(in, k)
    OBVIOUS
  <2>1. PICK v \in 0..255 : v = At(in, k)
    BY ByteAt, ZenonT(60)
  <2>2. Char(v) >= 0
    <3>1. CASE k <= n
      BY <1>0, <2>1, <3>1 DEF At, n
    <3>2. CASE ~(k <= n)
      BY <2>1, <3>2 DEF At, n, Char
    <3> QED
      BY <3>1, <3>2
  <2>3. Char(v) = v
    BY <2>2, SameChar, Zenon
  <2> QED
    BY <2>1, <2>3
<1>6. Char(b) = b /\ Char(c) = c
  BY <1>5, <1>b, <1>c
<1>7. /\ \A w \in 0..5 : Six(Enc1(a), w) = Bit(a, w)
      /\ \A w \in 0..1 : Six(Enc2(a, b), w) = Bit(a, w + 6)
      /\ \A w \in 2..5 : Six(Enc2(a, b), w) = Bit(b, w - 2)
      /\ \A w \in 0..3 : Six(Enc3(b, c), w) = Bit(b, w + 4)
      /\ \A w \in 4..5 : Six(Enc3(b, c), w) = Bit(c, w - 4)
      /\ \A w \in 0..5 : Six(Enc4(c), w) = Bit(c, w + 2)
  <2>1. SameBits(a, b, c)
    BY <1>6, SextetBits, ZenonT(60)
  <2> QED
    BY <2>1, Zenon DEF SameBits
<1>8. /\ code[4 * g + 1] = Enc1(a) /\ code[4 * g + 2] = Enc2(a, b)
      /\ code[4 * g + 3] = IF 3 * g + 2 <= n THEN Enc3(b, c) ELSE Other
      /\ code[4 * g + 4] = IF 3 * g + 3 <= n THEN Enc4(c) ELSE Other
  BY <1>4, <1>a, <1>b, <1>c, Encoded, ZenonT(60) DEF n, code
<1>9. code[j] # Other
  BY DEF code, j
<1>p. 6 * (j - 1) + u = 8 * (byte - 1) + pos /\ j \in Nat /\ byte \in Nat
  BY <1>0, <1>1
<1>10. Six(code[j], u) = Bit(At(in, byte), pos)
  <2>1. CASE j = 4 * g + 1 /\ u \in 0..5
    <3>1. byte = 3 * g + 1 /\ pos = u
      BY <1>1, <1>p, <2>1, SextetPos, SMTT(60)
    <3>2. code[j] = Enc1(a)
      BY <1>8, <1>9, <2>1, Zenon
    <3>3. Six(Enc1(a), u) = Bit(a, u)
      BY <1>7, <2>1, Zenon
    <3> QED
      BY <1>a, <3>1, <3>2, <3>3, ZenonT(60)
  <2>2. CASE j = 4 * g + 2 /\ u \in 0..1
    <3>1. byte = 3 * g + 1 /\ pos = u + 6
      BY <1>1, <1>p, <2>2, SextetPos
    <3>2. code[j] = Enc2(a, b)
      BY <1>8, <1>9, <2>2, Zenon
    <3>3. Six(Enc2(a, b), u) = Bit(a, u + 6)
      BY <1>7, <2>2, Zenon
    <3> QED
      BY <1>a, <3>1, <3>2, <3>3, Zenon
  <2>3. CASE j = 4 * g + 2 /\ u \in 2..5
    <3>1. byte = 3 * g + 2 /\ pos = u - 2
      BY <1>1, <1>p, <2>3, SextetPos
    <3>2. code[j] = Enc2(a, b)
      BY <1>8, <1>9, <2>3, Zenon
    <3>3. Six(Enc2(a, b), u) = Bit(b, u - 2)
      BY <1>7, <2>3, Zenon
    <3> QED
      BY <1>b, <3>1, <3>2, <3>3, Zenon
  <2>4. CASE j = 4 * g + 3 /\ u \in 0..3
    <3>1. byte = 3 * g + 2 /\ pos = u + 4
      BY <1>1, <1>p, <2>4, SextetPos
    <3>2. code[j] = Enc3(b, c)
      BY <1>8, <1>9, <2>4, Zenon
    <3>3. Six(Enc3(b, c), u) = Bit(b, u + 4)
      BY <1>7, <2>4, Zenon
    <3> QED
      BY <1>b, <3>1, <3>2, <3>3, Zenon
  <2>5. CASE j = 4 * g + 3 /\ u \in 4..5
    <3>1. byte = 3 * g + 3 /\ pos = u - 4
      BY <1>1, <1>p, <2>5, SextetPos
    <3>2. code[j] = Enc3(b, c)
      BY <1>8, <1>9, <2>5, Zenon
    <3>3. Six(Enc3(b, c), u) = Bit(c, u - 4)
      BY <1>7, <2>5, Zenon
    <3> QED
      BY <1>c, <3>1, <3>2, <3>3, ZenonT(60)
  <2>6. CASE j = 4 * g + 4 /\ u \in 0..5
    <3>1. byte = 3 * g + 3 /\ pos = u + 2
      BY <1>1, <1>p, <2>6, SextetPos
    <3>2. code[j] = Enc4(c)
      BY <1>8, <1>9, <2>6, Zenon
    <3>3. Six(Enc4(c), u) = Bit(c, u + 2)
      BY <1>7, <2>6, Zenon
    <3> QED
      BY <1>c, <3>1, <3>2, <3>3, ZenonT(60)
  <2>7. (u \in 0..1 \/ u \in 2..5) /\ (u \in 0..3 \/ u \in 4..5)
    BY <1>1
  <2> QED
    BY <1>1, <1>4, <2>1, <2>2, <2>3, <2>4, <2>5, <2>6, <2>7
<1> QED
  BY <1>2, <1>3, <1>10 DEF n, code

(***************************************************************************)
(* EncodesBase64 for inputs of every length: b64enc is base64 for bytes    *)
(* below 128, and for all bytes where char is unsigned.                    *)
(***************************************************************************)
THEOREM Base64Encoded == InitRaw /\ [][Grow]_raw => []EncodesBase64
<1>1. RawOk => EncodesBase64
  <2> SUFFICES ASSUME raw \in ByteString PROVE EncodesBase64
    BY DEF RawOk
  <2> DEFINE n == Len(raw)
  <2>1. /\ Len(Given) = CodedLen(raw)
        /\ \A j \in 1..CodedLen(raw) : (Given[j] = Other) <=> (6 * (j - 1) >= 8 * n)
    BY EncodedString DEF Given
  <2>2. ASSUME \A i \in 1..n : Char(raw[i]) >= 0
        PROVE  \A i \in 1..(6 * CodedLen(raw)) : Given[((i - 1) \div 6) + 1] # Other =>
                 Bits(Given, 6, i) = IF i <= 8 * n THEN Bits(raw, 8, i) ELSE 0
    BY <2>2, EncodedBits DEF Given
  <2> QED
    BY <2>1, <2>2 DEF EncodesBase64, CodedLen
<1> QED
  BY <1>1, RawIsBytes, PTL

-----------------------------------------------------------------------------
(***************************************************************************)
(* Framing.  Arithmetic with a symbolic Base first: reading two bytes of a *)
(* number and writing them undo each other.  Then where the parts of a     *)
(* frame stand in a string of bytes, what parse computes with wrapped      *)
(* sizes, and that the two agree.                                          *)
(***************************************************************************)
Digit == 0..(Base - 1)

\* A larger factor makes no smaller product.
LEMMA ProductMonotone ==
  ASSUME NEW d \in Nat, NEW a \in Int, NEW b \in Int, a <= b
  PROVE  d * a <= d * b
  OBVIOUS

\* Numbers of two digits are below d * d.
LEMMA TwoDigits ==
  ASSUME NEW d \in Nat \ {0}, NEW e \in Nat \ {0}, NEW a \in 0..(d - 1), NEW b \in 0..(e - 1)
  PROVE  e * a + b \in 0..(d * e - 1)
  OBVIOUS

\* Quotient and remainder.
LEMMA Division ==
  ASSUME NEW n \in Nat, NEW d \in Nat \ {0}
  PROVE  /\ n \div d \in Nat /\ n % d \in 0..(d - 1)
         /\ n = d * (n \div d) + (n % d)
<1>1. n \div d \in Int /\ n % d \in 0..(d - 1)
  OBVIOUS
<1>2. n = d * (n \div d) + (n % d)
  OBVIOUS
<1>3. n \div d >= 0
  BY <1>1, <1>2
<1> QED BY <1>1, <1>2, <1>3

\* There is only one pair of them.
LEMMA DivisionUnique ==
  ASSUME NEW d \in Nat \ {0}, NEW q \in Int, NEW r \in 0..(d - 1)
  PROVE  (d * q + r) \div d = q /\ (d * q + r) % d = r
  OBVIOUS
\* The widths.
LEMMA Widths ==
  /\ Short \in Nat /\ Short >= 4
  /\ IntValues \in Nat /\ IntValues >= 4 * Short
  /\ SizeValues \in Nat /\ SizeValues >= 16 * IntValues
<1>1. Base \in Nat /\ Base >= 2
  BY FramingAssumption
<1>2. Short \in Nat /\ Short >= 4
  BY <1>1 DEF Short
<1>3. IntValues \in Nat /\ IntValues >= 4 * Short
  BY <1>2 DEF IntValues
<1>4. IntValues >= 16
  BY <1>2, <1>3
<1>5. SizeValues \in Nat /\ SizeValues >= 16 * IntValues
  BY <1>3, <1>4 DEF SizeValues
<1> QED BY <1>2, <1>3, <1>5

\* Written and read again, a number keeps its low 16 bits.
LEMMA WriteRead ==
  ASSUME NEW n \in Nat
  PROVE  /\ htobe16(n) \in Seq(Int) /\ Len(htobe16(n)) = 2
         /\ Base * htobe16(n)[1] + htobe16(n)[2] = n % Short
         /\ n < Short => n % Short = n
<1>1. Base \in Nat \ {0} /\ Short \in Nat \ {0}
  BY FramingAssumption, Widths
<1> DEFINE q == n \div Base
           r == n % Base
           q2 == q \div Base
           r2 == q % Base
<1>2. q \in Nat /\ r \in 0..(Base - 1) /\ n = Base * q + r
  BY <1>1, Division
<1>3. q2 \in Nat /\ r2 \in 0..(Base - 1) /\ q = Base * q2 + r2
  BY <1>1, <1>2, Division
<1> HIDE DEF q, r, q2, r2
<1>4. n = Short * q2 + (Base * r2 + r)
  BY <1>1, <1>2, <1>3 DEF Short
<1>5. Base * r2 + r \in 0..(Short - 1)
  BY <1>1, <1>2, <1>3, TwoDigits DEF Short
<1> DEFINE w == Base * r2 + r
<1>6. n % Short = w
  <2> HIDE DEF w
  <2>1. w \in 0..(Short - 1) /\ n = Short * q2 + w
    BY <1>4, <1>5 DEF w
  <2> QED BY <2>1, <1>1, <1>3, DivisionUnique
<1>7. htobe16(n) = <<r2, r>>
  BY DEF htobe16, q, r, r2
<1>8. n < Short => n % Short = n
  <2> SUFFICES ASSUME n < Short PROVE n % Short = n
    OBVIOUS
  <2>1. n \in 0..(Short - 1) /\ n = Short * 0 + n
    BY <1>1
  <2> QED BY <2>1, <1>1, DivisionUnique
<1>9. <<r2, r>> \in Seq(Int) /\ Len(<<r2, r>>) = 2 /\ <<r2, r>>[1] = r2 /\ <<r2, r>>[2] = r
  BY <1>2, <1>3
<1> QED BY <1>6, <1>7, <1>8, <1>9

\* Read and written again, two bytes are the same; also as the low half.
LEMMA ReadWrite ==
  ASSUME NEW x \in Digit, NEW y \in Digit, NEW h \in Nat
  PROVE  /\ Base * x + y \in 0..(Short - 1)
         /\ htobe16(h * Short + (Base * x + y)) = <<x, y>>
         /\ (h * Short + (Base * x + y)) \div Short = h
<1>1. Base \in Nat \ {0} /\ Short \in Nat \ {0}
  BY FramingAssumption, Widths
<1>2. Base * x + y \in 0..(Short - 1)
  BY <1>1, TwoDigits DEF Short, Digit
<1> DEFINE n == h * Short + (Base * x + y)
<1>3. n = Base * (Base * h + x) + y
  BY <1>1 DEF Short, Digit
<1>4. n \div Base = Base * h + x /\ n % Base = y
  <2> DEFINE m == Base * h + x
  <2>1. m \in Int
    BY <1>1 DEF Digit
  <2>2. n = Base * m + y
    BY <1>3
  <2> HIDE DEF m, n
  <2>3. n \div Base = m /\ n % Base = y
    BY <2>1, <2>2, <1>1, DivisionUnique DEF Digit
  <2> QED BY <2>3 DEF m
<1>5. (Base * h + x) % Base = x
  BY <1>1, DivisionUnique DEF Digit
<1>6. htobe16(n) = <<x, y>>
  BY <1>4, <1>5 DEF htobe16
<1>7. n \div Short = h
  <2> DEFINE w == Base * x + y
  <2>1. n = Short * h + w
    BY <1>1, <1>2
  <2>2. w \in 0..(Short - 1)
    BY <1>2
  <2> HIDE DEF w, n
  <2> QED BY <2>1, <2>2, <1>1, DivisionUnique
<1> QED BY <1>2, <1>6, <1>7

-----------------------------------------------------------------------------
\* s stands in b behind the first k bytes.
Stands(b, k, s) == k + Len(s) <= Len(b) /\ \A i \in 1..Len(s) : b[k + i] = s[i]

\* To stand there is to be that part of b.
LEMMA StandsIsSubSeq ==
  ASSUME NEW b \in Seq(Int), NEW s \in Seq(Int), NEW k \in Nat, k + Len(s) <= Len(b)
  PROVE  Stands(b, k, s) <=> SubSeq(b, k + 1, k + Len(s)) = s
<1> DEFINE t == SubSeq(b, k + 1, k + Len(s))
<1>1. t \in Seq(Int) /\ Len(t) = Len(s) /\ \A i \in 1..Len(s) : t[i] = b[k + i]
  OBVIOUS
<1> HIDE DEF t
<1>2. ASSUME Stands(b, k, s) PROVE t = s
  <2>1. \A i \in 1..Len(s) : t[i] = s[i]
    BY <1>1, <1>2 DEF Stands
  <2> QED BY <1>1, <2>1, SeqEqual
<1>3. ASSUME t = s PROVE Stands(b, k, s)
  BY <1>1, <1>3 DEF Stands
<1> QED BY <1>2, <1>3 DEF t

\* One string stands behind the other.
LEMMA StandsConcat ==
  ASSUME NEW b \in Seq(Int), NEW s \in Seq(Int), NEW t \in Seq(Int), NEW k \in Nat
  PROVE  Stands(b, k, s \o t) <=> Stands(b, k, s) /\ Stands(b, k + Len(s), t)
<1> DEFINE u == s \o t
<1>1. u \in Seq(Int) /\ Len(u) = Len(s) + Len(t) /\ Len(s) \in Nat /\ Len(t) \in Nat
  OBVIOUS
<1>2. /\ \A i \in 1..Len(s) : u[i] = s[i]
      /\ \A i \in 1..Len(t) : u[Len(s) + i] = t[i]
  OBVIOUS
<1> HIDE DEF u
<1>3. ASSUME Stands(b, k, u) PROVE Stands(b, k, s) /\ Stands(b, k + Len(s), t)
  <2>1. \A i \in 1..Len(s) : b[k + i] = s[i]
    <3> TAKE i \in 1..Len(s)
    <3>1. i \in 1..Len(u)
      BY <1>1
    <3> QED BY <1>2, <1>3, <3>1 DEF Stands
  <2>2. \A i \in 1..Len(t) : b[(k + Len(s)) + i] = t[i]
    <3> TAKE i \in 1..Len(t)
    <3>1. Len(s) + i \in 1..Len(u) /\ k + (Len(s) + i) = (k + Len(s)) + i
      BY <1>1
    <3> QED BY <1>2, <1>3, <3>1 DEF Stands
  <2> QED BY <1>1, <1>3, <2>1, <2>2 DEF Stands
<1>4. ASSUME Stands(b, k, s), Stands(b, k + Len(s), t) PROVE Stands(b, k, u)
  <2>1. ASSUME NEW i \in 1..Len(u) PROVE b[k + i] = u[i]
    <3>1. CASE i <= Len(s)
      <4>1. i \in 1..Len(s)
        BY <1>1, <3>1
      <4> QED BY <1>2, <1>4, <4>1 DEF Stands
    <3>2. CASE i > Len(s)
      <4> DEFINE j == i - Len(s)
      <4>1. j \in 1..Len(t) /\ i = Len(s) + j /\ (k + Len(s)) + j = k + i
        BY <1>1, <3>2
      <4> QED BY <1>2, <1>4, <4>1, ZenonT(60) DEF Stands
    <3> QED BY <1>1, <3>1, <3>2
  <2> QED BY <1>1, <1>4, <2>1 DEF Stands
<1> QED BY <1>3, <1>4 DEF u

\* Two bytes.
LEMMA StandsTwo ==
  ASSUME NEW b \in Seq(Int), NEW s \in Seq(Int), Len(s) = 2, NEW k \in Nat
  PROVE  Stands(b, k, s) <=> k + 2 <= Len(b) /\ b[k + 1] = s[1] /\ b[k + 2] = s[2]
<1>1. 1..Len(s) = {1, 2}
  OBVIOUS
<1> QED BY <1>1 DEF Stands

\* Names for concatenation and for a part of a string, which the provers take
\* as they are where these are not expanded.
Cat(s, t) == s \o t
Part(b, k, l) == SubSeq(b, k + 1, k + l)

\* The same, by offset and length.
LEMMA StandsPart ==
  ASSUME NEW b \in Seq(Int), NEW s \in Seq(Int), NEW k \in Nat, NEW l \in Nat,
         Len(s) = l, k + l <= Len(b)
  PROVE  Stands(b, k, s) <=> Part(b, k, l) = s
BY StandsIsSubSeq DEF Part

\* Two bytes, as a pair.
LEMMA StandsPair ==
  ASSUME NEW b \in Seq(Int), NEW s \in Seq(Int), NEW k \in Nat, Len(s) = 2, k + 2 <= Len(b)
  PROVE  Stands(b, k, s) <=> <<b[k + 1], b[k + 2]>> = s
<1>1. Stands(b, k, s) <=> b[k + 1] = s[1] /\ b[k + 2] = s[2]
  BY StandsTwo
<1>2. s = <<s[1], s[2]>>
  OBVIOUS
<1> QED BY <1>1, <1>2, SMTT(60)

\* A sequence behind one of known length.
LEMMA StandsBehind ==
  ASSUME NEW b \in Seq(Int), NEW s \in Seq(Int), NEW t \in Seq(Int)
  PROVE  /\ Cat(s, t) \in Seq(Int) /\ Len(Cat(s, t)) = Len(s) + Len(t)
         /\ Stands(b, 0, Cat(s, t)) <=> Stands(b, 0, s) /\ Stands(b, Len(s), t)
<1>1. s \o t \in Seq(Int) /\ Len(s \o t) = Len(s) + Len(t)
  BY ConcatProperties
<1>2. Stands(b, 0, s \o t) <=> Stands(b, 0, s) /\ Stands(b, 0 + Len(s), t)
  BY StandsConcat
<1>3. 0 + Len(s) = Len(s)
  OBVIOUS
<1> QED BY <1>1, <1>2, <1>3 DEF Cat

\* The five numbers of a frame.
LEMMA FrameNumbers ==
  ASSUME NEW b \in Seq(Int),
         NEW a1 \in Seq(Int), NEW a2 \in Seq(Int), NEW a3 \in Seq(Int),
         NEW a4 \in Seq(Int), NEW a5 \in Seq(Int),
         Len(a1) = 2, Len(a2) = 2, Len(a3) = 2, Len(a4) = 2, Len(a5) = 2
  PROVE  LET f5 == Cat(Cat(Cat(Cat(a1, a2), a3), a4), a5) IN
         /\ f5 \in Seq(Int) /\ Len(f5) = 10
         /\ Stands(b, 0, f5) <=> /\ Stands(b, 0, a1) /\ Stands(b, 2, a2) /\ Stands(b, 4, a3)
                             /\ Stands(b, 6, a4) /\ Stands(b, 8, a5)
<1> DEFINE f2 == Cat(a1, a2)
           f3 == Cat(f2, a3)
           f4 == Cat(f3, a4)
           f5 == Cat(f4, a5)
<1>1. /\ f2 \in Seq(Int) /\ Len(f2) = 4
      /\ Stands(b, 0, f2) <=> Stands(b, 0, a1) /\ Stands(b, 2, a2)
  <2>1. /\ f2 \in Seq(Int) /\ Len(f2) = Len(a1) + Len(a2)
        /\ Stands(b, 0, f2) <=> Stands(b, 0, a1) /\ Stands(b, Len(a1), a2)
    BY StandsBehind, Zenon
  <2> HIDE DEF f2
  <2> QED BY <2>1
<1>2. /\ f3 \in Seq(Int) /\ Len(f3) = 6
      /\ Stands(b, 0, f3) <=> Stands(b, 0, f2) /\ Stands(b, 4, a3)
  <2> HIDE DEF f2
  <2>1. /\ f3 \in Seq(Int) /\ Len(f3) = Len(f2) + Len(a3)
        /\ Stands(b, 0, f3) <=> Stands(b, 0, f2) /\ Stands(b, Len(f2), a3)
    BY <1>1, StandsBehind, Zenon
  <2> HIDE DEF f3
  <2> QED BY <1>1, <2>1
<1>3. /\ f4 \in Seq(Int) /\ Len(f4) = 8
      /\ Stands(b, 0, f4) <=> Stands(b, 0, f3) /\ Stands(b, 6, a4)
  <2> HIDE DEF f3
  <2>1. /\ f4 \in Seq(Int) /\ Len(f4) = Len(f3) + Len(a4)
        /\ Stands(b, 0, f4) <=> Stands(b, 0, f3) /\ Stands(b, Len(f3), a4)
    BY <1>2, StandsBehind, Zenon
  <2> HIDE DEF f4
  <2> QED BY <1>2, <2>1
<1>4. /\ f5 \in Seq(Int) /\ Len(f5) = 10
      /\ Stands(b, 0, f5) <=> Stands(b, 0, f4) /\ Stands(b, 8, a5)
  <2> HIDE DEF f4
  <2>1. /\ f5 \in Seq(Int) /\ Len(f5) = Len(f4) + Len(a5)
        /\ Stands(b, 0, f5) <=> Stands(b, 0, f4) /\ Stands(b, Len(f4), a5)
    BY <1>3, StandsBehind, Zenon
  <2> HIDE DEF f5
  <2> QED BY <1>3, <2>1
<1> QED BY <1>1, <1>2, <1>3, <1>4

Sized(n) == {s \in Seq(Int) : Len(s) = n}

\* The whole frame.
Frame(b, f5, h, d, a8) ==
  /\ Cat(Cat(Cat(f5, h), d), a8) \in Seq(Int)
  /\ Len(Cat(Cat(Cat(f5, h), d), a8)) = 12 + Len(h) + Len(d)
  /\ Stands(b, 0, Cat(Cat(Cat(f5, h), d), a8))
       <=> /\ Stands(b, 0, f5) /\ Stands(b, 10, h)
           /\ Stands(b, 10 + Len(h), d) /\ Stands(b, 10 + Len(h) + Len(d), a8)

\* The contents stand behind the ten bytes of numbers, the magic number last.
LEMMA FrameParts ==
  ASSUME NEW b \in Seq(Int), NEW f5 \in Sized(10),
         NEW h \in Seq(Int), NEW d \in Seq(Int), NEW a8 \in Sized(2)
  PROVE  Frame(b, f5, h, d, a8)
<1> DEFINE H == Len(h)
           D == Len(d)
           f6 == Cat(f5, h)
           f7 == Cat(f6, d)
           f == Cat(f7, a8)
<1>0. /\ H \in Nat /\ D \in Nat
      /\ f5 \in Seq(Int) /\ Len(f5) = 10 /\ a8 \in Seq(Int) /\ Len(a8) = 2
  BY DEF Sized
<1>1. /\ f6 \in Seq(Int) /\ Len(f6) = 10 + H
      /\ Stands(b, 0, f6) <=> Stands(b, 0, f5) /\ Stands(b, 10, h)
  <2>1. /\ f6 \in Seq(Int) /\ Len(f6) = Len(f5) + Len(h)
        /\ Stands(b, 0, f6) <=> Stands(b, 0, f5) /\ Stands(b, Len(f5), h)
    BY <1>0, StandsBehind, Zenon
  <2> HIDE DEF f6
  <2> QED BY <1>0, <2>1
<1>2. /\ f7 \in Seq(Int) /\ Len(f7) = 10 + H + D
      /\ Stands(b, 0, f7) <=> Stands(b, 0, f6) /\ Stands(b, 10 + H, d)
  <2> HIDE DEF f6
  <2>1. /\ f7 \in Seq(Int) /\ Len(f7) = Len(f6) + Len(d)
        /\ Stands(b, 0, f7) <=> Stands(b, 0, f6) /\ Stands(b, Len(f6), d)
    BY <1>0, <1>1, StandsBehind, Zenon
  <2> HIDE DEF f7
  <2> QED BY <1>0, <1>1, <2>1
<1>3. /\ f \in Seq(Int) /\ Len(f) = 12 + H + D
      /\ Stands(b, 0, f) <=> Stands(b, 0, f7) /\ Stands(b, 10 + H + D, a8)
  <2> HIDE DEF f7
  <2>1. /\ f \in Seq(Int) /\ Len(f) = Len(f7) + Len(a8)
        /\ Stands(b, 0, f) <=> Stands(b, 0, f7) /\ Stands(b, Len(f7), a8)
    BY <1>0, <1>2, StandsBehind, Zenon
  <2> HIDE DEF f
  <2> QED BY <1>0, <1>2, <2>1
<1> QED BY <1>1, <1>2, <1>3, Zenon DEF Frame

\* The same with the bytes of b.
Starts(b, a1, a2, a3, a4, a5, a8, h, d, H, D) ==
  (LET f == a1 \o a2 \o a3 \o a4 \o a5 \o h \o d \o a8 IN
     Len(f) <= Len(b) /\ SubSeq(b, 1, Len(f)) = f)
  <=> /\ 12 + H + D <= Len(b)
      /\ <<b[1], b[2]>> = a1 /\ <<b[3], b[4]>> = a2 /\ <<b[5], b[6]>> = a3
      /\ <<b[7], b[8]>> = a4 /\ <<b[9], b[10]>> = a5
      /\ SubSeq(b, 11, 10 + H) = h
      /\ SubSeq(b, 11 + H, 10 + H + D) = d
      /\ <<b[11 + H + D], b[12 + H + D]>> = a8

\* A frame begins b exactly if its parts are where they belong.
LEMMA FrameBegins ==
  ASSUME NEW b \in Seq(Int),
         NEW a1 \in Sized(2), NEW a2 \in Sized(2), NEW a3 \in Sized(2),
         NEW a4 \in Sized(2), NEW a5 \in Sized(2), NEW a8 \in Sized(2),
         NEW h \in Seq(Int), NEW d \in Seq(Int),
         NEW H \in Nat, H = Len(h), NEW D \in Nat, D = Len(d)
  PROVE  Starts(b, a1, a2, a3, a4, a5, a8, h, d, H, D)
<1>0. /\ a1 \in Seq(Int) /\ a2 \in Seq(Int) /\ a3 \in Seq(Int) /\ a4 \in Seq(Int)
      /\ a5 \in Seq(Int) /\ a8 \in Seq(Int)
      /\ Len(a1) = 2 /\ Len(a2) = 2 /\ Len(a3) = 2 /\ Len(a4) = 2 /\ Len(a5) = 2 /\ Len(a8) = 2
  BY DEF Sized
<1> DEFINE f5 == Cat(Cat(Cat(Cat(a1, a2), a3), a4), a5)
           f == Cat(Cat(Cat(f5, h), d), a8)
<1>1. /\ f5 \in Seq(Int) /\ Len(f5) = 10
      /\ Stands(b, 0, f5) <=> /\ Stands(b, 0, a1) /\ Stands(b, 2, a2) /\ Stands(b, 4, a3)
                          /\ Stands(b, 6, a4) /\ Stands(b, 8, a5)
  BY <1>0, FrameNumbers
<1>2. /\ f \in Seq(Int) /\ Len(f) = 12 + H + D
      /\ Stands(b, 0, f) <=> /\ Stands(b, 0, f5) /\ Stands(b, 10, h)
                         /\ Stands(b, 10 + H, d) /\ Stands(b, 10 + H + D, a8)
  <2> HIDE DEF f5
  <2>1. f5 \in Sized(10) /\ a8 \in Sized(2)
    BY <1>0, <1>1 DEF Sized
  <2>2. /\ f \in Seq(Int) /\ Len(f) = 12 + Len(h) + Len(d)
        /\ Stands(b, 0, f) <=> /\ Stands(b, 0, f5) /\ Stands(b, 10, h)
                           /\ Stands(b, 10 + Len(h), d) /\ Stands(b, 10 + Len(h) + Len(d), a8)
    <3>1. Frame(b, f5, h, d, a8)
      BY <2>1, FrameParts, Zenon
    <3> QED BY <3>1, Zenon DEF Frame
  <2> QED BY <2>2
<1>3. a1 \o a2 \o a3 \o a4 \o a5 \o h \o d \o a8 = f
  BY DEF Cat
<1> HIDE DEF f5, f
<1>4. ASSUME 12 + H + D <= Len(b)
      PROVE  /\ Part(b, 0, Len(f)) = f <=> Stands(b, 0, f)
             /\ Stands(b, 10, h) <=> Part(b, 10, H) = h
             /\ Stands(b, 10 + H, d) <=> Part(b, 10 + H, D) = d
  <2>1. Len(f) \in Nat /\ 0 + Len(f) <= Len(b)
    BY <1>2, <1>4
  <2>2. Part(b, 0, Len(f)) = f <=> Stands(b, 0, f)
    BY <1>2, <2>1, StandsPart, SMTT(60)
  <2>3. Stands(b, 10, h) <=> Part(b, 10, H) = h
    BY <1>4, StandsPart
  <2>4. 10 + H \in Nat /\ (10 + H) + D <= Len(b)
    BY <1>4
  <2>5. Stands(b, 10 + H, d) <=> Part(b, 10 + H, D) = d
    BY <2>4, StandsPart
  <2> QED BY <2>2, <2>3, <2>5
<1>5. ASSUME 12 + H + D <= Len(b)
      PROVE  /\ Stands(b, 0, a1) <=> <<b[1], b[2]>> = a1
             /\ Stands(b, 2, a2) <=> <<b[3], b[4]>> = a2
             /\ Stands(b, 4, a3) <=> <<b[5], b[6]>> = a3
             /\ Stands(b, 6, a4) <=> <<b[7], b[8]>> = a4
             /\ Stands(b, 8, a5) <=> <<b[9], b[10]>> = a5
             /\ Stands(b, 10 + H + D, a8) <=> <<b[11 + H + D], b[12 + H + D]>> = a8
  <2>1. Len(b) \in Nat /\ Len(b) >= 12
    BY <1>5
  <2>2. Stands(b, 0, a1) <=> <<b[0 + 1], b[0 + 2]>> = a1
    BY <1>0, <2>1, StandsPair
  <2>3. Stands(b, 2, a2) <=> <<b[2 + 1], b[2 + 2]>> = a2
    BY <1>0, <2>1, StandsPair
  <2>4. Stands(b, 4, a3) <=> <<b[4 + 1], b[4 + 2]>> = a3
    BY <1>0, <2>1, StandsPair, SMTT(60)
  <2>5. Stands(b, 6, a4) <=> <<b[6 + 1], b[6 + 2]>> = a4
    BY <1>0, <2>1, StandsPair, SMTT(60)
  <2>6. Stands(b, 8, a5) <=> <<b[8 + 1], b[8 + 2]>> = a5
    BY <1>0, <2>1, StandsPair, SMTT(60)
  <2>7. Stands(b, 10 + H + D, a8) <=> <<b[11 + H + D], b[12 + H + D]>> = a8
    <3> DEFINE k == 10 + H + D
    <3>1. k \in Nat /\ k + 2 <= Len(b) /\ k + 1 = 11 + H + D /\ k + 2 = 12 + H + D
      BY <1>5
    <3> HIDE DEF k
    <3>2. Stands(b, k, a8) <=> <<b[k + 1], b[k + 2]>> = a8
      BY <1>0, <3>1, StandsPair, SMTT(60)
    <3> QED BY <3>1, <3>2 DEF k
  <2> QED BY <2>2, <2>3, <2>4, <2>5, <2>6, <2>7
<1>6. /\ Part(b, 0, Len(f)) = SubSeq(b, 1, Len(f))
      /\ Part(b, 10, H) = SubSeq(b, 11, 10 + H)
      /\ Part(b, 10 + H, D) = SubSeq(b, 11 + H, 10 + H + D)
  <2>1. 0 + 1 = 1 /\ 0 + Len(f) = Len(f) /\ 10 + 1 = 11 /\ (10 + H) + 1 = 11 + H
    BY <1>2
  <2> QED BY <2>1 DEF Part
<1>7. (Len(f) <= Len(b) /\ SubSeq(b, 1, Len(f)) = f)
      <=> /\ 12 + H + D <= Len(b)
          /\ <<b[1], b[2]>> = a1 /\ <<b[3], b[4]>> = a2 /\ <<b[5], b[6]>> = a3
          /\ <<b[7], b[8]>> = a4 /\ <<b[9], b[10]>> = a5
          /\ SubSeq(b, 11, 10 + H) = h
          /\ SubSeq(b, 11 + H, 10 + H + D) = d
          /\ <<b[11 + H + D], b[12 + H + D]>> = a8
  <2>1. Len(f) <= Len(b) <=> 12 + H + D <= Len(b)
    BY <1>2
  <2>2. CASE 12 + H + D <= Len(b)
    BY <1>1, <1>2, <1>4, <1>5, <1>6, <2>1, <2>2, Zenon
  <2> QED BY <2>1, <2>2, Zenon
<1> QED BY <1>3, <1>7, Zenon DEF Starts

\* b begins with a frame of these contents.
Begins(b, o, h, d, H, D) ==
  /\ 12 + H + D <= Len(b)
  /\ <<b[1], b[2]>> = htobe16(PACKET_MAGIC1)
  /\ <<b[3], b[4]>> = htobe16(o)
  /\ <<b[5], b[6]>> = htobe16(H)
  /\ <<b[7], b[8]>> = htobe16(D \div Short)
  /\ <<b[9], b[10]>> = htobe16(D)
  /\ SubSeq(b, 11, 10 + H) = h
  /\ SubSeq(b, 11 + H, 10 + H + D) = d
  /\ <<b[11 + H + D], b[12 + H + D]>> = htobe16(PACKET_MAGIC2)

Leads(f, b) == Len(f) <= Len(b) /\ SubSeq(b, 1, Len(f)) = f

\* build puts the parts one behind the other.
LEMMA BuildBegins ==
  ASSUME NEW b \in Seq(Int), NEW p, p.opcode \in Nat, p.header \in Seq(Int), p.data \in Seq(Int)
  PROVE  Leads(build(p), b)
           <=> Begins(b, p.opcode, p.header, p.data, Len(p.header), Len(p.data))
<1>1. PICK o, h, d : o = p.opcode /\ h = p.header /\ d = p.data
  OBVIOUS
<1>2. o \in Nat /\ h \in Seq(Int) /\ d \in Seq(Int)
  BY <1>1
<1> DEFINE H == Len(h)
           D == Len(d)
           a1 == htobe16(PACKET_MAGIC1)
           a2 == htobe16(o)
           a3 == htobe16(H)
           a4 == htobe16(D \div Short)
           a5 == htobe16(D)
           a8 == htobe16(PACKET_MAGIC2)
<1>3. H \in Nat /\ D \in Nat
  BY <1>2
<1>4. D \div Short \in Nat /\ PACKET_MAGIC1 \in Nat /\ PACKET_MAGIC2 \in Nat
  <2>1. Short \in Nat \ {0}
    BY Widths
  <2> HIDE DEF D
  <2>2. D \div Short \in Nat
    BY <1>3, <2>1, Division
  <2> QED BY <2>1, <2>2, FramingAssumption
<1>5. build(p) = a1 \o a2 \o a3 \o a4 \o a5 \o h \o d \o a8
  BY <1>1, Zenon DEF build
<1>6. /\ a1 \in Sized(2) /\ a2 \in Sized(2) /\ a3 \in Sized(2)
      /\ a4 \in Sized(2) /\ a5 \in Sized(2) /\ a8 \in Sized(2)
  <2> HIDE DEF H, D
  <2>1. \A n \in Nat : htobe16(n) \in Sized(2)
    BY WriteRead, Zenon DEF Sized
  <2> QED BY <1>2, <1>3, <1>4, <2>1, Zenon
<1>7. Begins(b, o, h, d, H, D) <=>
        /\ 12 + H + D <= Len(b)
        /\ <<b[1], b[2]>> = a1 /\ <<b[3], b[4]>> = a2 /\ <<b[5], b[6]>> = a3
        /\ <<b[7], b[8]>> = a4 /\ <<b[9], b[10]>> = a5
        /\ SubSeq(b, 11, 10 + H) = h
        /\ SubSeq(b, 11 + H, 10 + H + D) = d
        /\ <<b[11 + H + D], b[12 + H + D]>> = a8
  BY Zenon DEF Begins
<1> HIDE DEF a1, a2, a3, a4, a5, a8
<1>8. Starts(b, a1, a2, a3, a4, a5, a8, h, d, H, D)
  <2>1. H = Len(h) /\ D = Len(d)
    OBVIOUS
  <2> HIDE DEF H, D
  <2> QED BY <1>2, <1>3, <1>6, <2>1, FrameBegins, Zenon
<1>9. (LET f == a1 \o a2 \o a3 \o a4 \o a5 \o h \o d \o a8 IN
        Len(f) <= Len(b) /\ SubSeq(b, 1, Len(f)) = f)
      <=> Begins(b, o, h, d, H, D)
  BY <1>7, <1>8, Zenon DEF Starts
<1> QED BY <1>1, <1>5, <1>9, Zenon DEF Leads

-----------------------------------------------------------------------------
\* What the first ten bytes say.
HeaderSize(b) == be16toh(b, 2)
High(b) == be16toh(b, 3)
Stated(b) == be16toh(b, 3) * Short + be16toh(b, 4)

\* They are five numbers of two bytes.
LEMMA Numbers ==
  ASSUME NEW b \in Seq(Digit), Len(b) >= 10, NEW k \in 0..4
  PROVE  be16toh(b, k) \in 0..(Short - 1)
<1>1. 2 * k + 1 \in 1..Len(b) /\ 2 * k + 2 \in 1..Len(b)
  OBVIOUS
<1>2. b[2 * k + 1] \in Digit /\ b[2 * k + 2] \in Digit
  BY <1>1
<1> DEFINE x == b[2 * k + 1]
           y == b[2 * k + 2]
<1> HIDE DEF x, y
<1>3. Base * x + y \in 0..(Short - 1)
  BY <1>2, ReadWrite DEF x, y
<1> QED BY <1>3 DEF be16toh, x, y

\* A number below the values of a size_t stays, one below zero wraps.
LEMMA Wraps ==
  ASSUME NEW n \in Int
  PROVE  /\ n >= 0 /\ n < SizeValues => SizeT(n) = n
         /\ n < 0 /\ n >= -SizeValues => SizeT(n) = SizeValues + n
<1> DEFINE V == SizeValues
<1>1. V \in Nat \ {0}
  BY Widths
<1> HIDE DEF V
<1>2. ASSUME n >= 0, n < V PROVE n % V = n
  <2>1. n \in 0..(V - 1) /\ n = V * 0 + n
    BY <1>1, <1>2
  <2> QED BY <1>1, <2>1, DivisionUnique
<1>3. ASSUME n < 0, n >= -V PROVE n % V = V + n
  <2> DEFINE r == V + n
  <2>1. r \in 0..(V - 1) /\ n = V * (-1) + r
    BY <1>1, <1>3
  <2> HIDE DEF r
  <2>2. (V * (-1) + r) % V = r
    BY <1>1, <2>1, DivisionUnique
  <2> QED BY <2>1, <2>2 DEF r
<1> QED BY <1>2, <1>3 DEF SizeT, V

\* The sizes parse computes with: without the sign bit the size of the data is
\* the stated one and no sum wraps; with it, it exceeds every buffer.
LEMMA Sizes ==
  ASSUME NEW b \in Seq(Digit), Len(b) >= 10, Len(b) <= MaxBuf
  PROVE  /\ HeaderSize(b) \in Nat /\ HeaderSize(b) < Short
         /\ High(b) \in Nat /\ Stated(b) \in Nat
         /\ Stated(b) + HeaderSize(b) + 12 < SizeValues
         /\ 2 * High(b) < Short => DataSize(b) = Stated(b)
         /\ 2 * High(b) >= Short => DataSize(b) \in Nat /\ DataSize(b) > Len(b)
<1> DEFINE H == HeaderSize(b)
           hi == High(b)
           lo == be16toh(b, 4)
           n == Stated(b)
<1>1. H \in 0..(Short - 1) /\ hi \in 0..(Short - 1) /\ lo \in 0..(Short - 1)
  BY Numbers DEF HeaderSize, High
<1>2. n = hi * Short + lo
  BY DEF Stated, High
<1>3. DataSize(b) = SizeT(IF 2 * hi >= Short THEN n - IntValues ELSE n)
  BY DEF DataSize, High, Stated
<1> HIDE DEF H, hi, lo, n
<1>4. /\ Short \in Nat /\ Short >= 4
      /\ IntValues \in Nat /\ IntValues >= 4 * Short /\ IntValues = Short * Short
      /\ SizeValues \in Nat /\ SizeValues >= 16 * IntValues
      /\ 2 * Len(b) <= SizeValues /\ Len(b) \in Nat
  BY Widths, FramingAssumption DEF IntValues
<1>5. n \in 0..(IntValues - 1)
  <2>1. Short * hi + lo \in 0..(Short * Short - 1)
    BY <1>1, <1>4, TwoDigits
  <2> QED BY <1>1, <1>2, <1>4, <2>1
<1>6. n + H + 12 < SizeValues
  BY <1>1, <1>4, <1>5
<1>7. ASSUME 2 * hi < Short PROVE DataSize(b) = n
  <2>1. DataSize(b) = SizeT(n)
    BY <1>1, <1>3, <1>4, <1>7
  <2>2. n \in Int /\ n >= 0 /\ n < SizeValues
    BY <1>4, <1>5
  <2> QED BY <2>1, <2>2, Wraps
<1>8. ASSUME 2 * hi >= Short PROVE DataSize(b) \in Nat /\ DataSize(b) > Len(b)
  <2>1. DataSize(b) = SizeT(n - IntValues)
    BY <1>3, <1>8
  <2>2. n - IntValues \in Int /\ n - IntValues < 0 /\ n - IntValues >= -SizeValues
    BY <1>4, <1>5
  <2> DEFINE m == n - IntValues
  <2> HIDE DEF m
  <2>3. SizeT(m) = SizeValues + m
    BY <2>2, Wraps DEF m
  <2>4. Short * Short <= Short * (2 * hi)
    BY <1>1, <1>4, <1>8, ProductMonotone
  <2>5. Short * (2 * hi) = 2 * (hi * Short)
    BY <1>1, <1>4
  <2>6. hi * Short \in Int
    BY <1>1, <1>4
  <2> DEFINE z == hi * Short
  <2>7. 2 * n >= IntValues
    <3>1. n = z + lo /\ z \in Int /\ IntValues <= 2 * z
      BY <1>2, <1>4, <2>4, <2>5, <2>6
    <3>2. lo \in Nat /\ IntValues \in Int
      BY <1>1, <1>4
    <3> HIDE DEF z
    <3> QED BY <3>1, <3>2
  <2>8. DataSize(b) = SizeValues + (n - IntValues)
    BY <2>1, <2>3 DEF m
  <2> QED BY <1>4, <1>5, <2>7, <2>8
<1> QED BY <1>1, <1>4, <1>5, <1>6, <1>7, <1>8 DEF H, hi, n

\* b begins with a frame whose sizes are right.
Whole(b) ==
  /\ Len(b) >= 10
  /\ be16toh(b, 0) = PACKET_MAGIC1
  /\ 2 * High(b) < Short
  /\ Stated(b) + HeaderSize(b) + 12 <= Len(b)
  /\ Base * b[Stated(b) + HeaderSize(b) + 11] + b[Stated(b) + HeaderSize(b) + 12]
       = PACKET_MAGIC2

\* parse takes such inputs and no others, and throws only for sizes that are
\* negative.
LEMMA ParseTakes ==
  ASSUME NEW b \in Seq(Digit), Len(b) <= MaxBuf
  PROVE  /\ Whole(b) => parse(b) = Fields(b, HeaderSize(b), Stated(b))
         /\ ~Whole(b) => parse(b) \in {Refused, Throws}
         /\ parse(b) = Throws => 2 * High(b) >= Short
<1>1. CASE Len(b) < 10 \/ be16toh(b, 0) # PACKET_MAGIC1
  <2>1. parse(b) = Refused
    BY <1>1 DEF parse
  <2>2. ~Whole(b)
    BY <1>1 DEF Whole
  <2>3. Refused # Throws
    BY DEF Refused, Throws
  <2> QED BY <2>1, <2>2, <2>3
<1>2. CASE Len(b) >= 10 /\ be16toh(b, 0) = PACKET_MAGIC1
  <2> DEFINE H == HeaderSize(b)
             n == Stated(b)
             dat == DataSize(b)
             at == SizeT(dat + H + 10)
  <2>1. /\ H \in Nat /\ H < Short /\ High(b) \in Nat /\ n \in Nat
        /\ n + H + 12 < SizeValues
        /\ 2 * High(b) < Short => dat = n
        /\ 2 * High(b) >= Short => dat \in Nat /\ dat > Len(b)
    BY <1>2, Sizes
  <2>2. Short \in Nat /\ SizeValues \in Nat /\ Len(b) \in Nat
    BY Widths
  <2>3. parse(b) =
          IF TooShort(b, H + 10) \/ TooShort(b, dat + H + 12) THEN Refused
          ELSE IF at + 2 > Len(b) \/ Base * b[at + 1] + b[at + 2] # PACKET_MAGIC2 THEN Refused
          ELSE IF dat > Len(b) THEN Throws
          ELSE Fields(b, H, dat)
    <3>1. ~(Len(b) < 10 \/ be16toh(b, 0) # PACKET_MAGIC1)
      BY <1>2, <2>2
    <3> QED BY <3>1, Zenon DEF parse, HeaderSize
  <2>4. Refused # Throws
    BY DEF Refused, Throws
  <2>5. CASE 2 * High(b) >= Short
    <3>1. ~Whole(b)
      BY <2>1, <2>2, <2>5 DEF Whole
    <3>2. parse(b) \in {Refused, Throws}
      BY <2>1, <2>3, <2>5
    <3> QED BY <3>1, <3>2, <2>5
  <2>6. CASE 2 * High(b) < Short
    <3>1. dat = n
      BY <2>1, <2>6
    <3> DEFINE e == n + H + 10
    <3>2. /\ H + 10 \in Int /\ H + 10 >= 0 /\ H + 10 < SizeValues
          /\ n + H + 12 \in Int /\ n + H + 12 >= 0
          /\ e \in Int /\ e >= 0 /\ e < SizeValues
      BY <2>1, <2>2, SMTT(60)
    <3>3. SizeT(H + 10) = H + 10 /\ SizeT(n + H + 12) = n + H + 12 /\ SizeT(e) = e
      BY <2>1, <3>2, Wraps
    <3>4. at = e /\ e + 1 = n + H + 11 /\ e + 2 = n + H + 12
      BY <2>1, <3>1, <3>3
    <3> HIDE DEF H, n, dat, at, e
    <3>5. TooShort(b, H + 10) \/ TooShort(b, dat + H + 12) <=> Len(b) < n + H + 12
      BY <2>1, <2>2, <3>1, <3>3 DEF TooShort
    <3>6. CASE Len(b) < n + H + 12
      <4>1. parse(b) = Refused
        BY <2>3, <3>5, <3>6
      <4>2. ~Whole(b)
        BY <2>1, <2>2, <3>6, SMTT(60) DEF Whole, H, n
      <4> QED BY <2>4, <4>1, <4>2
    <3>7. CASE n + H + 12 <= Len(b)
      <4>1. ~(Len(b) < n + H + 12) /\ ~(at + 2 > Len(b)) /\ ~(dat > Len(b))
        BY <2>1, <2>2, <3>1, <3>4, <3>7
      <4>2. parse(b) = IF Base * b[at + 1] + b[at + 2] # PACKET_MAGIC2 THEN Refused
                       ELSE Fields(b, H, dat)
        BY <2>3, <3>5, <4>1, Zenon
      <4>3. Whole(b) <=> Base * b[at + 1] + b[at + 2] = PACKET_MAGIC2
        BY <1>2, <2>6, <3>4, <3>7 DEF Whole, H, n
      <4>4. Fields(b, H, dat) = Fields(b, HeaderSize(b), Stated(b))
        BY <3>1 DEF H, n
      <4>5. parse(b) # Throws
        <5>1. Fields(b, H, dat).opcode = be16toh(b, 1)
          BY DEF Fields
        <5>2. be16toh(b, 1) \in Nat
          <6>1. be16toh(b, 1) \in 0..(Short - 1)
            BY <1>2, Numbers
          <6> QED BY <2>2, <6>1
        <5>3. Throws.opcode = -2
          BY DEF Throws
        <5> QED BY <2>4, <4>2, <5>1, <5>2, <5>3
      <4> QED BY <4>2, <4>3, <4>4, <4>5
    <3> QED BY <2>1, <2>2, <3>6, <3>7
  <2> QED BY <2>1, <2>2, <2>5, <2>6
<1>3. Len(b) \in Nat
  OBVIOUS
<1> QED BY <1>1, <1>2, <1>3

-----------------------------------------------------------------------------
\* Strings(n) are the strings of at most n bytes.
LEMMA StringsAre ==
  ASSUME NEW n \in Int, NEW s
  PROVE  s \in Strings(n) <=> s \in Seq(Digit) /\ Len(s) <= n
<1>1. ASSUME s \in Strings(n) PROVE s \in Seq(Digit) /\ Len(s) <= n
  <2>1. PICK k \in 0..n : s \in [1..k -> Digit]
    BY <1>1 DEF Strings, Digit
  <2>2. k \in Nat
    OBVIOUS
  <2>3. s \in Seq(Digit) /\ Len(s) = k
    BY <2>1, <2>2, SMTT(60)
  <2> QED BY <2>2, <2>3
<1>2. ASSUME s \in Seq(Digit), Len(s) <= n PROVE s \in Strings(n)
  <2>1. Len(s) \in 0..n /\ s \in [1..Len(s) -> Digit]
    BY <1>2
  <2> QED BY <2>1 DEF Strings, Digit
<1> QED BY <1>1, <1>2

\* What a packet of Packets is.
LEMMA PacketsAre ==
  ASSUME NEW p
  PROVE  p \in Packets <=>
           /\ p \in [opcode : 0..(Short - 1), header : Seq(Digit), data : Seq(Digit)]
           /\ 12 + Len(p.header) + Len(p.data) <= MaxBuf
           /\ Len(p.header) < Short /\ 2 * (Len(p.data) \div Short) < Short
<1>1. MaxBuf - 12 \in Int /\ MaxBuf \in Nat
  BY FramingAssumption
<1>2. \A s : s \in Strings(MaxBuf - 12) <=> s \in Seq(Digit) /\ Len(s) <= MaxBuf - 12
  BY <1>1, StringsAre
<1>3. ASSUME p \in Packets
      PROVE  /\ p \in [opcode : 0..(Short - 1), header : Seq(Digit), data : Seq(Digit)]
             /\ 12 + Len(p.header) + Len(p.data) <= MaxBuf
             /\ Len(p.header) < Short /\ 2 * (Len(p.data) \div Short) < Short
  BY <1>2, <1>3 DEF Packets
<1>4. ASSUME p \in [opcode : 0..(Short - 1), header : Seq(Digit), data : Seq(Digit)],
             12 + Len(p.header) + Len(p.data) <= MaxBuf,
             Len(p.header) < Short, 2 * (Len(p.data) \div Short) < Short
      PROVE  p \in Packets
  <2>1. p.header \in Seq(Digit) /\ p.data \in Seq(Digit)
    BY <1>4
  <2>2. Len(p.header) \in Nat /\ Len(p.data) \in Nat
    BY <2>1
  <2>3. Len(p.header) <= MaxBuf - 12 /\ Len(p.data) <= MaxBuf - 12
    BY <1>1, <1>4, <2>2
  <2>4. p.header \in Strings(MaxBuf - 12) /\ p.data \in Strings(MaxBuf - 12)
    BY <1>2, <2>1, <2>3
  <2>5. p \in [opcode : 0..(Short - 1), header : Strings(MaxBuf - 12),
               data : Strings(MaxBuf - 12)]
    BY <1>4, <2>4
  <2> QED BY <1>4, <2>5 DEF Packets
<1> QED BY <1>3, <1>4

\* A pair of bytes written for a number is read as it.
LEMMA PairReads ==
  ASSUME NEW x \in Digit, NEW y \in Digit, NEW n \in Nat, <<x, y>> = htobe16(n)
  PROVE  /\ Base * x + y = n % Short
         /\ n < Short => Base * x + y = n
<1>1. htobe16(n)[1] = x /\ htobe16(n)[2] = y
  <2>1. <<x, y>>[1] = x /\ <<x, y>>[2] = y
    OBVIOUS
  <2> QED BY <2>1
<1> QED BY <1>1, WriteRead

\* A frame at the beginning is taken, with its contents.
LEMMA BeginsIsWhole ==
  ASSUME NEW b \in Seq(Digit), NEW o \in 0..(Short - 1), NEW h, NEW d,
         NEW H \in Nat, NEW D \in Nat, H < Short, 2 * (D \div Short) < Short,
         Begins(b, o, h, d, H, D)
  PROVE  /\ Whole(b)
         /\ Fields(b, HeaderSize(b), Stated(b)) = [opcode |-> o, header |-> h, data |-> d]
<1>1. Short \in Nat \ {0} /\ PACKET_MAGIC1 \in Nat /\ PACKET_MAGIC1 < Short
      /\ PACKET_MAGIC2 \in Nat /\ PACKET_MAGIC2 < Short
  BY Widths, FramingAssumption
<1>2. 12 + H + D <= Len(b) /\ Len(b) \in Nat
  BY DEF Begins
<1>3. \A i \in 1..(12 + H + D) : b[i] \in Digit
  BY <1>2
<1>4. /\ b[1] \in Digit /\ b[2] \in Digit /\ b[3] \in Digit /\ b[4] \in Digit
      /\ b[5] \in Digit /\ b[6] \in Digit /\ b[7] \in Digit /\ b[8] \in Digit
      /\ b[9] \in Digit /\ b[10] \in Digit
      /\ b[11 + H + D] \in Digit /\ b[12 + H + D] \in Digit
  BY <1>3, SMTT(60)
<1>5. D \div Short \in Nat /\ D % Short \in 0..(Short - 1)
      /\ D = Short * (D \div Short) + (D % Short)
  BY <1>1, Division
<1>6. D \div Short < Short
  BY <1>1, <1>5
<1>7. /\ be16toh(b, 0) = Base * b[1] + b[2] /\ be16toh(b, 1) = Base * b[3] + b[4]
      /\ be16toh(b, 2) = Base * b[5] + b[6] /\ be16toh(b, 3) = Base * b[7] + b[8]
      /\ be16toh(b, 4) = Base * b[9] + b[10]
  BY DEF be16toh
<1> DEFINE q == D \div Short
           Pair(x, y, n) == <<x, y>> = htobe16(n)
<1>17. /\ Pair(b[1], b[2], PACKET_MAGIC1) /\ Pair(b[3], b[4], o) /\ Pair(b[5], b[6], H)
       /\ Pair(b[7], b[8], q) /\ Pair(b[9], b[10], D)
       /\ SubSeq(b, 11, 10 + H) = h
       /\ SubSeq(b, 11 + H, 10 + H + D) = d
  BY Zenon DEF Begins
<1>18. \A x, y \in Digit : \A n \in Nat : Pair(x, y, n) =>
         Base * x + y = n % Short /\ (n < Short => Base * x + y = n)
  BY PairReads, Zenon
<1> HIDE DEF Pair
<1>8. be16toh(b, 0) = PACKET_MAGIC1
  BY <1>1, <1>4, <1>7, <1>17, <1>18, Zenon
<1>9. be16toh(b, 1) = o
  <2>1. o \in Nat /\ o < Short
    BY <1>1
  <2> QED BY <1>4, <1>7, <1>17, <1>18, <2>1, Zenon
<1>10. HeaderSize(b) = H
  BY <1>4, <1>7, <1>17, <1>18, Zenon DEF HeaderSize
<1>11. High(b) = q
  BY <1>4, <1>5, <1>6, <1>7, <1>17, <1>18, ZenonT(60) DEF High
<1>12. be16toh(b, 4) = D % Short
  <2>1. b[9] \in Digit /\ b[10] \in Digit /\ Pair(b[9], b[10], D)
    BY <1>4, <1>17, Zenon
  <2>2. Base * b[9] + b[10] = D % Short
    BY <1>18, <2>1, Zenon
  <2> QED BY <1>7, <2>2, Zenon
<1>13. Stated(b) = D
  BY <1>1, <1>5, <1>11, <1>12, SMTT(60) DEF Stated, High
<1>14. Base * b[11 + H + D] + b[12 + H + D] = PACKET_MAGIC2
  BY <1>1, <1>4, PairReads, SMTT(60) DEF Begins
<1>15. D + H + 11 = 11 + H + D /\ D + H + 12 = 12 + H + D /\ Len(b) >= 10
  BY <1>2
<1>16. Whole(b)
  BY <1>2, <1>8, <1>10, <1>11, <1>13, <1>14, <1>15 DEF Whole
<1> QED BY <1>9, <1>10, <1>13, <1>16, <1>17, Zenon DEF Fields

\* And what is taken begins with the frame of its contents.
LEMMA WholeBegins ==
  ASSUME NEW b \in Seq(Digit), Len(b) <= MaxBuf, Whole(b)
  PROVE  LET H == HeaderSize(b)
             D == Stated(b) IN
         /\ H \in Nat /\ D \in Nat /\ H < Short /\ D \div Short = High(b)
         /\ 12 + H + D <= Len(b)
         /\ be16toh(b, 1) \in 0..(Short - 1)
         /\ Begins(b, be16toh(b, 1), SubSeq(b, 11, 10 + H),
                   SubSeq(b, 11 + H, 10 + H + D), H, D)
<1> DEFINE H == HeaderSize(b)
           D == Stated(b)
<1>1. Len(b) >= 10 /\ Len(b) \in Nat
  BY DEF Whole
<1>2. H \in Nat /\ D \in Nat /\ H < Short /\ High(b) \in Nat
  BY <1>1, Sizes
<1>3. D + H + 12 <= Len(b)
  BY DEF Whole
<1>4. \A i \in 1..Len(b) : b[i] \in Digit
  OBVIOUS
<1>5. \A x, y \in Digit : htobe16(Base * x + y) = <<x, y>>
  <2> SUFFICES ASSUME NEW x \in Digit, NEW y \in Digit
               PROVE  htobe16(Base * x + y) = <<x, y>>
    OBVIOUS
  <2>1. htobe16(0 * Short + (Base * x + y)) = <<x, y>>
    BY ReadWrite
  <2>2. 0 * Short + (Base * x + y) = Base * x + y
    BY Widths, FramingAssumption DEF Digit
  <2> QED BY <2>1, <2>2
<1>6. ASSUME NEW i \in 1..Len(b), NEW j \in 1..Len(b), NEW m, m = Base * b[i] + b[j]
      PROVE  <<b[i], b[j]>> = htobe16(m)
  BY <1>4, <1>5, <1>6
<1>7. /\ be16toh(b, 0) = Base * b[1] + b[2] /\ be16toh(b, 1) = Base * b[3] + b[4]
      /\ be16toh(b, 2) = Base * b[5] + b[6] /\ be16toh(b, 3) = Base * b[7] + b[8]
      /\ be16toh(b, 4) = Base * b[9] + b[10]
  BY DEF be16toh
<1>8. \A i \in 1..10 : i \in 1..Len(b)
  BY <1>1
<1>9. <<b[1], b[2]>> = htobe16(PACKET_MAGIC1)
  BY <1>6, <1>7, <1>8, SMTT(60) DEF Whole
<1>10. <<b[3], b[4]>> = htobe16(be16toh(b, 1))
  BY <1>6, <1>7, <1>8, SMTT(60)
<1>11. <<b[5], b[6]>> = htobe16(H)
  BY <1>6, <1>7, <1>8, SMTT(60) DEF HeaderSize
<1>12. <<b[7], b[8]>> = htobe16(High(b))
  BY <1>6, <1>7, <1>8, SMTT(60) DEF High
<1>13. D \div Short = High(b) /\ htobe16(D) = <<b[9], b[10]>>
  <2>1. D = High(b) * Short + (Base * b[9] + b[10])
    BY <1>7 DEF Stated, High
  <2>2. b[9] \in Digit /\ b[10] \in Digit
    BY <1>4, <1>8
  <2> DEFINE x == b[9]
             y == b[10]
             k == High(b)
  <2> HIDE DEF x, y, k
  <2>3. x \in Digit /\ y \in Digit /\ k \in Nat
    BY <1>2, <2>2 DEF x, y, k
  <2>4. /\ htobe16(k * Short + (Base * x + y)) = <<x, y>>
        /\ (k * Short + (Base * x + y)) \div Short = k
    BY <2>3, ReadWrite, Zenon
  <2> QED BY <2>1, <2>4, Zenon DEF x, y, k
<1>14. <<b[11 + H + D], b[12 + H + D]>> = htobe16(PACKET_MAGIC2)
  <2>1. 11 + H + D \in 1..Len(b) /\ 12 + H + D \in 1..Len(b)
        /\ D + H + 11 = 11 + H + D /\ D + H + 12 = 12 + H + D
    BY <1>1, <1>2, <1>3
  <2>2. PACKET_MAGIC2 = Base * b[11 + H + D] + b[12 + H + D]
    BY <2>1 DEF Whole
  <2> QED BY <1>6, <2>1, <2>2
<1>15. be16toh(b, 1) \in 0..(Short - 1)
  BY <1>1, Numbers
<1>16. 12 + H + D <= Len(b)
  BY <1>2, <1>3
<1> HIDE DEF H, D
<1>17. Begins(b, be16toh(b, 1), SubSeq(b, 11, 10 + H), SubSeq(b, 11 + H, 10 + H + D), H, D)
  BY <1>9, <1>10, <1>11, <1>12, <1>13, <1>14, <1>16, Zenon DEF Begins
<1> QED BY <1>2, <1>13, <1>15, <1>16, <1>17, Zenon DEF H, D

-----------------------------------------------------------------------------
BufOk == buf \in Seq(Digit) /\ Len(buf) <= MaxBuf

\* On every input parse yields a packet exactly if the input begins with its
\* frame.
LEMMA ParseFindsFrame ==
  ASSUME BufOk, NEW p \in Packets
  PROVE  parse(buf) = p <=> Leads(build(p), buf)
<1> DEFINE o == p.opcode
           h == p.header
           d == p.data
           F == Fields(buf, HeaderSize(buf), Stated(buf))
<1>1. /\ p \in [opcode : 0..(Short - 1), header : Seq(Digit), data : Seq(Digit)]
      /\ 12 + Len(h) + Len(d) <= MaxBuf
      /\ Len(h) < Short /\ 2 * (Len(d) \div Short) < Short
  BY PacketsAre, Zenon
<1>2. /\ o \in 0..(Short - 1) /\ h \in Seq(Digit) /\ d \in Seq(Digit)
      /\ p = [opcode |-> o, header |-> h, data |-> d]
  BY <1>1
<1> HIDE DEF o, h, d
<1>3. buf \in Seq(Digit) /\ Len(buf) <= MaxBuf
  BY DEF BufOk
<1>4. Seq(Digit) \subseteq Seq(Int)
  <2>1. Digit \subseteq Int
    BY FramingAssumption DEF Digit
  <2> SUFFICES ASSUME NEW s \in Seq(Digit) PROVE s \in Seq(Int)
    OBVIOUS
  <2>2. Len(s) \in Nat /\ s \in [1..Len(s) -> Digit]
    OBVIOUS
  <2>3. s \in [1..Len(s) -> Int]
    BY <2>1, <2>2
  <2> QED BY <2>2, <2>3
<1>5. Len(h) \in Nat /\ Len(d) \in Nat /\ o \in Nat
  BY <1>2, Widths
<1>6. Leads(build(p), buf) <=> Begins(buf, o, h, d, Len(h), Len(d))
  BY <1>2, <1>3, <1>4, <1>5, BuildBegins, Zenon DEF o, h, d
<1>7. /\ Whole(buf) => parse(buf) = F
      /\ ~Whole(buf) => parse(buf) \in {Refused, Throws}
  BY <1>3, ParseTakes, Zenon
<1>8. p # Refused /\ p # Throws
  <2>1. Refused.opcode = -1 /\ Throws.opcode = -2
    BY DEF Refused, Throws
  <2> QED BY <1>5, <2>1 DEF o
<1>9. ASSUME Begins(buf, o, h, d, Len(h), Len(d)) PROVE parse(buf) = p
  <2>1. Whole(buf) /\ F = [opcode |-> o, header |-> h, data |-> d]
    BY <1>1, <1>2, <1>3, <1>5, <1>9, BeginsIsWhole, ZenonT(60)
  <2> QED BY <1>2, <1>7, <2>1, Zenon
<1>10. ASSUME parse(buf) = p PROVE Begins(buf, o, h, d, Len(h), Len(d))
  <2>1. Whole(buf)
    BY <1>7, <1>8, <1>10, Zenon
  <2>2. F = p
    BY <1>7, <1>10, <2>1, Zenon
  <2> DEFINE H == HeaderSize(buf)
             D == Stated(buf)
             hh == SubSeq(buf, 11, 10 + H)
             dd == SubSeq(buf, 11 + H, 10 + H + D)
  <2>3. o = be16toh(buf, 1) /\ h = hh /\ d = dd
    BY <2>2 DEF Fields, o, h, d
  <2>4. /\ H \in Nat /\ D \in Nat /\ 12 + H + D <= Len(buf)
        /\ Begins(buf, be16toh(buf, 1), hh, dd, H, D)
    BY <1>3, <2>1, WholeBegins, Zenon
  <2>5. Len(h) = H /\ Len(d) = D
    <3>1. Len(hh) = H /\ Len(dd) = D
      <4> HIDE DEF H, D
      <4> QED BY <1>3, <2>4
    <3> QED BY <2>3, <3>1, Zenon
  <2> QED BY <2>3, <2>4, <2>5, Zenon
<1> QED BY <1>6, <1>9, <1>10, Zenon

\* What it yields is a packet, or a refusal.
LEMMA ParseYields ==
  ASSUME BufOk
  PROVE  parse(buf) \in Packets \cup {Refused, Throws}
<1>1. buf \in Seq(Digit) /\ Len(buf) <= MaxBuf
  BY DEF BufOk
<1>2. CASE ~Whole(buf)
  BY <1>1, <1>2, ParseTakes, Zenon
<1>3. CASE Whole(buf)
  <2> DEFINE H == HeaderSize(buf)
             D == Stated(buf)
             h == SubSeq(buf, 11, 10 + H)
             d == SubSeq(buf, 11 + H, 10 + H + D)
             p == [opcode |-> be16toh(buf, 1), header |-> h, data |-> d]
  <2>1. parse(buf) = p
    BY <1>1, <1>3, ParseTakes, Zenon DEF Fields
  <2>2. /\ H \in Nat /\ D \in Nat /\ H < Short /\ D \div Short = High(buf)
        /\ 12 + H + D <= Len(buf) /\ be16toh(buf, 1) \in 0..(Short - 1)
    BY <1>1, <1>3, WholeBegins, Zenon
  <2>3. 2 * High(buf) < Short
    BY <1>3 DEF Whole
  <2>4. /\ h \in Seq(Digit) /\ Len(h) = H /\ d \in Seq(Digit) /\ Len(d) = D
    <3> HIDE DEF H, D
    <3> QED BY <1>1, <2>2
  <2>5. 12 + H + D <= MaxBuf
    BY <1>1, <2>2, FramingAssumption
  <2> HIDE DEF h, d, H, D
  <2>6. p \in [opcode : 0..(Short - 1), header : Seq(Digit), data : Seq(Digit)]
        /\ p.header = h /\ p.data = d
    BY <2>2, <2>4
  <2> HIDE DEF p
  <2>7. p \in Packets
    BY <2>2, <2>3, <2>4, <2>5, <2>6, PacketsAre, Zenon
  <2> QED BY <2>1, <2>7
<1> QED BY <1>2, <1>3

\* The input is a string of bytes within the bound.
LEMMA BufInvariant == InitBuf /\ [][GrowBuf]_buf => []BufOk
<1>1. InitBuf => BufOk
  BY FramingAssumption DEF InitBuf, BufOk
<1>2. BufOk /\ [GrowBuf]_buf => BufOk'
  <2> SUFFICES ASSUME BufOk, GrowBuf PROVE BufOk'
    BY DEF BufOk
  <2>1. PICK b \in Digit : buf' = Append(buf, b)
    BY DEF GrowBuf, Digit
  <2>2. buf' \in Seq(Digit) /\ Len(buf') = Len(buf) + 1 /\ Len(buf) \in Nat
    BY <2>1, AppendProperties DEF BufOk
  <2>3. Len(buf) < MaxBuf
    BY DEF GrowBuf
  <2> QED BY <2>2, <2>3, FramingAssumption DEF BufOk
<1> QED BY <1>1, <1>2, PTL

(***************************************************************************)
(* ParseInvertsBuild for inputs of every length up to half of the          *)
(* addresses, every number of values of a byte and all magic numbers:      *)
(* Packet::parse yields a packet exactly when the input begins with what   *)
(* Packet::build makes of it.                                              *)
(***************************************************************************)
THEOREM ParseIsInverse == InitBuf /\ [][GrowBuf]_buf => []ParseInvertsBuild
<1>1. ASSUME BufOk PROVE ParseInvertsBuild
  <2>1. \A p \in Packets : parse(buf) = p <=> Leads(build(p), buf)
    BY <1>1, ParseFindsFrame
  <2>2. parse(buf) \in Packets \cup {Refused, Throws}
    BY <1>1, ParseYields
  <2>3. parse(buf) = Throws => 2 * be16toh(buf, 3) >= Short
    BY <1>1, ParseTakes, Zenon DEF BufOk, High
  <2> QED BY <2>1, <2>2, <2>3, Zenon DEF ParseInvertsBuild, Leads
<1> QED BY <1>1, BufInvariant, PTL
-----------------------------------------------------------------------------
(***************************************************************************)
(* CommandLine: what the loop of handleCommand has written, compared with  *)
(* what is meant.                                                          *)
(***************************************************************************)
Written == Letters \cup {NUL}

LineType ==
  /\ args \in Seq(Seq(Letters)) /\ Len(args) >= 1
  /\ need \in Nat /\ open \in {"none"} \cup Quotes
  /\ argbuf \in Seq(Written) /\ argv \in Seq(Nat \ {0}) /\ arg_ptr \in Nat \ {0}
  /\ quotes \in {"none"} \cup Quotes

\* At place p of buffer b is word w, and a zero behind it.
IsAt(b, p, w) ==
  /\ p + Len(w) <= Len(b) /\ b[p + Len(w)] = NUL
  /\ \A j \in 1..Len(w) : b[p + j - 1] = w[j]

\* The words that have ended are the first that are meant.
Ended(b, v, a) == \A i \in 1..Len(v) : i <= Len(a) /\ IsAt(b, v[i], a[i])

\* The word begun at p is the beginning of word w.
HasBegun(b, p, w) ==
  /\ p <= Len(b) + 1 /\ Len(b) + 1 - p <= Len(w)
  /\ \A j \in 1..(Len(b) + 1 - p) : b[p + j - 1] = w[j]

Begun == Len(argv) < ArgvSize =>
           Len(argv) + 1 <= Len(args) /\ HasBegun(argbuf, arg_ptr, args[Len(argv) + 1])

LineSized ==
  /\ Len(argv) <= ArgvSize /\ Len(argbuf) <= ArgbufSize /\ Len(argbuf) <= need
  /\ Len(argv) = ArgvSize => Len(args) > ArgvSize

\* As long as nothing was lost, the last word is whole; it is lost only after
\* something was full, and before that the quotes are what is meant by them.
LineWhole ==
  /\ Len(argv) < ArgvSize /\ Len(argbuf) = need =>
       Len(args) = Len(argv) + 1 /\ Len(argbuf) + 1 - arg_ptr = Len(args[Len(args)])
  /\ ~Full => quotes = open /\ Len(argbuf) = need

LineInv == LineType /\ Ended(argbuf, argv, args) /\ Begun /\ LineSized /\ LineWhole

\* Before the first character.
LEMMA LineStart == InitLine => LineInv
<1> SUFFICES ASSUME InitLine PROVE LineInv
  OBVIOUS
<1> USE CommandLineAssumption
<1>1. /\ Len(args) = 1 /\ args[1] = <<>> /\ Len(args[1]) = 0 /\ Len(argbuf) = 0 /\ Len(argv) = 0
      /\ arg_ptr = 1 /\ need = 0 /\ open = "none" /\ quotes = "none"
  BY DEF InitLine
<1>2. LineType
  <2>1. <<>> \in Seq(Letters)
    OBVIOUS
  <2>2. << <<>> >> \in Seq(Seq(Letters))
    BY <2>1
  <2> QED
    BY <1>1, <2>2 DEF InitLine, LineType
<1>3. Ended(argbuf, argv, args)
  BY <1>1 DEF Ended
<1>4. Begun /\ LineSized /\ LineWhole
  BY <1>1 DEF Begun, HasBegun, LineSized, LineWhole
<1> QED
  BY <1>2, <1>3, <1>4 DEF LineInv

\* A buffer that grows keeps the words in it.
LEMMA EndedGrows ==
  ASSUME NEW b \in Seq(Written), NEW v \in Seq(Nat \ {0}), NEW a \in Seq(Seq(Letters)),
         NEW c \in Written, Ended(b, v, a)
  PROVE  Ended(Append(b, c), v, a)
<1> SUFFICES ASSUME NEW i \in 1..Len(v)
             PROVE  i <= Len(a) /\ IsAt(Append(b, c), v[i], a[i])
  BY DEF Ended
<1>1. i <= Len(a) /\ IsAt(b, v[i], a[i])
  BY DEF Ended
<1>2. PICK p \in Nat \ {0} : p = v[i]
  BY ElementOfSeq
<1>3. PICK w \in Seq(Letters) : w = a[i]
  <2>1. Len(v) \in Nat /\ Len(a) \in Nat
    BY LenProperties
  <2>2. i \in 1..Len(a)
    BY <1>1, <2>1
  <2> QED
    BY <2>2, ElementOfSeq
<1>4. Len(w) \in Nat /\ Len(b) \in Nat
  BY LenProperties
<1>5. Len(Append(b, c)) = Len(b) + 1 /\ \A k \in 1..Len(b) : Append(b, c)[k] = b[k]
  BY AppendProperties
<1>6. p + Len(w) <= Len(b) /\ b[p + Len(w)] = NUL /\ \A j \in 1..Len(w) : b[p + j - 1] = w[j]
  BY <1>1, <1>2, <1>3 DEF IsAt
<1> DEFINE b2 == Append(b, c)
<1> HIDE DEF b2
<1>7. p + Len(w) <= Len(b2) /\ b2[p + Len(w)] = NUL
  <2>1. p + Len(w) \in 1..Len(b) /\ p + Len(w) <= Len(b) + 1
    BY <1>4, <1>6
  <2> QED
    BY <1>5, <1>6, <2>1 DEF b2
<1>8. ASSUME NEW j \in 1..Len(w) PROVE b2[p + j - 1] = w[j]
  <2>1. p + j - 1 \in 1..Len(b)
    BY <1>4, <1>6
  <2> QED
    BY <1>5, <1>6, <2>1 DEF b2
<1> QED
  BY <1>1, <1>2, <1>3, <1>7, <1>8 DEF IsAt, b2

\* More is meant: the words that have ended are still the first.
LEMMA EndedStays ==
  ASSUME NEW b, NEW v \in Seq(Nat \ {0}), NEW a \in Seq(Seq(Letters)), NEW a2 \in Seq(Seq(Letters)),
         Ended(b, v, a), Len(a) <= Len(a2),
         \A i \in 1..Len(a) : i <= Len(v) => a2[i] = a[i]
  PROVE  Ended(b, v, a2)
<1> SUFFICES ASSUME NEW i \in 1..Len(v)
             PROVE  i <= Len(a2) /\ IsAt(b, v[i], a2[i])
  BY DEF Ended
<1>1. i <= Len(a) /\ IsAt(b, v[i], a[i])
  BY DEF Ended
<1>2. Len(v) \in Nat /\ Len(a) \in Nat /\ Len(a2) \in Nat
  BY LenProperties
<1>3. i \in 1..Len(a) /\ i <= Len(v) /\ i <= Len(a2)
  BY <1>1, <1>2
<1> QED
  BY <1>1, <1>3

\* Lengths are numbers.
LEMMA LineSizes ==
  ASSUME LineType
  PROVE  /\ Len(args) \in Nat /\ Len(argbuf) \in Nat /\ Len(argv) \in Nat
         /\ \A i \in 1..Len(args) : args[i] \in Seq(Letters) /\ Len(args[i]) \in Nat
<1>1. Len(args) \in Nat /\ Len(argbuf) \in Nat /\ Len(argv) \in Nat
  BY LenProperties DEF LineType
<1>2. ASSUME NEW i \in 1..Len(args) PROVE args[i] \in Seq(Letters) /\ Len(args[i]) \in Nat
  <2>1. args[i] \in Seq(Letters)
    BY ElementOfSeq DEF LineType
  <2> QED
    BY <2>1, LenProperties
<1> QED
  BY <1>1, <1>2

\* What more is typed is added to the last word, or is another one.
Grows(a, a2) ==
  /\ a2 \in Seq(Seq(Letters)) /\ Len(a) <= Len(a2)
  /\ \A i \in 1..Len(a) :
       /\ i < Len(a) => a2[i] = a[i]
       /\ Len(a[i]) <= Len(a2[i])
       /\ \A j \in 1..Len(a[i]) : a2[i][j] = a[i][j]

\* One element of a sequence is replaced.
LEMMA Replaced ==
  ASSUME NEW S, NEW a \in Seq(S), NEW k \in 1..Len(a), NEW w \in S, NEW a2, a2 = [a EXCEPT ![k] = w]
  PROVE  /\ a2 \in Seq(S) /\ Len(a2) = Len(a) /\ a2[k] = w
         /\ \A i \in 1..Len(a) : i # k => a2[i] = a[i]
<1>1. Len(a) \in Nat /\ a \in [1..Len(a) -> S]
  BY LenProperties
<1> QED
  BY <1>1, ExceptSeq

\* The order of numbers.
LEMMA Successor == \A x \in Nat : x <= x + 1
OBVIOUS

\* The last word with another character.
LEMMA LastAppended ==
  ASSUME NEW a \in Seq(Seq(Letters)), Len(a) >= 1, NEW c \in Letters
  PROVE  /\ Append(a[Len(a)], c) \in Seq(Letters) /\ Len(a[Len(a)]) <= Len(Append(a[Len(a)], c))
         /\ \A j \in 1..Len(a[Len(a)]) : Append(a[Len(a)], c)[j] = a[Len(a)][j]
<1>1. Len(a) \in Nat /\ Len(a) \in 1..Len(a)
  BY LenProperties
<1>2. PICK w \in Seq(Letters) : w = a[Len(a)]
  BY <1>1, ElementOfSeq
<1>3. /\ Append(w, c) \in Seq(Letters) /\ Len(Append(w, c)) = Len(w) + 1 /\ Len(w) \in Nat
      /\ \A j \in 1..Len(w) : Append(w, c)[j] = w[j]
  BY AppendProperties, LenProperties
<1>4. Len(w) <= Len(Append(w, c))
  BY <1>3, Successor, ZenonT(60)
<1> QED
  BY <1>2, <1>3, <1>4

\* The last word grows.
LEMMA LastGrows ==
  ASSUME NEW a \in Seq(Seq(Letters)), Len(a) >= 1, NEW w2 \in Seq(Letters),
         Len(a[Len(a)]) <= Len(w2), \A j \in 1..Len(a[Len(a)]) : w2[j] = a[Len(a)][j]
  PROVE  LET a2 == [a EXCEPT ![Len(a)] = w2] IN
           Grows(a, a2) /\ Len(a2) = Len(a) /\ a2[Len(a)] = w2
<1> DEFINE a2 == [a EXCEPT ![Len(a)] = w2]
<1>1. Len(a) \in Nat /\ Len(a) \in 1..Len(a) /\ Len(a) <= Len(a)
  BY LenProperties
<1>2. /\ a2 \in Seq(Seq(Letters)) /\ Len(a2) = Len(a)
      /\ a2[Len(a)] = w2 /\ \A i \in 1..Len(a) : i # Len(a) => a2[i] = a[i]
  BY <1>1, Replaced
<1> HIDE DEF a2
<1>3. ASSUME NEW i \in 1..Len(a)
      PROVE  /\ i < Len(a) => a2[i] = a[i]
             /\ Len(a[i]) <= Len(a2[i])
             /\ \A j \in 1..Len(a[i]) : a2[i][j] = a[i][j]
  <2>1. CASE i = Len(a)
    BY <1>1, <1>2, <2>1
  <2>2. CASE i # Len(a)
    <3>1. a2[i] = a[i]
      BY <1>2, <2>2
    <3>2. a[i] \in Seq(Letters)
      BY ElementOfSeq
    <3>3. Len(a[i]) \in Nat
      BY <3>2, LenProperties
    <3>4. Len(a[i]) <= Len(a[i])
      BY <3>3
    <3> QED
      BY <3>1, <3>4
  <2> QED
    BY <2>1, <2>2
<1>4. Grows(a, a2)
  <2>1. Len(a) <= Len(a2)
    BY <1>1, <1>2, Zenon
  <2> QED
    BY <1>2, <1>3, <2>1, Zenon DEF Grows
<1> QED
  BY <1>2, <1>4 DEF a2

\* A character is added to the last word.
LEMMA CharGrows ==
  ASSUME NEW a \in Seq(Seq(Letters)), Len(a) >= 1, NEW c \in Letters,
         NEW a2, a2 = [a EXCEPT ![Len(a)] = Append(@, c)]
  PROVE  /\ Grows(a, a2) /\ Len(a2) = Len(a) /\ a2[Len(a)] = Append(a[Len(a)], c)
<1>1. Append(a[Len(a)], c) \in Seq(Letters) /\ Len(a[Len(a)]) <= Len(Append(a[Len(a)], c))
      /\ \A j \in 1..Len(a[Len(a)]) : Append(a[Len(a)], c)[j] = a[Len(a)][j]
  BY LastAppended, Zenon
<1> QED
  BY <1>1, LastGrows, Zenon

\* Another word is begun.
LEMMA WordGrows ==
  ASSUME NEW a \in Seq(Seq(Letters)), NEW a2, a2 = Append(a, <<>>)
  PROVE  /\ Grows(a, a2) /\ Len(a2) = Len(a) + 1 /\ a2[Len(a) + 1] = <<>>
         /\ \A i \in 1..Len(a) : a2[i] = a[i]
<1>1. Len(a) \in Nat
  BY LenProperties
<1>2. <<>> \in Seq(Letters)
  OBVIOUS
<1>3. /\ a2 \in Seq(Seq(Letters)) /\ Len(a2) = Len(a) + 1 /\ a2[Len(a) + 1] = <<>>
      /\ \A i \in 1..Len(a) : a2[i] = a[i]
  BY <1>2, AppendProperties
<1>4. ASSUME NEW i \in 1..Len(a)
      PROVE  a2[i] = a[i] /\ Len(a[i]) \in Nat
  <2>1. a[i] \in Seq(Letters)
    BY ElementOfSeq
  <2> QED
    BY <1>3, <2>1, LenProperties
<1> QED
  BY <1>1, <1>3, <1>4 DEF Grows

\* When something is full, what more is typed is lost.
LEMMA LineFull ==
  ASSUME LineInv, Full, UNCHANGED loopVars, open' \in {"none"} \cup Quotes,
         \/ UNCHANGED <<args, need>>
         \/ Grows(args, args') /\ need' = need + 1
  PROVE  LineInv'
<1> USE CommandLineAssumption
<1>1. LineType /\ Ended(argbuf, argv, args) /\ Begun /\ LineSized /\ LineWhole
  BY DEF LineInv
<1>2. Len(args) \in Nat /\ Len(argbuf) \in Nat /\ Len(argv) \in Nat /\ need \in Nat
  BY <1>1, LineSizes DEF LineType
<1>3. UNCHANGED <<argbuf, argv, arg_ptr, quotes, Full>>
  BY DEF loopVars, Full
<1>4. CASE UNCHANGED <<args, need>>
  <2>1. LineType'
    BY <1>1, <1>3, <1>4 DEF LineType
  <2> QED
    BY <1>1, <1>3, <1>4, <2>1 DEF LineInv, Begun, LineSized, LineWhole
<1>5. CASE Grows(args, args') /\ need' = need + 1
  <2>1. /\ args' \in Seq(Seq(Letters)) /\ Len(args) <= Len(args') /\ Len(args') \in Nat
    BY <1>5, LenProperties DEF Grows
  <2>2. LineType'
    BY <1>1, <1>2, <1>3, <1>5, <2>1 DEF LineType
  <2>3. Len(argv) + 1 <= Len(args)
    BY <1>1, <1>2 DEF Begun, LineSized
  <2>4. Ended(argbuf, argv, args')
    <3>1. \A i \in 1..Len(args) : i <= Len(argv) => args'[i] = args[i]
      BY <1>2, <1>5, <2>3 DEF Grows
    <3> QED
      BY <1>1, <2>1, <3>1, EndedStays DEF LineType
  <2>5. Begun'
    <3> SUFFICES ASSUME Len(argv) < ArgvSize
                 PROVE  HasBegun(argbuf, arg_ptr, args'[Len(argv) + 1])
      BY <1>2, <1>3, <2>1, <2>3 DEF Begun
    <3> DEFINE n == Len(argv) + 1
    <3>1. n \in 1..Len(args)
      BY <1>2, <2>3
    <3> HIDE DEF n
    <3>2. /\ Len(args[n]) <= Len(args'[n]) /\ Len(args[n]) \in Nat /\ Len(args'[n]) \in Nat
          /\ \A j \in 1..Len(args[n]) : args'[n][j] = args[n][j]
      <4>1. n \in 1..Len(args')
        BY <1>2, <2>1, <3>1
      <4>2. args'[n] \in Seq(Letters) /\ args[n] \in Seq(Letters)
        BY <1>1, <2>1, <3>1, <4>1, ElementOfSeq DEF LineType
      <4> QED
        BY <1>5, <3>1, <4>2, LenProperties DEF Grows
    <3>3. HasBegun(argbuf, arg_ptr, args[n])
      BY <1>1 DEF Begun, n
    <3>4. HasBegun(argbuf, arg_ptr, args'[n])
      <4>1. arg_ptr \in Nat
        BY <1>1 DEF LineType
      <4> QED
        BY <1>2, <3>2, <3>3, <4>1, SMTT(60) DEF HasBegun
    <3> QED
      BY <3>4 DEF n
  <2>6. LineSized'
    BY <1>1, <1>2, <1>3, <1>5, <2>1 DEF LineSized
  <2>7. LineWhole'
    BY <1>1, <1>2, <1>3, <1>5 DEF LineWhole, LineSized
  <2> QED
    BY <1>3, <2>2, <2>4, <2>5, <2>6, <2>7 DEF LineInv
<1> QED
  BY <1>4, <1>5

\* As long as nothing is full, all that is meant has been written.
LEMMA NotFull ==
  ASSUME LineInv, ~Full
  PROVE  /\ quotes = open /\ Len(argbuf) = need
         /\ Len(argv) < ArgvSize /\ Len(argbuf) < ArgbufSize
         /\ Len(args) = Len(argv) + 1 /\ Len(argbuf) + 1 - arg_ptr = Len(args[Len(args)])
         /\ HasBegun(argbuf, arg_ptr, args[Len(args)])
<1> USE CommandLineAssumption
<1>1. Len(args) \in Nat /\ Len(argbuf) \in Nat /\ Len(argv) \in Nat
  BY LineSizes DEF LineInv
<1>2. Len(argv) < ArgvSize /\ Len(argbuf) < ArgbufSize
  BY <1>1 DEF Full
<1>3. quotes = open /\ Len(argbuf) = need
  BY DEF LineInv, LineWhole
<1>4. Len(args) = Len(argv) + 1 /\ Len(argbuf) + 1 - arg_ptr = Len(args[Len(args)])
  BY <1>2, <1>3 DEF LineInv, LineWhole
<1> QED
  BY <1>2, <1>3, <1>4 DEF LineInv, Begun

\* One more byte is one more character of the word begun.
LEMMA OneMore ==
  ASSUME NEW l \in Nat, NEW m \in Nat, NEW p \in Nat \ {0}, l + 1 - p = m
  PROVE  (l + 1) + 1 - p = m + 1 /\ p <= (l + 1) + 1
OBVIOUS

\* A character is copied behind the word begun.
LEMMA LineCopy ==
  ASSUME LineInv, ~Full, NEW c \in Letters, Copy(c), need' = need + 1, UNCHANGED open,
         args' = [args EXCEPT ![Len(args)] = Append(@, c)]
  PROVE  LineInv'
<1> USE CommandLineAssumption
<1> DEFINE n == Len(args)
           w == args[n]
           b2 == Append(argbuf, c)
           w2 == Append(w, c)
<1>1. LineType /\ Ended(argbuf, argv, args) /\ LineSized
  BY DEF LineInv
<1>2. /\ quotes = open /\ Len(argbuf) = need /\ Len(argv) < ArgvSize /\ Len(argbuf) < ArgbufSize
      /\ n = Len(argv) + 1 /\ Len(argbuf) + 1 - arg_ptr = Len(w) /\ HasBegun(argbuf, arg_ptr, w)
  BY NotFull
<1>3. /\ n \in Nat /\ n \in 1..n /\ Len(argbuf) \in Nat /\ Len(argv) \in Nat /\ need \in Nat
      /\ arg_ptr \in Nat \ {0} /\ argbuf \in Seq(Written) /\ c \in Written
  BY <1>1, LineSizes DEF LineType, Written
<1>4. w \in Seq(Letters) /\ Len(w) \in Nat
  BY <1>1, <1>3, LineSizes
<1>5. /\ b2 \in Seq(Written) /\ Len(b2) = Len(argbuf) + 1 /\ b2[Len(argbuf) + 1] = c
      /\ \A k \in 1..Len(argbuf) : b2[k] = argbuf[k]
  BY <1>3, AppendProperties
<1>6. Len(w2) = Len(w) + 1 /\ w2[Len(w) + 1] = c /\ \A k \in 1..Len(w) : w2[k] = w[k]
  BY <1>4, AppendProperties
<1>7. Grows(args, args') /\ Len(args') = n /\ args'[n] = w2
  BY <1>1, CharGrows DEF LineType
<1>8. argbuf' = b2 /\ UNCHANGED <<argv, arg_ptr, quotes>>
  BY DEF Copy
<1>9. Ended(b2, argv, args')
  <2>1. Ended(b2, argv, args)
    BY <1>1, <1>3, EndedGrows DEF LineType
  <2>2. \A i \in 1..Len(args) : i <= Len(argv) => args'[i] = args[i]
    BY <1>2, <1>3, <1>7, SMTT(60) DEF Grows
  <2>3. args' \in Seq(Seq(Letters)) /\ Len(args) <= Len(args')
    BY <1>7 DEF Grows
  <2> QED
    BY <1>1, <2>1, <2>2, <2>3, EndedStays, ZenonT(60) DEF LineType
<1> HIDE DEF b2, w2, w, n
<1>10. HasBegun(b2, arg_ptr, w2) /\ Len(b2) + 1 - arg_ptr = Len(w2)
  <2>1. Len(b2) + 1 - arg_ptr = Len(w2) /\ arg_ptr <= Len(b2) + 1
    <3>1. (Len(argbuf) + 1) + 1 - arg_ptr = Len(w) + 1 /\ arg_ptr <= (Len(argbuf) + 1) + 1
      BY <1>2, <1>3, <1>4, OneMore, Zenon
    <3> QED
      BY <1>5, <1>6, <3>1, Zenon
  <2>2. ASSUME NEW j \in 1..Len(w2) PROVE b2[arg_ptr + j - 1] = w2[j]
    <3>1. CASE j = Len(w) + 1
      <4>1. arg_ptr + j - 1 = Len(argbuf) + 1
        BY <1>2, <1>3, <1>4, <3>1
      <4> QED
        BY <1>5, <1>6, <3>1, <4>1
    <3>2. CASE j # Len(w) + 1
      <4>1. j \in 1..Len(w) /\ arg_ptr + j - 1 \in 1..Len(argbuf) /\ j \in 1..(Len(argbuf) + 1 - arg_ptr)
        BY <1>2, <1>3, <1>4, <1>6, <3>2, SMTT(60)
      <4>2. argbuf[arg_ptr + j - 1] = w[j]
        BY <1>2, <4>1 DEF HasBegun
      <4> QED
        BY <1>5, <1>6, <4>1, <4>2
    <3> QED
      BY <3>1, <3>2
  <2>3. Len(w2) <= Len(w2)
    BY <1>4, <1>6
  <2> QED
    BY <2>1, <2>2, <2>3 DEF HasBegun
<1>11. LineType'
  <2>1. args' \in Seq(Seq(Letters)) /\ Len(args') >= 1
    BY <1>3, <1>7 DEF Grows
  <2> QED
    BY <1>1, <1>3, <1>5, <1>8, <2>1 DEF LineType
<1>12. Begun'
  <2>1. Len(argv) + 1 = n /\ n <= Len(args')
    BY <1>2, <1>3, <1>7
  <2> QED
    BY <1>7, <1>8, <1>10, <2>1 DEF Begun
<1>13. LineSized'
  BY <1>2, <1>3, <1>5, <1>8, SMTT(60) DEF LineSized
<1>14. LineWhole'
  <2>1. Len(args') = Len(argv') + 1 /\ Len(argbuf') + 1 - arg_ptr' = Len(args'[Len(args')])
    BY <1>2, <1>7, <1>8, <1>10
  <2>2. quotes' = open' /\ Len(argbuf') = need'
    BY <1>2, <1>5, <1>8
  <2> QED
    BY <2>1, <2>2 DEF LineWhole
<1> QED
  BY <1>8, <1>9, <1>11, <1>12, <1>13, <1>14 DEF LineInv

\* A space ends the word.
LEMMA LineEndWord ==
  ASSUME LineInv, ~Full, EndWord, need' = need + 1, UNCHANGED open, args' = Append(args, <<>>)
  PROVE  LineInv'
<1> USE CommandLineAssumption
<1> DEFINE n == Len(args)
           w == args[n]
           b2 == Append(argbuf, NUL)
           v2 == Append(argv, arg_ptr)
<1>1. LineType /\ Ended(argbuf, argv, args) /\ LineSized
  BY DEF LineInv
<1>2. /\ quotes = open /\ Len(argbuf) = need /\ Len(argv) < ArgvSize /\ Len(argbuf) < ArgbufSize
      /\ n = Len(argv) + 1 /\ Len(argbuf) + 1 - arg_ptr = Len(w) /\ HasBegun(argbuf, arg_ptr, w)
  BY NotFull
<1>3. /\ n \in Nat /\ n \in 1..n /\ Len(argbuf) \in Nat /\ Len(argv) \in Nat /\ need \in Nat
      /\ arg_ptr \in Nat \ {0} /\ argbuf \in Seq(Written) /\ NUL \in Written
      /\ argv \in Seq(Nat \ {0}) /\ args \in Seq(Seq(Letters))
  BY <1>1, LineSizes DEF LineType, Written
<1>4. w \in Seq(Letters) /\ Len(w) \in Nat
  BY <1>1, <1>3, LineSizes
<1>5. /\ b2 \in Seq(Written) /\ Len(b2) = Len(argbuf) + 1 /\ b2[Len(argbuf) + 1] = NUL
      /\ \A k \in 1..Len(argbuf) : b2[k] = argbuf[k]
  BY <1>3, AppendProperties
<1>6. /\ v2 \in Seq(Nat \ {0}) /\ Len(v2) = Len(argv) + 1 /\ v2[Len(argv) + 1] = arg_ptr
      /\ \A k \in 1..Len(argv) : v2[k] = argv[k]
  BY <1>3, AppendProperties
<1>7. /\ Grows(args, args') /\ Len(args') = n + 1 /\ args'[n + 1] = <<>>
      /\ \A i \in 1..n : args'[i] = args[i]
  BY <1>3, WordGrows
<1>8. argbuf' = b2 /\ argv' = v2 /\ arg_ptr' = Len(argbuf) + 2 /\ UNCHANGED quotes
  BY DEF EndWord
<1>9. Ended(b2, argv, args)
  BY <1>1, <1>3, EndedGrows
<1> HIDE DEF b2, v2, w, n
<1>10. IsAt(b2, arg_ptr, w)
  <2>1. arg_ptr + Len(w) = Len(argbuf) + 1
    BY <1>2, <1>3, <1>4
  <2>2. ASSUME NEW j \in 1..Len(w) PROVE b2[arg_ptr + j - 1] = w[j]
    <3>1. arg_ptr + j - 1 \in 1..Len(argbuf) /\ j \in 1..(Len(argbuf) + 1 - arg_ptr)
      BY <1>2, <1>3, <1>4
    <3> QED
      BY <1>2, <1>5, <3>1 DEF HasBegun
  <2>3. arg_ptr + Len(w) <= Len(b2) /\ b2[arg_ptr + Len(w)] = NUL
    BY <1>3, <1>5, <2>1
  <2> QED
    BY <2>2, <2>3 DEF IsAt
<1>11. Ended(b2, v2, args')
  <2> SUFFICES ASSUME NEW i \in 1..Len(v2)
               PROVE  i <= Len(args') /\ IsAt(b2, v2[i], args'[i])
    BY DEF Ended
  <2>1. CASE i = n
    <3>1. v2[i] = arg_ptr /\ args'[i] = w /\ i <= Len(args')
      BY <1>2, <1>3, <1>6, <1>7, <2>1, SMTT(60) DEF w
    <3> QED
      BY <1>10, <3>1
  <2>2. CASE i # n
    <3>1. i \in 1..Len(argv) /\ i \in 1..n /\ i <= Len(args')
      BY <1>2, <1>3, <1>6, <1>7, <2>2, SMTT(60)
    <3>2. v2[i] = argv[i] /\ args'[i] = args[i]
      BY <1>6, <1>7, <3>1
    <3>3. IsAt(b2, argv[i], args[i])
      BY <1>9, <3>1 DEF Ended
    <3> QED
      BY <3>1, <3>2, <3>3
  <2> QED
    BY <2>1, <2>2
<1>12. LineType'
  <2>1. args' \in Seq(Seq(Letters)) /\ Len(args') >= 1
    BY <1>3, <1>7 DEF Grows
  <2>2. arg_ptr' \in Nat \ {0} /\ need' \in Nat
    BY <1>3, <1>8
  <2> QED
    BY <1>1, <1>5, <1>6, <1>8, <2>1, <2>2 DEF LineType
<1>13. Len(args') = Len(argv') + 1 /\ Len(argbuf') + 1 - arg_ptr' = 0 /\ args'[Len(args')] = <<>>
       /\ Len(args'[Len(args')]) = 0
  <2>1. Len(argbuf') + 1 - arg_ptr' = 0
    BY <1>3, <1>5, <1>8
  <2>2. args'[Len(args')] = <<>> /\ Len(args') = Len(argv') + 1
    BY <1>2, <1>6, <1>7, <1>8
  <2> QED
    BY <2>1, <2>2
<1>14. Begun'
  <2>1. Len(argv') + 1 <= Len(args')
    BY <1>3, <1>6, <1>8, <1>13
  <2>2. HasBegun(argbuf', arg_ptr', args'[Len(args')])
    <3>1. arg_ptr' <= Len(argbuf') + 1
      BY <1>3, <1>5, <1>8
    <3> QED
      BY <1>13, <3>1 DEF HasBegun
  <2> QED
    BY <1>13, <2>1, <2>2 DEF Begun
<1>15. LineSized'
  BY <1>2, <1>3, <1>5, <1>6, <1>8, <1>13, SMTT(60) DEF LineSized
<1>16. LineWhole'
  BY <1>2, <1>5, <1>8, <1>13 DEF LineWhole
<1> QED
  BY <1>8, <1>11, <1>12, <1>14, <1>15, <1>16 DEF LineInv

\* A quote opens what is meant to be quoted, or closes it.
LEMMA LineToggle ==
  ASSUME LineInv, NEW c \in Quotes, Toggle(c), open' = IF quotes = c THEN "none" ELSE c,
         UNCHANGED <<args, need>>
  PROVE  LineInv'
<1>1. UNCHANGED <<args, need, argbuf, argv, arg_ptr, Full>> /\ quotes' = open'
  BY DEF Toggle, Full
<1>2. open' \in {"none"} \cup Quotes
  OBVIOUS
<1>3. LineType'
  BY <1>1, <1>2 DEF LineInv, LineType
<1> QED
  BY <1>1, <1>3 DEF LineInv, Begun, LineSized, LineWhole

\* Whatever is typed, the loop writes what is meant, or has lost its end.
LEMMA LineStep == LineInv /\ [TypeLine]_lineVars => LineInv'
<1> SUFFICES ASSUME LineInv, [TypeLine]_lineVars
             PROVE  LineInv'
  OBVIOUS
<1> USE CommandLineAssumption
<1>1. LineType
  BY DEF LineInv
<1>2. ASSUME ~Full PROVE quotes = open
  BY <1>2, NotFull
<1>3. CASE OpenQuote
  <2>1. PICK q \in Quotes : open' = q /\ Read(q)
    BY <1>3 DEF OpenQuote
  <2>2. open = "none" /\ UNCHANGED <<args, need>>
    BY <1>3 DEF OpenQuote
  <2>3. CASE Full
    <3>1. UNCHANGED loopVars
      BY <2>1, <2>3 DEF Read
    <3> QED
      BY <2>1, <2>2, <2>3, <3>1, LineFull
  <2>4. CASE ~Full
    <3>1. quotes = "none" /\ q # "none" /\ Toggles(q)
      BY <1>2, <2>2, <2>4 DEF Quotes, Toggles
    <3>2. Toggle(q)
      BY <2>1, <2>4, <3>1 DEF Read
    <3> QED
      BY <2>1, <2>2, <3>1, <3>2, LineToggle
  <2> QED
    BY <2>3, <2>4
<1>4. CASE CloseQuote
  <2>1. open # "none" /\ open' = "none" /\ Read(open) /\ UNCHANGED <<args, need>>
    BY <1>4 DEF CloseQuote
  <2>2. CASE Full
    <3>1. UNCHANGED loopVars
      BY <2>1, <2>2 DEF Read
    <3> QED
      BY <2>1, <2>2, <3>1, LineFull
  <2>3. CASE ~Full
    <3>1. quotes = open /\ open \in Quotes /\ Toggles(open)
      BY <1>1, <1>2, <2>1, <2>3 DEF LineType, Toggles
    <3>2. Toggle(open)
      BY <2>1, <2>3, <3>1 DEF Read
    <3> QED
      BY <2>1, <3>1, <3>2, LineToggle
  <2> QED
    BY <2>2, <2>3
<1>5. CASE TypeChar
  <2>1. PICK c \in Letters :
          /\ IF open = "none" THEN c = "letter" ELSE c # open
          /\ args' = [args EXCEPT ![Len(args)] = Append(@, c)]
          /\ Read(c)
    BY <1>5 DEF TypeChar
  <2>2. need' = need + 1 /\ UNCHANGED open
    BY <1>5 DEF TypeChar
  <2>3. CASE Full
    <3>1. UNCHANGED loopVars
      BY <2>1, <2>3 DEF Read
    <3>2. Grows(args, args')
      BY <1>1, <2>1, CharGrows DEF LineType
    <3>3. open' \in {"none"} \cup Quotes
      BY <1>1, <2>2 DEF LineType
    <3> QED
      BY <2>2, <2>3, <3>1, <3>2, <3>3, LineFull
  <2>4. CASE ~Full
    <3>1. quotes = open
      BY <1>2, <2>4
    <3>2. ~Toggles(c) /\ ~(c = "space" /\ quotes = "none")
      BY <2>1, <3>1 DEF Toggles, Quotes
    <3>3. Copy(c)
      BY <2>1, <2>4, <3>2 DEF Read
    <3> QED
      BY <2>1, <2>2, <2>4, <3>3, LineCopy
  <2> QED
    BY <2>3, <2>4
<1>6. CASE NextWord
  <2>1. /\ open = "none" /\ args' = Append(args, <<>>) /\ Read("space")
        /\ need' = need + 1 /\ UNCHANGED open
    BY <1>6 DEF NextWord
  <2>2. CASE Full
    <3>1. UNCHANGED loopVars
      BY <2>1, <2>2 DEF Read
    <3>2. Grows(args, args')
      BY <1>1, <2>1, WordGrows DEF LineType
    <3>3. open' \in {"none"} \cup Quotes
      BY <1>1, <2>1 DEF LineType
    <3> QED
      BY <2>1, <2>2, <3>1, <3>2, <3>3, LineFull
  <2>3. CASE ~Full
    <3>1. quotes = "none" /\ ~Toggles("space")
      BY <1>2, <2>1, <2>3 DEF Toggles, Quotes
    <3>2. EndWord
      BY <2>1, <2>3, <3>1 DEF Read
    <3> QED
      BY <2>1, <2>3, <3>2, LineEndWord
  <2> QED
    BY <2>2, <2>3
<1>7. CASE UNCHANGED lineVars
  <2>1. UNCHANGED <<args, need, open, argbuf, argv, arg_ptr, quotes>>
    BY <1>7 DEF lineVars, typedVars, loopVars
  <2> QED
    BY <2>1 DEF LineInv, LineType, Begun, LineSized, LineWhole, Full
<1> QED
  BY <1>3, <1>4, <1>5, <1>6, <1>7 DEF TypeLine

\* A command reads the word written at p: the first zero from p on is the one
\* behind it.
LEMMA StringIs ==
  ASSUME Argbuf \in Seq(Written), NEW p \in Nat \ {0}, NEW l \in Nat, p + l <= Len(Argbuf),
         Argbuf[p + l] = NUL, \A k \in 1..l : Argbuf[p + k - 1] # NUL
  PROVE  /\ StringAt(p) \in Seq(Written) /\ Len(StringAt(p)) = l
         /\ \A k \in 1..l : StringAt(p)[k] = Argbuf[p + k - 1]
<1> DEFINE First(e) == Argbuf[e] = NUL /\ \A j \in p..(e - 1) : Argbuf[j] # NUL
           end == CHOOSE e \in p..Len(Argbuf) : First(e)
<1>0. Len(Argbuf) \in Nat
  BY LenProperties
<1>1. p + l \in p..Len(Argbuf) /\ First(p + l)
  <2>1. p + l \in p..Len(Argbuf)
    BY <1>0
  <2>2. ASSUME NEW j \in p..(p + l - 1) PROVE Argbuf[j] # NUL
    <3>1. j - p + 1 \in 1..l /\ p + (j - p + 1) - 1 = j
      OBVIOUS
    <3> QED
      BY <3>1
  <2> QED
    BY <2>1, <2>2
<1>2. end \in p..Len(Argbuf) /\ First(end)
  BY <1>1, Zenon
<1>3. end = p + l
  <2> HIDE DEF end
  <2>1. end \in Nat
    BY <1>0, <1>2
  <2>2. ~(end < p + l)
    <3> SUFFICES ASSUME end < p + l PROVE FALSE
      OBVIOUS
    <3>1. end \in p..(p + l - 1)
      BY <1>0, <1>2, <2>1
    <3> QED
      BY <1>1, <1>2, <3>1
  <2>3. ~(p + l < end)
    <3> SUFFICES ASSUME p + l < end PROVE FALSE
      OBVIOUS
    <3>1. p + l \in p..(end - 1)
      BY <1>0, <1>2, <2>1
    <3> QED
      BY <1>1, <1>2, <3>1
  <2> QED
    BY <2>1, <2>2, <2>3
<1>4. StringAt(p) = SubSeq(Argbuf, p, p + l - 1)
  <2>1. StringAt(p) = SubSeq(Argbuf, p, end - 1)
    BY Zenon DEF StringAt
  <2> HIDE DEF end
  <2> QED
    BY <1>3, <2>1
<1> HIDE DEF end, First
<1>5. \A i \in p..(p + l - 1) : Argbuf[i] \in Written
  <2> TAKE i \in p..(p + l - 1)
  <2>1. i \in 1..Len(Argbuf)
    BY <1>0
  <2> QED
    BY <2>1, ElementOfSeq
<1>6. p \in Int /\ p + l - 1 \in Int /\ (p + l - 1) - p + 1 = l
  OBVIOUS
<1> DEFINE s == SubSeq(Argbuf, p, p + l - 1)
<1>7. /\ s \in Seq(Written) /\ Len(s) = IF p <= p + l - 1 THEN (p + l - 1) - p + 1 ELSE 0
      /\ \A i \in 1..((p + l - 1) - p + 1) : s[i] = Argbuf[p + i - 1]
  BY <1>5, <1>6, SubSeqProperties
<1> HIDE DEF s
<1>8. Len(s) = l
  BY <1>7
<1> QED
  BY <1>4, <1>6, <1>7, <1>8 DEF s

\* At the end of the line each word can be read where it was written.
LEMMA EndedRead ==
  ASSUME LineInv, NEW i \in 1..Len(argv)
  PROVE  /\ argv[i] \in 1..Len(Argbuf) /\ i \in 1..Len(args)
         /\ StringAt(argv[i]) = args[i]
<1>1. LineType /\ Ended(argbuf, argv, args)
  BY DEF LineInv
<1>2. Len(args) \in Nat /\ Len(argbuf) \in Nat /\ Len(argv) \in Nat
  BY <1>1, LineSizes
<1>3. i \in 1..Len(args) /\ IsAt(argbuf, argv[i], args[i])
  BY <1>1, <1>2 DEF Ended
<1>4. PICK p \in Nat \ {0} : p = argv[i]
  BY <1>1, ElementOfSeq DEF LineType
<1>5. PICK w \in Seq(Letters) : w = args[i]
  BY <1>1, <1>3, LineSizes
<1>6. Len(w) \in Nat /\ \A j \in 1..Len(w) : w[j] \in Letters
  BY LenProperties, ElementOfSeq
<1>7. /\ Argbuf \in Seq(Written) /\ Len(Argbuf) = Len(argbuf) + 1
      /\ \A k \in 1..Len(argbuf) : Argbuf[k] = argbuf[k]
  BY <1>1, AppendProperties DEF Argbuf, Written, LineType
<1>8. /\ p + Len(w) <= Len(argbuf) /\ argbuf[p + Len(w)] = NUL
      /\ \A j \in 1..Len(w) : argbuf[p + j - 1] = w[j]
  BY <1>3, <1>4, <1>5 DEF IsAt
<1>9. p + Len(w) <= Len(Argbuf) /\ Argbuf[p + Len(w)] = NUL /\ p \in 1..Len(Argbuf)
  <2>1. p + Len(w) \in 1..Len(argbuf)
    BY <1>2, <1>6, <1>8
  <2>2. p + Len(w) <= Len(argbuf) + 1 /\ p \in 1..(Len(argbuf) + 1)
    BY <1>2, <1>6, <1>8
  <2> QED
    BY <1>7, <1>8, <2>1, <2>2
<1>10. ASSUME NEW j \in 1..Len(w) PROVE Argbuf[p + j - 1] = w[j] /\ w[j] # NUL
  <2>1. p + j - 1 \in 1..Len(argbuf)
    BY <1>2, <1>6, <1>8
  <2>2. w[j] # NUL
    BY <1>6 DEF Letters, NUL
  <2> QED
    BY <1>7, <1>8, <2>1, <2>2
<1>11. /\ StringAt(p) \in Seq(Written) /\ Len(StringAt(p)) = Len(w)
       /\ \A k \in 1..Len(w) : StringAt(p)[k] = Argbuf[p + k - 1]
  <2>1. \A k \in 1..Len(w) : Argbuf[p + k - 1] # NUL
    BY <1>10, Zenon
  <2> QED
    BY <1>6, <1>7, <1>9, <2>1, StringIs, Zenon
<1>12. StringAt(p) = w
  <2>1. w \in Seq(Written)
    BY SeqMonotonic DEF Written
  <2>2. \A k \in 1..Len(StringAt(p)) : StringAt(p)[k] = w[k]
    BY <1>10, <1>11
  <2> QED
    BY <1>11, <2>1, <2>2, SeqEqual
<1> QED
  BY <1>3, <1>4, <1>5, <1>9, <1>12

\* And the word begun is read as far as it was written.
LEMMA BegunRead ==
  ASSUME LineInv, Len(argv) < ArgvSize, NEW n, n = Len(argv) + 1
  PROVE  /\ arg_ptr \in 1..Len(Argbuf) /\ n \in 1..Len(args)
         /\ Len(StringAt(arg_ptr)) = Len(argbuf) + 1 - arg_ptr
         /\ Len(StringAt(arg_ptr)) <= Len(args[n])
         /\ StringAt(arg_ptr) = SubSeq(args[n], 1, Len(StringAt(arg_ptr)))
<1>1. LineType /\ Begun
  BY DEF LineInv
<1>2. Len(args) \in Nat /\ Len(argbuf) \in Nat /\ Len(argv) \in Nat /\ arg_ptr \in Nat \ {0}
  BY <1>1, LineSizes DEF LineType
<1>3. n <= Len(args) /\ HasBegun(argbuf, arg_ptr, args[n])
  BY <1>1 DEF Begun
<1>4. n \in 1..Len(args)
  BY <1>2, <1>3
<1>5. PICK w \in Seq(Letters) : w = args[n]
  BY <1>1, <1>4, LineSizes
<1>6. Len(w) \in Nat /\ \A j \in 1..Len(w) : w[j] \in Letters
  BY LenProperties, ElementOfSeq
<1>7. /\ Argbuf \in Seq(Written) /\ Len(Argbuf) = Len(argbuf) + 1 /\ Argbuf[Len(argbuf) + 1] = NUL
      /\ \A k \in 1..Len(argbuf) : Argbuf[k] = argbuf[k]
  BY <1>1, AppendProperties DEF Argbuf, Written, LineType
<1>8. PICK l \in Nat : l = Len(argbuf) + 1 - arg_ptr /\ l <= Len(w)
  <2>1. arg_ptr <= Len(argbuf) + 1 /\ Len(argbuf) + 1 - arg_ptr <= Len(w)
    BY <1>3, <1>5 DEF HasBegun
  <2>2. Len(argbuf) + 1 - arg_ptr \in Nat
    BY <1>2, <2>1
  <2> QED
    BY <2>1, <2>2, Zenon
<1>9. arg_ptr + l = Len(argbuf) + 1 /\ arg_ptr + l <= Len(Argbuf) /\ arg_ptr \in 1..Len(Argbuf)
  BY <1>2, <1>7, <1>8
<1>10. ASSUME NEW j \in 1..l
       PROVE  j \in 1..Len(w) /\ Argbuf[arg_ptr + j - 1] = w[j] /\ w[j] # NUL
  <2>1. arg_ptr + j - 1 \in 1..Len(argbuf) /\ j \in 1..Len(w)
    BY <1>2, <1>6, <1>8
  <2>2. w[j] # NUL
    BY <1>6, <2>1 DEF Letters, NUL
  <2>3. argbuf[arg_ptr + j - 1] = w[j]
    BY <1>3, <1>5, <1>8 DEF HasBegun
  <2> QED
    BY <1>7, <2>1, <2>2, <2>3
<1>11. /\ StringAt(arg_ptr) \in Seq(Written) /\ Len(StringAt(arg_ptr)) = l
       /\ \A k \in 1..l : StringAt(arg_ptr)[k] = Argbuf[arg_ptr + k - 1]
  <2>1. Argbuf[arg_ptr + l] = NUL
    BY <1>7, <1>9, Zenon
  <2>2. \A k \in 1..l : Argbuf[arg_ptr + k - 1] # NUL
    BY <1>10, Zenon
  <2> QED
    BY <1>2, <1>7, <1>9, <2>1, <2>2, StringIs, Zenon
<1>12. StringAt(arg_ptr) = SubSeq(w, 1, l)
  <2>1. 1 \in Int /\ l \in Int /\ \A k \in 1..l : w[k] \in Written
    BY <1>6, <1>10 DEF Written
  <2> DEFINE s == SubSeq(w, 1, l)
  <2>2. /\ s \in Seq(Written) /\ Len(s) = IF 1 <= l THEN l - 1 + 1 ELSE 0
        /\ \A k \in 1..(l - 1 + 1) : s[k] = w[1 + k - 1]
    BY <2>1, SubSeqProperties
  <2> HIDE DEF s
  <2>3. Len(s) = l
    BY <2>2
  <2>4. ASSUME NEW k \in 1..l PROVE StringAt(arg_ptr)[k] = s[k]
    <3>1. k \in 1..(l - 1 + 1) /\ 1 + k - 1 = k
      OBVIOUS
    <3> QED
      BY <1>10, <1>11, <2>2, <3>1, ZenonT(60)
  <2>5. StringAt(arg_ptr) = s
    BY <1>11, <2>2, <2>3, <2>4, SeqEqual
  <2> QED
    BY <2>5 DEF s
<1> QED
  BY <1>4, <1>5, <1>8, <1>9, <1>11, <1>12

\* All of a word.
LEMMA WholeSeq ==
  ASSUME NEW w \in Seq(Letters)
  PROVE  SubSeq(w, 1, Len(w)) = w /\ Len(w) <= Len(w)
<1>1. Len(w) \in Nat /\ \A i \in 1..Len(w) : w[i] \in Letters
  BY LenProperties, ElementOfSeq
<1> DEFINE s == SubSeq(w, 1, Len(w))
<1>2. /\ s \in Seq(Letters) /\ Len(s) = IF 1 <= Len(w) THEN Len(w) - 1 + 1 ELSE 0
      /\ \A i \in 1..(Len(w) - 1 + 1) : s[i] = w[1 + i - 1]
  BY <1>1, SubSeqProperties
<1> HIDE DEF s
<1>3. Len(s) = Len(w)
  BY <1>1, <1>2
<1>4. ASSUME NEW i \in 1..Len(s) PROVE s[i] = w[i]
  <2>1. i \in 1..(Len(w) - 1 + 1) /\ 1 + i - 1 = i
    BY <1>1, <1>3
  <2> QED
    BY <1>2, <2>1
<1>5. s = w
  BY <1>2, <1>3, <1>4, SeqEqual
<1> QED
  BY <1>1, <1>5 DEF s

\* What a command is given is what is meant, or a beginning of it.
LEMMA LineGives == LineInv => QuotingWorks
<1> SUFFICES ASSUME LineInv PROVE QuotingWorks
  OBVIOUS
<1> USE CommandLineAssumption
<1> DEFINE given == handleCommand
           last == Len(given)
           n == Len(argv) + 1
<1>1. LineType /\ LineSized /\ LineWhole
  BY DEF LineInv
<1>2. /\ Len(args) \in Nat /\ Len(argbuf) \in Nat /\ Len(argv) \in Nat /\ need \in Nat
      /\ argv \in Seq(Nat \ {0}) /\ arg_ptr \in Nat \ {0}
  BY <1>1, LineSizes DEF LineType
<1>3. Len(argbuf) <= ArgbufSize
  BY <1>1 DEF LineSized
<1>4. CASE Len(argv) < ArgvSize
  <2>1. /\ arg_ptr \in 1..Len(Argbuf) /\ n \in 1..Len(args)
        /\ Len(StringAt(arg_ptr)) = Len(argbuf) + 1 - arg_ptr
        /\ Len(StringAt(arg_ptr)) <= Len(args[n])
        /\ StringAt(arg_ptr) = SubSeq(args[n], 1, Len(StringAt(arg_ptr)))
    BY <1>4, BegunRead
  <2>2. /\ Argv \in Seq(Nat \ {0}) /\ Len(Argv) = n /\ Argv[n] = arg_ptr
        /\ \A i \in 1..Len(argv) : Argv[i] = argv[i]
    <3>1. Argv = Append(argv, arg_ptr)
      BY <1>4 DEF Argv
    <3> QED
      BY <1>2, <3>1, AppendProperties
  <2>3. /\ given = [i \in 1..n |-> StringAt(Argv[i])] /\ n \in Nat /\ n \in 1..n
    BY <1>2, <2>2 DEF handleCommand
  <2>4. last = n /\ given[n] = StringAt(arg_ptr) /\ \A i \in 1..n : given[i] = StringAt(Argv[i])
    <3> HIDE DEF given
    <3>1. \A i \in 1..n : given[i] = StringAt(Argv[i])
      BY <2>3
    <3>2. Len(given) = n
      BY <2>3
    <3> QED
      BY <2>2, <2>3, <3>1, <3>2
  <2> HIDE DEF given, n
  <2>5. ASSUME NEW i \in 1..(n - 1)
        PROVE  given[i] = args[i] /\ Argv[i] \in 1..Len(Argbuf)
    <3>1. i \in 1..Len(argv) /\ i \in 1..n
      BY <1>2 DEF n
    <3> QED
      BY <2>2, <2>4, <3>1, EndedRead
  <2>6. ASSUME NEW i \in 1..last PROVE Argv[i] \in 1..Len(Argbuf)
    <3>1. i = n \/ i \in 1..(n - 1)
      BY <2>3, <2>4
    <3> QED
      BY <2>1, <2>2, <2>5, <3>1
  <2>7. last \in 1..ArgvSize /\ last <= Len(args)
    BY <1>2, <1>4, <2>1, <2>4 DEF n
  <2>8. Fits => given = args
    <3> SUFFICES ASSUME Fits PROVE given = args
      OBVIOUS
    <3>1. Len(args) = n /\ Len(StringAt(arg_ptr)) = Len(args[n])
      <4>1. CASE Full
        <5>1. Len(argbuf) >= ArgbufSize
          BY <1>2, <1>4, <4>1 DEF Full
        <5>2. Len(argbuf) = need
          BY <1>1, <1>2, <5>1 DEF Fits, LineSized
        <5> QED
          BY <1>1, <1>4, <2>1, <5>2 DEF LineWhole, n
      <4>2. CASE ~Full
        <5>1. Len(argbuf) = need
          BY <1>1, <4>2 DEF LineWhole
        <5> QED
          BY <1>1, <1>4, <2>1, <5>1 DEF LineWhole, n
      <4> QED
        BY <4>1, <4>2
    <3>2. PICK w \in Seq(Letters) : w = args[n]
      BY <1>1, <2>1, LineSizes
    <3>3. SubSeq(w, 1, Len(w)) = w
      BY WholeSeq
    <3>4. given[n] = args[n]
      BY <2>1, <2>4, <3>1, <3>2, <3>3
    <3>5. ASSUME NEW i \in 1..n PROVE given[i] = args[i]
      <4>1. i = n \/ i \in 1..(n - 1)
        BY <2>3
      <4> QED
        BY <2>5, <3>4, <4>1
    <3>6. args = [i \in 1..n |-> args[i]]
      BY <1>1, <3>1 DEF LineType
    <3>7. given = [i \in 1..n |-> given[i]]
      BY <2>3
    <3> QED
      BY <3>5, <3>6, <3>7
  <2> QED
    BY <1>3, <2>1, <2>4, <2>5, <2>6, <2>7, <2>8 DEF QuotingWorks, given
<1>5. CASE ~(Len(argv) < ArgvSize)
  <2>1. Len(argv) = ArgvSize /\ Len(args) > ArgvSize /\ ~Fits
    BY <1>1, <1>2, <1>5 DEF LineSized, Fits
  <2>2. Argv = argv
    BY <1>5 DEF Argv
  <2>3. /\ given = [i \in 1..Len(argv) |-> StringAt(argv[i])]
    BY <2>2 DEF handleCommand
  <2>4. last = Len(argv) /\ \A i \in 1..Len(argv) : given[i] = StringAt(argv[i])
    <3> HIDE DEF given
    <3> QED
      BY <1>2, <2>3
  <2> HIDE DEF given
  <2>5. ASSUME NEW i \in 1..Len(argv)
        PROVE  given[i] = args[i] /\ argv[i] \in 1..Len(Argbuf) /\ i \in 1..Len(args)
    BY <2>4, EndedRead
  <2>6. last \in 1..ArgvSize /\ last <= Len(args) /\ last \in 1..Len(argv)
    BY <1>2, <2>1, <2>4
  <2>7. given[last] = args[last]
    BY <2>5, <2>6
  <2>8. PICK w \in Seq(Letters) : w = args[last]
    BY <1>1, <2>5, <2>6, LineSizes
  <2>9. SubSeq(w, 1, Len(w)) = w /\ Len(w) <= Len(w)
    BY WholeSeq
  <2>10. \A i \in 1..(last - 1) : given[i] = args[i]
    <3> TAKE i \in 1..(last - 1)
    <3>1. i \in 1..Len(argv)
      BY <1>2, <2>4
    <3> QED
      BY <2>5, <3>1
  <2> QED
    BY <1>3, <2>1, <2>2, <2>4, <2>5, <2>6, <2>7, <2>8, <2>9, <2>10 DEF QuotingWorks, given
<1> QED
  BY <1>4, <1>5

(***************************************************************************)
(* Whatever is typed and however it is quoted, a command gets the words    *)
(* that were meant if they fit, and otherwise their beginning, without a   *)
(* byte behind the end of argv or argbuf (handleCommand).                  *)
(***************************************************************************)
THEOREM QuotingIsRead == InitLine /\ [][TypeLine]_lineVars => []QuotingWorks
BY LineStart, LineStep, LineGives, PTL
=============================================================================
