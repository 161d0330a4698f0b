------------------------------- MODULE Codec --------------------------------
(***************************************************************************)
(* The text encodings of src/src/util.cpp: b64enc, b64dec, hexenc and      *)
(* hexdec, and how account.cpp and dbgate.cpp use them.  The database      *)
(* keeps raw tokens, a client holds their encoded form, and an Account     *)
(* read from the database encodes the raw bytes again for the comparison.  *)
(*                                                                         *)
(* b64enc shifts elements of a std::string, whose char is signed in one    *)
(* build and unsigned in another: SignedChar says which.  A character of   *)
(* the base64 alphabet is its value, 0 to 63, and any other one is Other   *)
(* (the encoder writes only the padding `=').  The input grows by a byte   *)
(* per step, so that the runs see every string over Byte up to MaxLen.     *)
(***************************************************************************)
EXTENDS Integers, Sequences, FiniteSets

CONSTANTS
  Byte,        \* the bytes tried, all of 0..255 in general
  SignedChar,  \* whether plain char is signed
  MaxLen       \* bound: length of the longest input

ASSUME CodecAssumption ==
  /\ Byte \subseteq 0..255
  /\ SignedChar \in BOOLEAN
  /\ MaxLen \in Nat

VARIABLE raw   \* the bytes given to the encoder

InitRaw == raw = <<>>

Grow == Len(raw) < MaxLen /\ \E b \in Byte : raw' = Append(raw, b)

-----------------------------------------------------------------------------
Other == 64

\* The value a char has in an expression.
Char(b) == IF SignedChar /\ b >= 128 THEN b - 256 ELSE b

\* high | low, cut to six bits: high has no bits below m, and a negative low
\* has all bits from m on.
Merge(high, m, low) == IF low < 0 THEN 64 - m + (low % m) ELSE high + low

\* The four characters of a group of three bytes.  Mutant (Enc3Narrow): the
\* second byte is shifted by one bit too few.
Enc1(a) == a \div 4
Enc2(a, b) == Merge((a * 16) % 64, 16, Char(b) \div 16)
Enc3Narrow(b, c) == Merge((b * 2) % 64, 4, Char(c) \div 64)
Enc3(b, c) == Merge((b * 4) % 64, 4, Char(c) \div 64)
Enc4(c) == c % 64

b64enc(in) ==
  LET n == Len(in)
      at(i) == IF i <= n THEN in[i] ELSE 0 IN
  [j \in 1..(4 * ((n + 2) \div 3)) |->
    LET i == 3 * ((j - 1) \div 4) + 1 IN
      CASE j % 4 = 1 -> Enc1(in[i])
        [] j % 4 = 2 -> Enc2(in[i], at(i + 1))
        [] j % 4 = 3 -> IF i + 1 <= n THEN Enc3(in[i + 1], at(i + 2)) ELSE Other
        [] j % 4 = 0 -> IF i + 2 <= n THEN Enc4(in[i + 2]) ELSE Other]

\* The three bytes of a group of four characters.
Dec1(p, q) == 4 * p + (q \div 16)
Dec2(q, r) == ((16 * q) % 256) + (r \div 4)
Dec3(r, s) == ((64 * r) % 256) + s

InAlphabet(c) == c # Other

\* Mutant: the byte begun is always written.
CutAlways(in) == TRUE

(***************************************************************************)
(* b64dec skips what is not in the alphabet.  A group cut short by skipped *)
(* characters yields its complete bytes; one cut short by the end of the   *)
(* input also the bits of the byte it had begun.                           *)
(***************************************************************************)
CutShort(in) == in # <<>> /\ InAlphabet(in[Len(in)])

DecodedLength(k, cut) == 3 * (k \div 4)
  + (IF k % 4 > 1 THEN (k % 4) - 1 ELSE 0)
  + (IF k % 4 > 0 /\ cut THEN 1 ELSE 0)

\* What is in the alphabet, in its order: the k-th has k - 1 before it.
Selected(in) ==
  LET kept == {i \in 1..Len(in) : InAlphabet(in[i])} IN
  [k \in 1..Cardinality(kept) |->
    in[CHOOSE i \in kept : Cardinality({j \in kept : j < i}) = k - 1]]

b64dec(in) ==
  LET f == Selected(in)
      at(i) == IF i <= Len(f) THEN f[i] ELSE 0 IN
  [j \in 1..DecodedLength(Len(f), CutShort(in)) |->
    LET i == 4 * ((j - 1) \div 3) + 1 IN
      CASE j % 3 = 1 -> Dec1(f[i], at(i + 1))
        [] j % 3 = 2 -> Dec2(f[i + 1], at(i + 2))
        [] j % 3 = 0 -> Dec3(f[i + 2], at(i + 3))]

\* hexenc and hexdec, with digits for characters; the only input of hexdec
\* is what hexenc wrote.
hexenc(in) ==
  [j \in 1..(2 * Len(in)) |->
    IF j % 2 = 1 THEN in[(j + 1) \div 2] \div 16 ELSE in[j \div 2] % 16]
hexdec(in) == [j \in 1..(Len(in) \div 2) |-> 16 * in[2 * j - 1] + in[2 * j]]

\* getNewAuthToken and getNewBinderToken answer b64enc(raw); the Account is
\* stored with b64dec of that, and an Account that is loaded encodes it.
Given == b64enc(raw)
StoredToken == b64dec(Given)
LoadedToken == b64enc(StoredToken)

-----------------------------------------------------------------------------
(***************************************************************************)
(* A token survives the database: the auth, binder or combo token a client *)
(* was given equals the one an Account loaded later is compared with, for  *)
(* every raw token, also where b64enc does not write base64 (account.cpp,  *)
(* the constructor and the conversion to storage::AccountInfo).            *)
(***************************************************************************)
TokenSurvives ==
  /\ LoadedToken = Given
  /\ hexenc(hexdec(hexenc(raw))) = hexenc(raw)

(***************************************************************************)
(* b64enc writes base64 (RFC 4648) for bytes below 128, and for all where  *)
(* char is unsigned: bit by bit its output is the input, with zero bits    *)
(* added to fill the last character and padding after it.  Elsewhere the   *)
(* bits of a byte from 128 on run over those of the one before.            *)
(***************************************************************************)
Bits(w, width, i) == (w[((i - 1) \div width) + 1] \div 2^(width - 1 - ((i - 1) % width))) % 2
EncodesBase64 ==
  LET n == Len(raw) IN
    /\ Len(Given) = 4 * ((n + 2) \div 3)
    /\ \A j \in 1..Len(Given) : (Given[j] = Other) <=> (6 * (j - 1) >= 8 * n)
    /\ (\A i \in 1..n : Char(raw[i]) >= 0) =>
         \A i \in 1..(6 * Len(Given)) : Given[((i - 1) \div 6) + 1] # Other =>
           Bits(Given, 6, i) = IF i <= 8 * n THEN Bits(raw, 8, i) ELSE 0
=============================================================================
