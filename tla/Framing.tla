------------------------------ MODULE Framing -------------------------------
(***************************************************************************)
(* The frame of a game packet: Packet::build and Packet::parse             *)
(* (src/src/packet.cpp).  Two magic numbers enclose the opcode, the sizes  *)
(* of header and data, the header and the data.                            *)
(*                                                                         *)
(* The arithmetic keeps its widths, scaled: a byte has Base values instead *)
(* of 256, so that an unsigned short has Short of them, an int IntValues   *)
(* and a size_t SizeValues.  The input of parse grows by a byte per step,  *)
(* and so the runs see every string of bytes up to MaxBuf.                 *)
(***************************************************************************)
EXTENDS Integers, Sequences

CONSTANTS
  Base,            \* how many values a byte has
  PACKET_MAGIC1, PACKET_MAGIC2,
  MaxBuf           \* bound: length of the longest input

\* How many values an unsigned short, an int and a size_t have.
Short == Base * Base
IntValues == Short * Short
SizeValues == IntValues * IntValues

\* A buffer takes at most half of the addresses.
ASSUME FramingAssumption ==
  /\ Base \in Nat /\ Base >= 2
  /\ PACKET_MAGIC1 \in 0..(Short - 1) /\ PACKET_MAGIC2 \in 0..(Short - 1)
  /\ MaxBuf \in Nat /\ 2 * MaxBuf <= SizeValues

VARIABLE buf   \* what was received, and decrypted

InitBuf == buf = <<>>

GrowBuf == Len(buf) < MaxBuf /\ \E b \in 0..(Base - 1) : buf' = Append(buf, b)

-----------------------------------------------------------------------------
\* htobe16 of the low 16 bits, and be16toh of the k-th unsigned short.
htobe16(n) == <<(n \div Base) % Base, n % Base>>
be16toh(b, k) == Base * b[2 * k + 1] + b[2 * k + 2]

build(p) ==
  htobe16(PACKET_MAGIC1) \o htobe16(p.opcode) \o htobe16(Len(p.header))
    \o htobe16(Len(p.data) \div Short) \o htobe16(Len(p.data))
    \o p.header \o p.data \o htobe16(PACKET_MAGIC2)

Refused == [opcode |-> -1, header |-> <<>>, data |-> <<>>]
Throws == [opcode |-> -2, header |-> <<>>, data |-> <<>>]

SizeT(n) == n % SizeValues

\* (data_sz_hi << 16) | data_sz_lo is an int, which is sign-extended.
DataSize(b) ==
  LET hi == be16toh(b, 3)
      n == hi * Short + be16toh(b, 4) IN
  SizeT(IF 2 * hi >= Short THEN n - IntValues ELSE n)

\* A size is compared with a sum that may wrap around.
TooShort(b, need) == Len(b) < SizeT(need)

\* Mutant: the data is taken from where the header begins.
FieldsShifted(b, hdr, dat) ==
  [opcode |-> be16toh(b, 1),
   header |-> SubSeq(b, 11, 10 + hdr),
   data |-> SubSeq(b, 11, 10 + dat)]

Fields(b, hdr, dat) ==
  [opcode |-> be16toh(b, 1),
   header |-> SubSeq(b, 11, 10 + hdr),
   data |-> SubSeq(b, 11 + hdr, 10 + hdr + dat)]

(***************************************************************************)
(* A data size from 2^31 on makes the sum of the sizes wrap around; when   *)
(* it then points at the magic number all the same, the string of that     *)
(* size cannot be made and std::string throws.  (A sum that wraps to less  *)
(* than 2 makes the code read the magic number in front of the buffer; the *)
(* model takes it not to be there.)                                        *)
(***************************************************************************)
parse(b) ==
  IF Len(b) < 10 \/ be16toh(b, 0) # PACKET_MAGIC1 THEN Refused
  ELSE LET hdr == be16toh(b, 2)
           dat == DataSize(b)
           at == SizeT(dat + hdr + 10) IN
    IF TooShort(b, hdr + 10) \/ TooShort(b, dat + hdr + 12) THEN Refused
    ELSE IF at + 2 > Len(b) \/ Base * b[at + 1] + b[at + 2] # PACKET_MAGIC2 THEN Refused
    ELSE IF dat > Len(b) THEN Throws
    ELSE Fields(b, hdr, dat)

-----------------------------------------------------------------------------
\* The packets whose frame may begin an input.  The size of the header is an
\* unsigned short and that of the data an int that is not negative.
Strings(n) == UNION {[1..k -> 0..(Base - 1)] : k \in 0..n}
Packets ==
  {p \in [opcode : 0..(Short - 1), header : Strings(MaxBuf - 12), data : Strings(MaxBuf - 12)] :
     /\ 12 + Len(p.header) + Len(p.data) <= MaxBuf
     /\ Len(p.header) < Short /\ 2 * (Len(p.data) \div Short) < Short}

(***************************************************************************)
(* parse is the inverse of build, on every input: it yields a packet       *)
(* exactly when the input begins with that packet's frame, so that no      *)
(* shorter, longer or garbled size, and no bytes behind the frame, lead to *)
(* another packet; and it throws only for a data size from 2^31 on         *)
(* (Packet::parse and Packet::build).                                      *)
(***************************************************************************)
ParseInvertsBuild ==
  LET q == parse(buf) IN
  /\ \A p \in Packets :
       (q = p) <=> (LET f == build(p) IN Len(f) <= Len(buf) /\ SubSeq(buf, 1, Len(f)) = f)
  /\ q \in Packets \cup {Refused, Throws}
  /\ q = Throws => 2 * be16toh(buf, 3) >= Short
=============================================================================
