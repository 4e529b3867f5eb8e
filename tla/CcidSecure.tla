----------------------------- MODULE CcidSecure -----------------------------
(***************************************************************************)
(* What perform_PC_to_RDR_Secure of ccid.c makes of its data: the block    *)
(* with the PIN that the user typed, for a verification or a modification, *)
(* and the fields of a request to establish a PACE channel and of its      *)
(* answer.  When these run, and on which card, is in Ccid.                 *)
(*                                                                         *)
(* A byte that goes to the card has a source: the host, a digit of the     *)
(* current or the new PIN, the length of a PIN, or nobody ("unset").       *)
(***************************************************************************)
EXTENDS Naturals, Sequences

CONSTANTS
  MaxData,      \* bytes of apdu_data (15)
  PinLimits,    \* pairs of a smallest and a largest number of digits
  Radix         \* of a two-byte length (256)

ASSUME SecureAssumption ==
  MaxData \in Nat /\ Radix \in Nat \ {0} /\ PinLimits \subseteq Nat \X Nat

Source(from, n) == [from |-> from, n |-> n]

Larger(m, n) == IF m > n THEN m ELSE n

\* If the largest number is smaller than the smallest, the latter is exact.
PinLengths == UNION {IF l[1] > l[2] THEN {l[1]} ELSE l[1] .. l[2] : l \in PinLimits}

\* A command: "replace" is a modification that inserts the current PIN as well.
\* host is the number of bytes that its APDU brings, block the size of the PIN
\* block, bits that of its length; offset and old say where the current PIN is.
\* Of bmFormatString one bit is taken for the encoding: there is no BCD.
PinCommands ==
  [op : {"verify", "modify", "replace"}, host : 0 .. MaxData, block : 0 .. MaxData,
   right : BOOLEAN, ascii : BOOLEAN, bits : {0, 4, 8, 12},
   bytes : BOOLEAN, offset : {0, 1, 8}, old : {0, 1},
   cur : PinLengths, new : PinLengths, digits : BOOLEAN]

\* get_effective_offset; other numbers of bits leave 0 as it was.
EffectiveOffset(c) == IF c.bytes THEN c.offset ELSE IF c.offset = 8 THEN 1 ELSE 0

\* get_datasize_for_pin, before the offset and the encoding of the PIN are set.
DataSize(len, bits) == Larger(len, (bits + 7) \div 8)

\* Without data of the host the APDU gets as many bytes as the PIN needs.
Provided(c) ==
  LET own == DataSize(IF c.op = "verify" THEN c.cur ELSE c.new, c.bits)
      lc == IF c.op = "replace" THEN Larger(own, DataSize(c.cur, c.bits)) ELSE own
  IN IF c.host > 0
     THEN [ok |-> TRUE, block |-> c.block, data |-> [i \in 1 .. c.host |-> Source("host", i)]]
     ELSE [ok |-> lc <= MaxData, block |-> own, data |-> [i \in 1 .. lc |-> Source("unset", i)]]

Failed(b) == [b EXCEPT !.ok = FALSE]

\* Mutant: the last digit is left out when the PIN fills the block.
EncodePinShort(b, pin, at, len, c) ==
  IF len > b.block - at \/ (~c.ascii /\ ~c.digits) THEN Failed(b)
  ELSE [b EXCEPT !.data = [i \in DOMAIN @ |-> IF i \in at + 1 .. at + len /\ i < b.block
                                              THEN Source(pin, i - at) ELSE @[i]]]

\* encode_pin, and sc_build_pin for ASCII: a byte for each digit.
EncodePin(b, pin, at, len, c) ==
  IF len > b.block - at \/ (~c.ascii /\ ~c.digits) THEN Failed(b)
  ELSE [b EXCEPT !.data = [i \in DOMAIN @ |-> IF i \in at + 1 .. at + len
                                              THEN Source(pin, i - at) ELSE @[i]]]

\* write_pin.  Where the PIN is to be inserted is not looked at.
WritePin(b, pin, len, c) == EncodePin(b, pin, IF c.right THEN b.block - len ELSE 0, len, c)

\* write_pin_length: to the first byte, whatever the host asked for.
WritePinLength(b, len, bits) ==
  IF bits \notin {0, 8} THEN Failed(b)
  ELSE IF bits = 8 THEN [b EXCEPT !.data[1] = Source("length", len)] ELSE b

\* The data given to the card, if ok.  Each step is taken if the last succeeded.
PinBlock(c) ==
  LET And(b, next) == IF b.ok THEN next ELSE b
      b0 == Provided(c)
      b1 == And(b0, WritePin(b0, "cur", c.cur, c))
      b2 == And(b1, WritePinLength(b1, c.cur, c.bits))
      b3 == IF c.op = "replace" /\ c.old # EffectiveOffset(c) THEN Failed(b2) ELSE b2
  IN CASE c.op = "verify"  -> b2
       [] c.op = "replace" -> And(b3, WritePin(b3, "new", c.new, c))
       [] c.op = "modify"  -> And(b0, WritePin(b0, "new", c.new, c))

-----------------------------------------------------------------------------
(* EstablishPACEChannel: the PIN's id, the chat, the PIN and the description *)
(* of the certificate, each but the first behind its length.                 *)

Short == [at |-> 0, len |-> 0]

\* The length in the next bytes of d (the low byte first), and where its field is.
Number(d, at, width) == IF width = 1 THEN d[at + 1] ELSE d[at + 1] + Radix * d[at + 2]

Field(d, at, width) ==
  IF Len(d) < at + width \/ Len(d) < at + width + Number(d, at, width) THEN Short
  ELSE [at |-> at + width, len |-> Number(d, at, width)]

\* Mutant: the description may end behind the data.
PaceInputLong(d) ==
  LET Behind(f, width) == IF f = Short THEN Short ELSE Field(d, f.at + f.len, width)
      chat == Field(d, 1, 1)
      pin  == Behind(chat, 1)
      at   == pin.at + pin.len
      cert == IF pin = Short \/ Len(d) < at + 2 THEN Short
              ELSE [at |-> at + 2, len |-> Number(d, at, 2)]
  IN [ok |-> cert # Short, chat |-> chat, pin |-> pin, cert |-> cert]

PaceInput(d) ==
  LET Behind(f, width) == IF f = Short THEN Short ELSE Field(d, f.at + f.len, width)
      chat == Field(d, 1, 1)
      pin  == Behind(chat, 1)
      cert == Behind(pin, 2)
  IN [ok |-> cert # Short, chat |-> chat, pin |-> pin, cert |-> cert]

\* A number in two bytes, of which more is lost.
Word(n) == <<n % Radix, (n \div Radix) % Radix>>

\* Its answer: the result in four bytes, the length of what follows, the status
\* bytes of the card, EF.CardAccess, the most recent and the previous
\* certification authority reference, and the identifier of the chip.
PaceOutput(o) ==
  LET zeros(n) == [i \in 1 .. n |-> 0]
      fields == Word(o.access) \o zeros(o.access)
                \o <<o.recent>> \o zeros(o.recent)
                \o <<o.previous>> \o zeros(o.previous)
                \o Word(o.id) \o zeros(o.id)
  IN [ok |-> /\ o.access < Radix * Radix /\ o.recent < Radix
             /\ o.previous < Radix /\ o.id < Radix * Radix,
      data |-> zeros(4) \o Word(2 + Len(fields)) \o zeros(2) \o fields]

-----------------------------------------------------------------------------
\* A host tells the truth about its APDU: the block is a part of the data, and
\* a PIN that is to be aligned to the right fits.
Truthful(c) ==
  /\ c.host > 0 => c.block <= c.host
  /\ c.right => Larger(c.cur, c.new) <= Provided(c).block

\* The PIN that was typed last is in the data of a command that the card gets,
\* in its order and where the block says, but for a first digit that the length
\* was written over; nothing in the data is left to chance, what is not of the
\* block is as the host wants it, and a PIN that fits is not refused
\* (write_pin, write_pin_length and the choice of the data in perform_PC_to_RDR_Secure).
BlocksAreRight ==
  \A c \in PinCommands : Truthful(c) =>
    LET b   == PinBlock(c)
        pin == IF c.op = "verify" THEN "cur" ELSE "new"
        len == IF c.op = "verify" THEN c.cur ELSE c.new
        at  == IF c.right THEN b.block - len ELSE 0
    IN /\ b.ok =>
            /\ \A i \in 1 .. len : \/ b.data[at + i] = Source(pin, i)
                                   \/ at + i = 1 /\ b.data[1] = Source("length", c.cur)
            /\ \A i \in DOMAIN b.data : /\ b.data[i].from # "unset"
                                        /\ c.host > 0 /\ i > b.block =>
                                             b.data[i] = Source("host", i)
                                             \/ b.data[i].from = "length"
       /\ /\ c.host > 0 /\ c.digits /\ c.bits \in {0, 8}
          /\ Larger(c.cur, c.new) <= c.block
          /\ c.op = "replace" => c.old = EffectiveOffset(c)
          => b.ok

\* Of a request for PACE every field is found again as the host coded it, also
\* with other bytes behind, and one that was cut off is refused.
FieldsAreFound ==
  \A chat, pin \in 0 .. Radix - 1, cert \in 0 .. 2 * Radix, more \in 0 .. 1 :
    LET zeros(n) == [i \in 1 .. n |-> 0]
        d == <<0, chat>> \o zeros(chat) \o <<pin>> \o zeros(pin)
                \o <<cert % Radix, cert \div Radix>> \o zeros(cert)
        p == PaceInput(d \o zeros(more))
    IN /\ p.ok /\ p.chat.len = chat /\ p.pin.len = pin /\ p.cert.len = cert
       /\ p.chat.at = 2 /\ p.pin.at = 3 + chat /\ p.cert.at = 5 + chat + pin
       /\ \A n \in 0 .. Len(d) - 1 : ~PaceInput(SubSeq(d, 1, n)).ok

\* Of an answer that is sent the host finds every field as PACE left it, up to the
\* last byte; and the length of them all, if two bytes can hold it.
AnswerIsFound ==
  \A o \in [access : 0 .. Radix * Radix, recent : 0 .. Radix,
            previous : 0 .. Radix, id : 0 .. Radix * Radix] :
    LET p == PaceOutput(o)
        d == p.data
        access   == Field(d, 8, 2)
        recent   == Field(d, access.at + access.len, 1)
        previous == Field(d, recent.at + recent.len, 1)
        id       == Field(d, previous.at + previous.len, 2)
    IN p.ok => /\ access.len = o.access /\ recent.len = o.recent
               /\ previous.len = o.previous /\ id.len = o.id
               /\ id.at + id.len = Len(d)
               /\ Len(d) - 6 < Radix * Radix => Number(d, 4, 2) = Len(d) - 6
=============================================================================
