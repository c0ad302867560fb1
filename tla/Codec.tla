-------------------------------- MODULE Codec --------------------------------
(***************************************************************************)
(* What protocal.c, protocal.go and Protocal.java do to the texts of a     *)
(* packet.  The three put the same JSON behind the same header, but cut    *)
(* long texts in different ways and do not agree on the sign of a byte     *)
(* when they sum up the bytes of the JSON.  The other bytes of the JSON    *)
(* are ASCII and the same for the writer and the reader of a packet, so    *)
(* only those of the texts are summed here.  That Go and Java replace a    *)
(* character that has been cut in two is left out.                         *)
(***************************************************************************)
EXTENDS Integers, FiniteSets, SequencesExt

CONSTANTS
  ByteRange,    \* the number of values of a byte, 256
  SumRange,     \* the number of values of the checksum, 65536
  INFO_MAX_LEN, \* the size of the buffers of protocal.c, 100
  Behind        \* what can lie behind such a buffer, up to the next zero

ASSUME CodecAssumption ==
  /\ ByteRange \in Nat \ {0, 1} /\ ByteRange % 2 = 0
  /\ SumRange \in Nat \ {0} /\ SumRange % ByteRange = 0
  /\ INFO_MAX_LEN \in Nat
  /\ Behind \subseteq Seq(1..(ByteRange - 1))

Language == {"C", "Go", "Java"}

(* The bytes of a text as chars, where those are signed, and in Java.      *)
Signed(text) ==
  [k \in 1..Len(text) |-> IF text[k] < ByteRange \div 2 THEN text[k]
                                                       ELSE text[k] - ByteRange]

SumOf(numbers) ==
  FoldSeq(LAMBDA n, sum : (sum + n) % SumRange, 0, numbers)

(* Mutant of GetChecksum: all three sum signed bytes.                      *)
GetChecksumSigned(lang, text) == SumOf(Signed(text))

(* The checksum a packet is given.                                         *)
GetChecksum(lang, text) == SumOf(IF lang = "Go" THEN text ELSE Signed(text))

(* The sum that a reader compares it with.                                 *)
ChecksumRight(lang, text, checksum) ==
  checksum = SumOf(IF lang = "Java" THEN Signed(text) ELSE text)

(* Mutant of Field: room is left for the zero, but no zero is written.     *)
FieldOneLess(lang, text) ==
  CASE lang = "C" /\ Len(text) >= INFO_MAX_LEN - 1 ->
         { SubSeq(text, 1, INFO_MAX_LEN - 1) \o b : b \in Behind }
    [] lang = "Go" /\ Len(text) > INFO_MAX_LEN -> {SubSeq(text, 1, INFO_MAX_LEN)}
    [] OTHER -> {text}

(* What becomes of a text in a packet.  strncpy leaves a text that fills   *)
(* the buffer without a zero, and what lies behind it is read, too.        *)
Field(lang, text) ==
  CASE lang = "C" /\ Len(text) >= INFO_MAX_LEN ->
         { SubSeq(text, 1, INFO_MAX_LEN) \o b : b \in Behind }
    [] lang = "Go" /\ Len(text) > INFO_MAX_LEN -> {SubSeq(text, 1, INFO_MAX_LEN)}
    [] OTHER -> {text}

Fields(lang, name, info) ==
  { [name |-> n, info |-> i] : n \in Field(lang, name), i \in Field(lang, info) }

(* The packets that the program may build: more than one, if it reads what *)
(* lies behind a buffer.                                                   *)
Packets(lang, action, name, info) ==
  { [by |-> lang, action |-> action, service |-> s,
     checksum |-> GetChecksum(lang, s.name \o s.info)] :
       s \in Fields(lang, name, info) }

Accepts(lang, pkt) ==
  ChecksumRight(lang, pkt.service.name \o pkt.service.info, pkt.checksum)

-----------------------------------------------------------------------------
(* How many bytes are outside ASCII.                                       *)
High(text) == Cardinality({ k \in 1..Len(text) : text[k] >= ByteRange \div 2 })

(* What fits into the buffer of a text.                                    *)
Fitting(text) == IF Len(text) > INFO_MAX_LEN THEN SubSeq(text, 1, INFO_MAX_LEN)
                                             ELSE text
=============================================================================
