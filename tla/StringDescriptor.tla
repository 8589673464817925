--------------------------- MODULE StringDescriptor ---------------------------
(***************************************************************************)
(* String descriptors: the UTF-16 decoder of usbwire.go, which macOS and   *)
(* the Windows hub requests use, and the one StringDescriptor of Linux and *)
(* of WinUSB has.                                                          *)
(***************************************************************************)
EXTENDS Integers, Sequences, SequencesExt

CONSTANTS StrBlobs   \* what devices send: a length byte, a type byte, code units

StrAssumption == \A b \in StrBlobs : b \in Seq(0..255)

VARIABLES str,      \* what the device sends
          strOs,    \* the decoder: "linux", "winusb" or "usbwire"
          strIndex, \* the index the caller asked for
          runes     \* the runes StringDescriptor made a Go string of, which writes
                    \* U+FFFD for each of them that is a surrogate

Decoders == {"linux", "winusb", "usbwire"}

\* How a call ended: st, and the runes when it is "ok".
Text(r) == [st |-> "ok", text |-> r]
NotRead == [st |-> "not read", text |-> <<>>]
BadString == [st |-> "error", text |-> <<>>]
StrPanic == [st |-> "panic", text |-> <<>>]

HighFrom == 55296  \* 0xD800
LowFrom == 56320   \* 0xDC00
LowEnd == 57344    \* 0xE000

\* The read is into 256 zeroed bytes.
Octet(i) == IF i < Len(str) THEN str[i + 1] ELSE 0

\* i from 2 in steps of 2 while i + 1 < length
NumUnits(length) == IF length < 2 THEN 0 ELSE (length - 2) \div 2

Units(length) == [k \in 1..NumUnits(length) |-> Octet(2 * k) + 256 * Octet(2 * k + 1)]

\* Both decoders stop at the first NUL.
UntilNul(units) ==
    LET nul == {k \in DOMAIN units : units[k] = 0} IN
      IF nul = {} THEN units
      ELSE SubSeq(units, 1, (CHOOSE k \in nul : \A j \in nul : k <= j) - 1)

\* utf16ToRunes: one rune per unit.
utf16ToRunes(units) == UntilNul(units)

\* A high surrogate that a low one follows.
PairAt(units, k) ==
    /\ k < Len(units)
    /\ units[k] \in HighFrom..(LowFrom - 1) /\ units[k + 1] \in LowFrom..(LowEnd - 1)

\* A turn of utf16Decode's loop: a pair is one rune, anything else stands for itself.
DecodeOn(units, p) ==
    IF p.next > Len(units) THEN p
    ELSE IF PairAt(units, p.next)
      THEN [next |-> p.next + 2,
            out |-> Append(p.out, (units[p.next] - HighFrom) * 1024
                                  + (units[p.next + 1] - LowFrom) + 65536)]
      ELSE [next |-> p.next + 1, out |-> Append(p.out, units[p.next])]

utf16Decode(all) ==
    LET units == UntilNul(all)
        at[k \in 0..Len(units)] == IF k = 0 THEN [next |-> 1, out |-> <<>>]
                                   ELSE DecodeOn(units, at[k - 1])
    IN  at[Len(units)].out

Lesser(a, b) == IF a < b THEN a ELSE b

\* The length byte, cut to what arrived.
Arrived == Lesser(Octet(0), Len(str))

\* decodeStringDescriptor
decodeStringDescriptor == IF Len(str) < 2 THEN <<>> ELSE utf16Decode(Units(Arrived))

\* Linux trusts the length byte and reads the zeros behind a short answer; WinUSB
\* cuts the length, and panics on a length of 0, where the capacity is negative.
StringDescriptor(index) ==
    CASE index = 0 -> Text(<<>>)
      [] index # 0 /\ strOs = "linux" ->
           IF Octet(0) < 2 THEN BadString ELSE Text(utf16ToRunes(Units(Octet(0))))
      [] index # 0 /\ strOs = "winusb" ->
           IF Len(str) < 2 THEN BadString
           ELSE IF Octet(0) = 0 THEN StrPanic ELSE Text(utf16ToRunes(Units(Arrived)))
      [] OTHER -> Text(decodeStringDescriptor)

readString(index) ==
    /\ runes = NotRead /\ runes' = StringDescriptor(index)
    /\ strIndex' = index
    /\ UNCHANGED <<str, strOs>>

StrInit == str \in StrBlobs /\ strOs \in Decoders /\ strIndex = 0 /\ runes = NotRead

StrNext == \E index \in {0, 1} : readString(index)
-----------------------------------------------------------------------------
(* Properties                                                              *)

\* The reference: code points written as UTF-16 in little-endian bytes.
Encoded(points) ==
    FlattenSeq([k \in DOMAIN points |->
      IF points[k] < 65536 THEN <<points[k] % 256, points[k] \div 256>>
      ELSE LET u == points[k] - 65536
               hi == HighFrom + (u \div 1024)
               lo == LowFrom + (u % 1024)
           IN  <<hi % 256, hi \div 256, lo % 256, lo \div 256>>])

\* The reference: the bytes that the length byte announces and that arrived, up
\* to the first unit that is 0.
Body ==
    LET bytes == SubSeq(str, 3, Lesser(str[1], Len(str)))
        nul == {k \in 0..(Len(bytes) \div 2 - 1) : bytes[2 * k + 1] = 0 /\ bytes[2 * k + 2] = 0}
    IN  IF nul = {} THEN bytes
        ELSE SubSeq(bytes, 1, 2 * CHOOSE k \in nul : \A j \in nul : k <= j)

\* The complete units of the body.
Whole == SubSeq(Body, 1, 2 * (Len(Body) \div 2))

\* The answer has a length byte that announces at least the two bytes in front.
Announced == Len(str) >= 2 /\ str[1] >= 2

\* A string that was asked for and announced is read; anything else, index 0
\* included, gives an error, the panic of WinUSB, or no text.
StringsAnswered ==
    runes # NotRead =>
      IF strIndex # 0 /\ Announced THEN runes.st = "ok" ELSE runes.text = <<>>

\* A string comes back as it was encoded, up to its first NUL: encoding what the
\* decoder of usbwire.go returned gives the bytes of the answer, and no surrogate
\* pair is left in it.
DecodingInvertsEncoding ==
    runes # NotRead /\ strIndex # 0 /\ Announced /\ strOs = "usbwire" =>
      /\ Encoded(runes.text) = Whole
      /\ \A k \in DOMAIN runes.text : ~PairAt(runes.text, k)

\* The decoders of Linux and WinUSB return every unit that arrived as a rune of
\* its own: without a surrogate pair this is what usbwire.go returns, and where
\* usbwire.go has one rune for a pair, they have two that are no characters. A half
\* unit at the end of a short answer is one rune more on Linux.
DecodersAgree ==
    runes # NotRead /\ strIndex # 0 /\ Announced /\ strOs # "usbwire" =>
      /\ \A k \in DOMAIN runes.text : runes.text[k] < 65536
      /\ \/ Encoded(runes.text) = Whole
         \/ /\ strOs = "linux" /\ Len(str) < str[1] /\ Body # Whole
            /\ Encoded(runes.text) = Append(Body, 0)
=============================================================================
