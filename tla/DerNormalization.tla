-------------------------- MODULE DerNormalization --------------------------
(***************************************************************************)
(* rust/sd_trust_kit/src/asn1.rs: normalized_asn1_first_object turns what  *)
(* is in /Contents of a signature dictionary, a BER element followed by    *)
(* the zeros of the placeholder, into DER, and Reader::read_tlv reads the  *)
(* result.  A dictionary whose content cannot be normalised is not taken   *)
(* for a signature (pdf.rs:531).  The recursion of normalized_asn1_element *)
(* is a stack of frames, one per constructed element that is open; a slice *)
(* is a limit within the whole.  The size of a byte is a parameter, and so *)
(* is the machine word (usize), in which a position and a length are added.*)
(* Faulty... operators are slips this code could contain; no definition    *)
(* uses them.                                                              *)
(***************************************************************************)
EXTENDS Naturals, Sequences

CONSTANTS
  Radix,            \* values of a byte, 256
  Half,             \* 0x80: the bit that marks long lengths and long tags
  MaxLengthBytes,   \* a length has no more bytes than this, 4
  Constructed,      \* first tag bytes with bit 0x20
  LongTag,          \* first tag bytes that are continued, 0x1f
  Word,             \* values of a usize
  Inputs            \* contents to normalise

Byte == 0..Radix - 1

ASSUME HalfAssumption == Radix \in Nat /\ Half \in 1..Radix - 1
ASSUME LengthBytesAssumption == MaxLengthBytes \in Nat
ASSUME TagsAssumption == Constructed \subseteq Byte /\ LongTag \subseteq Byte
ASSUME WordAssumption == Word \in Nat \ {0}
ASSUME InputsAssumption == Inputs \subseteq Seq(Byte)

VARIABLES
  input,
  pc,       \* what is read next, or how it ended
  index,    \* bytes of the input that are behind
  tag,      \* the tag bytes of the element that is read
  length,   \* its length so far
  left,     \* bytes of its length to come
  stack     \* the elements around it; the first frame is the caller's

vars == <<input, pc, index, tag, length, left, stack>>

Top == stack[Len(stack)]
Limit == Top.limit

\* The byte at a position of the input, counted from 0.
At(position) == input[position + 1]

\* Two zeros, the end of contents of unknown length.
AtEnd == index + 2 <= Limit /\ At(index) = 0 /\ At(index + 1) = 0

-----------------------------------------------------------------------------
\* The big-endian digits of a number, without a leading zero.
Digits(number) ==
  LET digits[n \in 0..number] ==
        IF n = 0 THEN <<>> ELSE Append(digits[n \div Radix], n % Radix)
  IN digits[number]

\* Written again, an element may get a longer length: what an input can become
\* at most still has a length that the reader takes, as it does for contents of
\* up to 2^32 / 5 bytes.
ASSUME InputsFit ==
  \A s \in Inputs :
    LET most == (MaxLengthBytes + 1) * Len(s)
    IN  most < Word /\ Len(Digits(most)) <= MaxLengthBytes

\* Slip: the short form goes one too far.
FaultyDerLength(number) ==
  IF number <= Half THEN <<number>>
  ELSE <<Half + Len(Digits(number))>> \o Digits(number)

\* der_length
DerLength(number) ==
  IF number < Half THEN <<number>>
  ELSE <<Half + Len(Digits(number))>> \o Digits(number)

Encoded(tagBytes, content) == tagBytes \o DerLength(Len(content)) \o content

NoTlv == [found |-> FALSE]

\* The number that bytes stand for, in a machine word.
Value(bytes) ==
  LET value[k \in 0..Len(bytes)] ==
        IF k = 0 THEN 0 ELSE (value[k - 1] * Radix + bytes[k]) % Word
  IN value[Len(bytes)]

\* Reader::read_tlv at the beginning of some bytes: one byte of tag, and no
\* unknown length.
ReadTlv(bytes) ==
  LET n == IF bytes[2] < Half THEN 0 ELSE bytes[2] - Half
      size == IF bytes[2] < Half THEN bytes[2] ELSE Value(SubSeq(bytes, 3, 2 + n))
  IN IF \/ Len(bytes) < 2
        \/ bytes[2] >= Half /\ (n = 0 \/ n > MaxLengthBytes \/ 2 + n > Len(bytes))
        \/ 2 + n + size > Len(bytes)
     THEN NoTlv
     ELSE [found |-> TRUE, tag |-> bytes[1],
           content |-> SubSeq(bytes, 3 + n, 2 + n + size), behind |-> 2 + n + size]

-----------------------------------------------------------------------------
Init ==
  /\ input \in Inputs
  /\ pc = "element"
  /\ index = 0
  /\ tag = <<>>
  /\ length = 0 /\ left = 0
  /\ stack = <<[kind |-> "root", tag |-> <<>>, limit |-> Len(input), content |-> <<>>]>>

Stop(how) ==
  /\ pc' = how
  /\ UNCHANGED <<input, index, tag, length, left, stack>>

\* The element is complete: it goes into the one around it, or to the caller.
Emit(frames, element) ==
  /\ stack' = [frames EXCEPT ![Len(frames)].content = @ \o element]
  /\ pc' = IF Len(frames) = 1 THEN "done" ELSE "children"

\* The element is constructed: its children are next.
Open(kind, limit) ==
  /\ stack' = Append(stack, [kind |-> kind, tag |-> tag, limit |-> limit,
                             content |-> <<>>])
  /\ pc' = "children"

\* Nothing to read, or the zeros behind the element.
NoElement ==
  /\ pc = "element"
  /\ index + 2 > Limit \/ AtEnd
  /\ Stop("none")

StartElement ==
  /\ pc = "element"
  /\ index + 2 <= Limit /\ ~ AtEnd
  /\ tag' = <<At(index)>>
  /\ index' = index + 1
  /\ pc' = IF At(index) \in LongTag THEN "tag" ELSE "length"
  /\ UNCHANGED <<input, length, left, stack>>

ContinueTag ==
  /\ pc = "tag"
  /\ index < Limit
  /\ tag' = Append(tag, At(index))
  /\ index' = index + 1
  /\ pc' = IF At(index) < Half THEN "length" ELSE "tag"
  /\ UNCHANGED <<input, length, left, stack>>

EndOfTagOrLengthMissing ==
  /\ pc \in {"tag", "length"}
  /\ index >= Limit
  /\ Stop("none")

\* Only a constructed element may leave its length open.
UnknownLength ==
  /\ pc = "length"
  /\ index < Limit
  /\ At(index) = Half
  /\ tag[1] \in Constructed
  /\ index' = index + 1
  /\ Open("indefinite", Limit)
  /\ UNCHANGED <<input, tag, length, left>>

UnknownLengthOfPrimitive ==
  /\ pc = "length"
  /\ index < Limit
  /\ At(index) = Half
  /\ tag[1] \notin Constructed
  /\ Stop("none")

ShortLength ==
  /\ pc = "length"
  /\ index < Limit
  /\ At(index) < Half
  /\ length' = At(index) /\ left' = 0
  /\ index' = index + 1
  /\ pc' = "body"
  /\ UNCHANGED <<input, tag, stack>>

LongLength ==
  /\ pc = "length"
  /\ index < Limit
  /\ At(index) > Half
  /\ At(index) - Half <= MaxLengthBytes
  /\ index + 1 + (At(index) - Half) <= Limit
  /\ length' = 0 /\ left' = At(index) - Half
  /\ index' = index + 1
  /\ pc' = "body"
  /\ UNCHANGED <<input, tag, stack>>

LengthTooLong ==
  /\ pc = "length"
  /\ index < Limit
  /\ At(index) > Half
  /\ \/ At(index) - Half > MaxLengthBytes
     \/ index + 1 + (At(index) - Half) > Limit
  /\ Stop("none")

LengthByte ==
  /\ pc = "body"
  /\ left > 0
  /\ length' = (length * Radix + At(index)) % Word
  /\ left' = left - 1
  /\ index' = index + 1
  /\ UNCHANGED <<input, pc, tag, stack>>

\* The sum does not fit: overflow checks panic, and without them the sum
\* falls short of where the slice begins, which panics as well.
SumTooLarge ==
  /\ pc = "body" /\ left = 0
  /\ index + length >= Word
  /\ Stop("panic")

\* Slip: measured by the whole input and not by the element around it.
FaultyFits == index + length <= Len(input)

\* The body is within what is read.
Fits == index + length <= Limit

BodyTooLong ==
  /\ pc = "body" /\ left = 0
  /\ index + length < Word
  /\ ~ Fits
  /\ Stop("none")

PrimitiveBody ==
  /\ pc = "body" /\ left = 0
  /\ index + length < Word
  /\ Fits
  /\ tag[1] \notin Constructed
  /\ Emit(stack, Encoded(tag, SubSeq(input, index + 1, index + length)))
  /\ index' = index + length
  /\ UNCHANGED <<input, tag, length, left>>

ConstructedBody ==
  /\ pc = "body" /\ left = 0
  /\ index + length < Word
  /\ Fits
  /\ tag[1] \in Constructed
  /\ Open("definite", index + length)
  /\ UNCHANGED <<input, index, tag, length, left>>

\* Slip: contents of unknown length may end with what is around them.
FaultyHasChild ==
  IF Top.kind = "definite" THEN index < Limit
  ELSE index + 2 <= Limit /\ ~ (At(index) = 0)

\* There is another element inside the open one.
HasChild ==
  IF Top.kind = "definite" THEN index < Limit
  ELSE index + 2 <= Limit /\ ~ AtEnd

NextChild ==
  /\ pc = "children"
  /\ HasChild
  /\ pc' = "element"
  /\ UNCHANGED <<input, index, tag, length, left, stack>>

EndOfContentsMissing ==
  /\ pc = "children"
  /\ Top.kind = "indefinite"
  /\ index + 2 > Limit
  /\ Stop("none")

\* The last child is read; the length of what they became comes before them.
Close ==
  /\ pc = "children"
  /\ Top.kind = "definite" \/ index + 2 <= Limit
  /\ ~ HasChild
  /\ index' = IF Top.kind = "definite" THEN index ELSE index + 2
  /\ Emit(SubSeq(stack, 1, Len(stack) - 1), Encoded(Top.tag, Top.content))
  /\ UNCHANGED <<input, tag, length, left>>

Next ==
  \/ NoElement \/ StartElement \/ ContinueTag \/ EndOfTagOrLengthMissing
  \/ UnknownLength \/ UnknownLengthOfPrimitive \/ ShortLength \/ LongLength
  \/ LengthTooLong \/ LengthByte \/ SumTooLarge \/ BodyTooLong
  \/ PrimitiveBody \/ ConstructedBody
  \/ NextChild \/ EndOfContentsMissing \/ Close

Spec == Init /\ [][Next]_vars

Result == stack[1].content

-----------------------------------------------------------------------------
\* What X.690 says of an element, without an order of reading: the tag ends
\* at the first byte that is not continued ...
IsTag(from, to) ==
  /\ from < to
  /\ IF At(from) \in LongTag
     THEN /\ to > from + 1
          /\ \A k \in from + 1..to - 1 : At(k) < Half <=> k = to - 1
     ELSE to = from + 1

\* ... the bytes from a position to another say how many bytes follow ...
IsLength(from, to, size) ==
  \/ to = from + 1 /\ size < Half /\ At(from) = size
  \/ /\ to > from + 1 /\ to - from - 1 <= MaxLengthBytes
     /\ At(from) = Half + (to - from - 1)
     /\ Value(SubSeq(input, from + 2, to)) = size

\* ... and so the part of the input from a position to another is one
\* element, or some elements, with these canonical forms: one or none.
Forms(from, to, count) ==
  LET last == Len(input)
      forms[i \in 0..last, e \in 0..last, many \in BOOLEAN] ==
        IF many
        THEN {s \in {<<>>} : i = e} \cup
             UNION {{f \o g : f \in forms[i, m, FALSE], g \in forms[m, e, TRUE]} :
                      m \in i + 1..e}
        ELSE IF i + 2 > e \/ (At(i) = 0 /\ At(i + 1) = 0) THEN {}
        ELSE UNION {{Encoded(SubSeq(input, i + 1, t), content) : content \in
                 UNION {IF At(i) \in Constructed THEN forms[b, e, TRUE]
                        ELSE {SubSeq(input, b + 1, e)} :
                          b \in {p \in t + 1..e : IsLength(t, p, e - p)}}
                 \cup
                 IF /\ At(i) \in Constructed /\ t + 3 <= e /\ At(t) = Half
                    /\ At(e - 2) = 0 /\ At(e - 1) = 0
                 THEN forms[t + 1, e - 2, TRUE] ELSE {}} :
               t \in {p \in i + 1..e - 1 : IsTag(i, p)}}
  IN forms[from, to, count]

(* Whatever form the writer of a signature chose, long or short, known or
   unknown length, the same DER comes out, the bytes behind the element do
   not count, and nothing comes out exactly if no element is there
   (normalized_asn1_first_object). *)
Canonical ==
  pc \in {"done", "none"} =>
    UNION {Forms(0, e, FALSE) : e \in 0..Len(input)}
      = IF pc = "done" THEN {Result} ELSE {}

(* The reader that parses the CMS takes a normalised element for one element
   with nothing behind it, as long as its tag is one byte: nothing of a
   signature is lost between the two (normalized_asn1_first_object,
   Reader::read_tlv). *)
ReaderTakesAll ==
  pc = "done" /\ Result[1] \notin LongTag =>
    /\ ReadTlv(Result).found
    /\ ReadTlv(Result).behind = Len(Result)

(* Reading never leaves the part of the input that belongs to the innermost
   element, and the parts are nested, so that no child reaches behind its
   parent, for every word (normalized_asn1_element). *)
ReadsInside ==
  /\ index <= Limit
  /\ \A k \in 1..Len(stack) - 1 : stack[k + 1].limit <= stack[k].limit
  /\ stack[1].limit = Len(input)
=============================================================================
