----------------------- MODULE DerNormalizationProofs -----------------------
(***************************************************************************)
(* Proofs about DerNormalization, whatever the bytes, the size of a byte   *)
(* and the width of the machine word: it reads inside the element it is    *)
(* in, and the reader of DER takes what it writes for one element with     *)
(* nothing behind it.                                                      *)
(***************************************************************************)
EXTENDS DerNormalization, SequenceTheorems, WellFoundedInduction, TLAPS

\* A frame has its four parts; what the content is does not matter here.
IsFrame(f) ==
  f = [kind |-> f.kind, tag |-> f.tag, limit |-> f.limit, content |-> f.content]

Frames(s) == \E S : s \in Seq(S)

\* The limits of the frames are nested, and the first is the caller's.
Nested(s, last) ==
  /\ Len(s) > 0
  /\ \A k \in 1..Len(s) : IsFrame(s[k]) /\ s[k].limit \in 0..last
  /\ \A k \in 1..Len(s) - 1 : s[k + 1].limit <= s[k].limit
  /\ s[1].limit = last

\* The bytes of a length that are still to come are there.
IInv ==
  /\ input \in Seq(Byte)
  /\ index \in Nat /\ length \in Nat /\ left \in Nat
  /\ Frames(stack)
  /\ Nested(stack, Len(input))
  /\ index <= Limit
  /\ pc = "body" => index + left <= Limit
  /\ pc = "children" => Len(stack) > 1

-----------------------------------------------------------------------------
LEMMA TopOfStack ==
  ASSUME NEW s, NEW last \in Nat, Frames(s), Nested(s, last)
  PROVE  /\ Len(s) \in Nat \ {0}
         /\ s[Len(s)].limit \in 0..last
         /\ \A k \in 1..Len(s) : s[k].limit \in Nat
<1>1. PICK S : s \in Seq(S)
  BY DEF Frames
<1>2. Len(s) \in Nat
  BY <1>1
<1> QED BY <1>2 DEF Nested

\* A new frame within the last one keeps the frames nested.
LEMMA Pushed ==
  ASSUME NEW s, NEW last \in Nat, Frames(s), Nested(s, last),
         NEW f, IsFrame(f), f.limit \in Nat, f.limit <= s[Len(s)].limit
  PROVE  LET next == Append(s, f)
         IN Frames(next) /\ Nested(next, last) /\ Len(next) = Len(s) + 1
            /\ next[Len(next)].limit = f.limit
<1> DEFINE next == Append(s, f)
<1>1. PICK S : s \in Seq(S)
  BY DEF Frames
<1>3. /\ Len(s) \in Nat \ {0} /\ s[Len(s)].limit \in 0..last
      /\ \A k \in 1..Len(s) : s[k].limit \in Nat
  BY TopOfStack
<1>4. /\ next \in Seq(S \cup {f}) /\ Len(next) = Len(s) + 1
      /\ next[Len(s) + 1] = f /\ \A k \in 1..Len(s) : next[k] = s[k]
  BY <1>1
<1> HIDE DEF next
<1>5. Nested(next, last)
  <2>1. \A k \in 1..Len(next) : IsFrame(next[k]) /\ next[k].limit \in 0..last
    <3>1. ASSUME NEW k \in 1..Len(s) PROVE IsFrame(next[k]) /\ next[k].limit \in 0..last
      BY <1>4 DEF Nested
    <3>2. IsFrame(next[Len(s) + 1]) /\ next[Len(s) + 1].limit \in 0..last
      BY <1>3, <1>4
    <3> QED BY <1>3, <1>4, <3>1, <3>2
  <2>2. \A k \in 1..Len(next) - 1 : next[k + 1].limit <= next[k].limit
    BY <1>3, <1>4 DEF Nested
  <2> QED BY <1>3, <1>4, <2>1, <2>2 DEF Nested
<1>6. Frames(next)
  BY <1>4 DEF Frames
<1>7. next[Len(next)].limit = f.limit
  BY <1>4
<1> QED BY <1>4, <1>5, <1>6, <1>7 DEF next

\* Without the last frame they are still nested, in a wider one.
LEMMA Popped ==
  ASSUME NEW s, NEW last \in Nat, Frames(s), Nested(s, last), Len(s) > 1
  PROVE  LET next == SubSeq(s, 1, Len(s) - 1)
         IN Frames(next) /\ Nested(next, last) /\ Len(next) = Len(s) - 1
            /\ s[Len(s)].limit <= next[Len(next)].limit
<1> DEFINE next == SubSeq(s, 1, Len(s) - 1)
<1>1. PICK S : s \in Seq(S)
  BY DEF Frames
<1>2. Len(s) \in Nat
  BY <1>1
<1>3. /\ next \in Seq(S) /\ Len(next) = Len(s) - 1
      /\ \A k \in 1..Len(s) - 1 : next[k] = s[k]
  BY <1>1, <1>2
<1>4. Frames(next)
  BY <1>3 DEF Frames
<1> HIDE DEF next
<1>5. Nested(next, last)
  BY <1>2, <1>3 DEF Nested
<1>6. s[Len(s)].limit <= next[Len(next)].limit
  <2>1. s[(Len(s) - 1) + 1].limit <= s[Len(s) - 1].limit
    BY <1>2 DEF Nested
  <2> QED BY <1>2, <1>3, <2>1
<1> QED BY <1>3, <1>4, <1>5, <1>6 DEF next

LEMMA FrameFilled ==
  ASSUME NEW f, IsFrame(f), NEW x
  PROVE  IsFrame([f EXCEPT !.content = x]) /\ [f EXCEPT !.content = x].limit = f.limit
<1>1. PICK a, b, c, d : f = [kind |-> a, tag |-> b, limit |-> c, content |-> d]
  BY Zenon DEF IsFrame
<1>2. [f EXCEPT !.content = x] = [kind |-> a, tag |-> b, limit |-> c, content |-> x]
  BY <1>1
<1> QED BY <1>1, <1>2 DEF IsFrame

\* An element that goes into the last frame leaves all limits alone.
LEMMA Filled ==
  ASSUME NEW s, NEW last \in Nat, Frames(s), Nested(s, last), NEW element
  PROVE  LET next == [s EXCEPT ![Len(s)].content = @ \o element]
         IN Frames(next) /\ Nested(next, last) /\ Len(next) = Len(s)
            /\ next[Len(next)].limit = s[Len(s)].limit
<1> DEFINE n == Len(s)
           filled == [s[n] EXCEPT !.content = @ \o element]
           next == [s EXCEPT ![n].content = @ \o element]
<1>1. PICK S : s \in Seq(S)
  BY DEF Frames
<1>2. n \in Nat \ {0} /\ IsFrame(s[n])
  BY TopOfStack DEF Nested
<1>3. IsFrame(filled) /\ filled.limit = s[n].limit
  BY <1>2, FrameFilled
<1>4. next = [s EXCEPT ![n] = filled]
  OBVIOUS
<1> HIDE DEF filled, next
<1>5. /\ next \in Seq(S \cup {filled}) /\ Len(next) = n /\ next[n] = filled
      /\ \A k \in 1..n : k # n => next[k] = s[k]
  <2>1. s \in Seq(S \cup {filled})
    BY <1>1
  <2> QED BY <1>1, <1>2, <1>4, <2>1
<1>6. Frames(next)
  BY <1>5 DEF Frames
<1>7. \A k \in 1..n : next[k].limit = s[k].limit /\ IsFrame(next[k])
  BY <1>2, <1>3, <1>5 DEF Nested
<1> HIDE DEF n
<1>8. Nested(next, last)
  BY <1>2, <1>5, <1>7 DEF Nested, n
<1> QED BY <1>2, <1>5, <1>6, <1>7, <1>8 DEF n, next

-----------------------------------------------------------------------------
\* What is read before the limit is a byte.
LEMMA ByteRead ==
  ASSUME IInv, index < Limit
  PROVE  At(index) \in Nat /\ Limit \in 0..Len(input) /\ Len(input) \in Nat
<1>1. Limit \in 0..Len(input) /\ Len(input) \in Nat
  BY TopOfStack DEF IInv, Limit, Top
<1>2. index + 1 \in 1..Len(input)
  BY <1>1 DEF IInv
<1>3. At(index) \in Byte
  BY <1>2 DEF IInv, At
<1> QED BY <1>1, <1>3, HalfAssumption DEF Byte

LEMMA Initially == Init => IInv
<1> SUFFICES ASSUME Init PROVE IInv
  OBVIOUS
<1> DEFINE root == [kind |-> "root", tag |-> <<>>, limit |-> Len(input), content |-> <<>>]
<1>1. /\ input \in Seq(Byte) /\ Len(input) \in Nat
      /\ index = 0 /\ length = 0 /\ left = 0 /\ pc = "element"
      /\ stack = <<root>>
  BY InputsAssumption DEF Init
<1>2. IsFrame(root) /\ root.limit = Len(input)
  BY DEF IsFrame
<1> HIDE DEF root
<1>3. Len(stack) = 1 /\ stack[1] = root /\ stack \in Seq({root})
  BY <1>1
<1>4. Frames(stack)
  BY <1>3 DEF Frames
<1>5. Nested(stack, Len(input))
  BY <1>1, <1>2, <1>3 DEF Nested
<1>6. Limit = Len(input)
  BY <1>2, <1>3 DEF Limit, Top
<1> QED BY <1>1, <1>4, <1>5, <1>6 DEF IInv

\* Steps that read on within the same frame.
LEMMA SameFrames ==
  ASSUME IInv, UNCHANGED <<input, stack>>,
         index' \in Nat, length' \in Nat, left' \in Nat, index' <= Limit,
         pc' = "body" => index' + left' <= Limit,
         pc' = "children" => pc = "children"
  PROVE  IInv'
BY DEF IInv, Limit, Top

\* Steps that give an element to the frame around it.
LEMMA Given ==
  ASSUME IInv, NEW frames, NEW element, Emit(frames, element),
         Frames(frames), Nested(frames, Len(input)),
         UNCHANGED <<input, length, left>>,
         index' \in Nat, index' <= frames[Len(frames)].limit
  PROVE  IInv'
<1>1. Len(input) \in Nat /\ Len(frames) \in Nat \ {0}
  BY TopOfStack DEF IInv
<1>2. /\ Frames(stack') /\ Nested(stack', Len(input)) /\ Len(stack') = Len(frames)
      /\ stack'[Len(stack')].limit = frames[Len(frames)].limit
  BY <1>1, Filled DEF Emit
<1>3. pc' \in {"done", "children"} /\ (pc' = "children" => Len(stack') > 1)
  BY <1>1, <1>2 DEF Emit
<1> QED BY <1>2, <1>3 DEF IInv, Limit, Top

\* Steps that open a frame within the last one.
LEMMA Opened ==
  ASSUME IInv, NEW kind, NEW limit \in Nat, Open(kind, limit), limit <= Limit,
         UNCHANGED <<input, length, left>>,
         index' \in Nat, index' <= limit
  PROVE  IInv'
<1>1. Len(input) \in Nat /\ Len(stack) \in Nat \ {0}
  BY TopOfStack DEF IInv
<1>2. /\ Frames(stack') /\ Nested(stack', Len(input)) /\ Len(stack') = Len(stack) + 1
      /\ stack'[Len(stack')].limit = limit
  <2>1. Frames(stack) /\ Nested(stack, Len(input)) /\ limit <= stack[Len(stack)].limit
    BY DEF IInv, Limit, Top
  <2> DEFINE f == [kind |-> kind, tag |-> tag, limit |-> limit, content |-> <<>>]
  <2>2. IsFrame(f) /\ f.limit = limit
    BY DEF IsFrame
  <2>3. stack' = Append(stack, f)
    BY DEF Open
  <2> HIDE DEF f
  <2> QED BY <1>1, <2>1, <2>2, <2>3, Pushed
<1>3. pc' = "children"
  BY DEF Open
<1> QED BY <1>1, <1>2, <1>3 DEF IInv, Limit, Top

LEMMA Step == IInv /\ [Next]_vars => IInv'
<1> SUFFICES ASSUME IInv, [Next]_vars PROVE IInv'
  OBVIOUS
<1>0. /\ index \in Nat /\ length \in Nat /\ left \in Nat /\ Limit \in Nat
      /\ Len(input) \in Nat /\ index <= Limit
  BY TopOfStack DEF IInv, Limit, Top
<1>1. ASSUME NEW how \in {"none", "panic"}, Stop(how) PROVE IInv'
  BY <1>0, <1>1, SameFrames DEF Stop
<1>2. CASE NoElement \/ EndOfTagOrLengthMissing \/ UnknownLengthOfPrimitive \/ LengthTooLong
           \/ SumTooLarge \/ BodyTooLong \/ EndOfContentsMissing
  BY <1>1, <1>2 DEF NoElement, EndOfTagOrLengthMissing, UnknownLengthOfPrimitive, LengthTooLong,
                    SumTooLarge, BodyTooLong, EndOfContentsMissing
<1>3. CASE StartElement
  BY <1>0, <1>3, SameFrames DEF StartElement
<1>4. CASE ContinueTag
  BY <1>0, <1>4, SameFrames DEF ContinueTag
<1>5. CASE UnknownLength
  BY <1>0, <1>5, Opened DEF UnknownLength
<1>6. CASE ShortLength
  <2>1. At(index) \in Nat
    BY <1>6, ByteRead DEF ShortLength
  <2> QED BY <1>0, <1>6, <2>1, SameFrames DEF ShortLength
<1>7. CASE LongLength
  <2>1. At(index) \in Nat /\ At(index) - Half \in Nat
    BY <1>7, ByteRead, HalfAssumption DEF LongLength
  <2>2. /\ index' = index + 1 /\ length' = 0 /\ left' = At(index) - Half /\ pc' = "body"
        /\ UNCHANGED <<input, stack>> /\ index + 1 + (At(index) - Half) <= Limit
    BY <1>7 DEF LongLength
  <2>3. index' + left' <= Limit /\ index' <= Limit
    BY <1>0, <2>1, <2>2
  <2> QED BY <1>0, <2>1, <2>2, <2>3, SameFrames
<1>8. CASE LengthByte
  <2>1. /\ pc = "body" /\ left > 0 /\ length' = (length * Radix + At(index)) % Word
        /\ left' = left - 1 /\ index' = index + 1 /\ pc' = pc /\ UNCHANGED <<input, stack>>
    BY <1>8 DEF LengthByte
  <2>2. index + left <= Limit /\ index < Limit
    BY <1>0, <2>1 DEF IInv
  <2>3. At(index) \in Nat
    BY <2>2, ByteRead
  <2>4. length * Radix + At(index) \in Nat
    BY <1>0, <2>3, HalfAssumption
  <2>5. length' \in Nat
    BY <2>1, <2>4, WordAssumption
  <2> QED BY <1>0, <2>1, <2>2, <2>5, SameFrames
<1>9. CASE PrimitiveBody
  BY <1>0, <1>9, Given DEF PrimitiveBody, Fits, Limit, Top, IInv
<1>10. CASE ConstructedBody
  BY <1>0, <1>10, Opened DEF ConstructedBody, Fits
<1>11. CASE NextChild
  BY <1>0, <1>11, SameFrames DEF NextChild
<1>12. CASE Close
  <2> DEFINE frames == SubSeq(stack, 1, Len(stack) - 1)
  <2>1. /\ pc = "children" /\ UNCHANGED <<input, length, left>>
        /\ Emit(frames, Encoded(Top.tag, Top.content))
        /\ index' = IF Top.kind = "definite" THEN index ELSE index + 2
        /\ Top.kind = "definite" \/ index + 2 <= Limit
    BY <1>12 DEF Close
  <2>2. /\ Frames(frames) /\ Nested(frames, Len(input))
        /\ Limit <= frames[Len(frames)].limit
    BY <1>0, <2>1, Popped DEF IInv, Limit, Top
  <2>3. frames[Len(frames)].limit \in Nat
    <3> HIDE DEF frames
    <3>1. frames[Len(frames)].limit \in 0..Len(input)
      BY <1>0, <2>2, TopOfStack
    <3> QED BY <1>0, <3>1
  <2> HIDE DEF frames
  <2>4. index' \in Nat /\ index' <= frames[Len(frames)].limit
    BY <1>0, <2>1, <2>2, <2>3
  <2> QED BY <2>1, <2>2, <2>4, Given
<1>13. CASE UNCHANGED vars
  BY <1>13 DEF vars, IInv, Limit, Top
<1> QED BY <1>2, <1>3, <1>4, <1>5, <1>6, <1>7, <1>8, <1>9, <1>10, <1>11, <1>12, <1>13 DEF Next

(* Reading never leaves the innermost open element, and the elements are
   nested within the input, for all bytes, all sizes of a byte and all widths
   of the machine word (normalized_asn1_element). *)
THEOREM AlwaysReadsInside == Spec => []ReadsInside
<1>1. IInv => ReadsInside
  BY DEF IInv, Nested, ReadsInside
<1> QED BY <1>1, Initially, Step, PTL DEF Spec
-----------------------------------------------------------------------------
(* The least of a set of numbers.                                          *)

NatLess == {pair \in Nat \X Nat : pair[1] < pair[2]}

LEMMA NatLessWellFounded == IsWellFoundedOn(NatLess, Nat)
BY NatLessThanWellFounded, Zenon DEF OpToRel, NatLess

LEMMA LeastNatural ==
  ASSUME NEW S, S \subseteq Nat, S # {}
  PROVE  \E x \in S : \A y \in S : x <= y
<1>1. PICK x \in S : \A y \in S : ~ (<<y, x>> \in NatLess)
  BY NatLessWellFounded, WFMin
<1>2. ASSUME NEW y \in S PROVE x <= y
  <2>1. <<y, x>> \in Nat \X Nat
    OBVIOUS
  <2>2. ~ (y < x)
    BY <1>1, <2>1 DEF NatLess
  <2> QED BY <2>2
<1> QED BY <1>1, <1>2

-----------------------------------------------------------------------------
(* The digits of a number.                                                 *)

LEMMA RadixIsMoreThanOne == Radix \in Nat /\ Radix > 1 /\ Half \in Nat /\ Half > 0
BY HalfAssumption

LEMMA DivMod ==
  ASSUME NEW n \in Nat
  PROVE  /\ n \div Radix \in Nat /\ (n % Radix) \in Nat
         /\ n = (n \div Radix) * Radix + (n % Radix)
         /\ n > 0 => n \div Radix < n
BY RadixIsMoreThanOne

LEMMA DivMonotone ==
  ASSUME NEW a \in Nat, NEW b \in Nat, a <= b
  PROVE  a \div Radix <= b \div Radix
BY RadixIsMoreThanOne

\* The function that Digits names, up to a number.
DigitsUpTo(f, last) ==
  f = [n \in 0..last |-> IF n = 0 THEN <<>> ELSE Append(f[n \div Radix], n % Radix)]

LEMMA DigitsExist ==
  ASSUME NEW last \in Nat
  PROVE  \E f : DigitsUpTo(f, last)
<1> DEFINE S == {n \in Nat : ~ \E f : DigitsUpTo(f, n)}
<1> SUFFICES ASSUME S # {} PROVE FALSE
  OBVIOUS
<1>1. PICK m \in S : \A k \in S : m <= k
  <2> S \subseteq Nat  OBVIOUS
  <2> HIDE DEF S
  <2> QED BY LeastNatural
<1>2. m \in Nat /\ ~ \E f : DigitsUpTo(f, m)
  BY <1>1
<1>3. CASE m = 0
  <2> DEFINE f == [n \in 0..0 |-> <<>>]
  <2>1. DigitsUpTo(f, 0)
    BY DEF DigitsUpTo
  <2> QED BY <1>2, <1>3, <2>1
<1>4. CASE m > 0
  <2>1. m - 1 \in Nat /\ ~ (m - 1 \in S)
    BY <1>1, <1>2, <1>4
  <2>2. PICK f : DigitsUpTo(f, m - 1)
    BY <2>1
  <2> DEFINE g == [n \in 0..m |-> IF n = m THEN Append(f[m \div Radix], m % Radix) ELSE f[n]]
  <2>3. ASSUME NEW n \in 0..m
        PROVE  g[n] = IF n = 0 THEN <<>> ELSE Append(g[n \div Radix], n % Radix)
    <3>1. n > 0 => n \div Radix \in 0..n - 1
      BY <1>2, DivMod
    <3>2. CASE n = m
      <4>1. g[n] = Append(f[m \div Radix], m % Radix) /\ n \div Radix \in 0..m - 1
        BY <1>2, <1>4, <3>1, <3>2
      <4>2. g[n \div Radix] = f[n \div Radix]
        BY <1>2, <4>1
      <4>3. n > 0 /\ n % Radix = m % Radix /\ n \div Radix = m \div Radix
        BY <1>4, <3>2
      <4> HIDE DEF g
      <4>4. g[n] = Append(g[n \div Radix], n % Radix)
        BY <4>1, <4>2, <4>3
      <4> QED BY <4>3, <4>4
    <3>3. CASE n # m
      <4>1. n \in 0..m - 1 /\ g[n] = f[n]
        BY <1>2, <3>3
      <4>2. f[n] = IF n = 0 THEN <<>> ELSE Append(f[n \div Radix], n % Radix)
        BY <2>2, <4>1 DEF DigitsUpTo
      <4>3. n > 0 => g[n \div Radix] = f[n \div Radix]
        BY <1>2, <3>1, <4>1
      <4> QED BY <4>1, <4>2, <4>3
    <3> QED BY <3>2, <3>3
  <2>4. g = [n \in 0..m |-> IF n = 0 THEN <<>> ELSE Append(g[n \div Radix], n % Radix)]
    <3> DEFINE h == [n \in 0..m |-> IF n = 0 THEN <<>> ELSE Append(g[n \div Radix], n % Radix)]
    <3>1. \A n \in 0..m : g[n] = h[n]
      BY <2>3
    <3>2. DOMAIN g = 0..m /\ g = [n \in 0..m |-> g[n]] /\ h = [n \in 0..m |-> h[n]]
      OBVIOUS
    <3> HIDE DEF g, h
    <3>3. g = h
      BY <3>1, <3>2
    <3> QED BY <3>3 DEF h
  <2>5. DigitsUpTo(g, m)
    BY <2>4 DEF DigitsUpTo
  <2> QED BY <1>2, <2>5
<1> QED BY <1>2, <1>3, <1>4

LEMMA DigitsAgree ==
  ASSUME NEW a \in Nat, NEW b \in Nat, NEW f, NEW g, DigitsUpTo(f, a), DigitsUpTo(g, b),
         NEW n \in Nat, n <= a, n <= b
  PROVE  f[n] = g[n]
<1> DEFINE S == {k \in Nat : k <= a /\ k <= b /\ f[k] # g[k]}
<1> SUFFICES ASSUME S # {} PROVE FALSE
  OBVIOUS
<1>1. PICK m \in S : \A k \in S : m <= k
  <2> S \subseteq Nat  OBVIOUS
  <2> HIDE DEF S
  <2> QED BY LeastNatural
<1>2. m \in Nat /\ m <= a /\ m <= b /\ f[m] # g[m]
  BY <1>1
<1>3. /\ f[m] = IF m = 0 THEN <<>> ELSE Append(f[m \div Radix], m % Radix)
      /\ g[m] = IF m = 0 THEN <<>> ELSE Append(g[m \div Radix], m % Radix)
  <2>1. m \in 0..a /\ m \in 0..b
    BY <1>2
  <2> QED BY <2>1 DEF DigitsUpTo
<1>4. m > 0 /\ f[m \div Radix] # g[m \div Radix]
  BY <1>2, <1>3
<1>5. m \div Radix \in Nat /\ m \div Radix < m
  BY <1>2, <1>4, DivMod
<1>6. m \div Radix \in S
  BY <1>2, <1>4, <1>5
<1> QED BY <1>1, <1>2, <1>5, <1>6

\* What Digits computes, digit by digit.
LEMMA DigitsOf ==
  ASSUME NEW n \in Nat
  PROVE  /\ n = 0 => Digits(n) = <<>>
         /\ n > 0 => Digits(n) = Append(Digits(n \div Radix), n % Radix)
<1> DEFINE f == CHOOSE f : DigitsUpTo(f, n)
           g == CHOOSE g : DigitsUpTo(g, n \div Radix)
<1>1. DigitsUpTo(f, n) /\ Digits(n) = f[n]
  BY DigitsExist, Zenon DEF Digits, DigitsUpTo
<1>2. n \div Radix \in Nat /\ (n > 0 => n \div Radix < n)
  BY DivMod
<1>3. DigitsUpTo(g, n \div Radix) /\ Digits(n \div Radix) = g[n \div Radix]
  BY <1>2, DigitsExist, Zenon DEF Digits, DigitsUpTo
<1> HIDE DEF f, g
<1>4. n > 0 => f[n \div Radix] = g[n \div Radix]
  <2> SUFFICES ASSUME n > 0 PROVE f[n \div Radix] = g[n \div Radix]
    OBVIOUS
  <2> DEFINE q == n \div Radix
  <2>1. q \in Nat /\ q <= n /\ q <= q /\ DigitsUpTo(g, q)
    BY <1>2, <1>3
  <2> HIDE DEF q
  <2>2. f[q] = g[q]
    BY <1>1, <2>1, DigitsAgree
  <2> QED BY <2>2 DEF q
<1>5. /\ n = 0 => f[n] = <<>>
      /\ n > 0 => f[n] = Append(f[n \div Radix], n % Radix)
  <2>1. n \in 0..n
    OBVIOUS
  <2>2. f[n] = IF n = 0 THEN <<>> ELSE Append(f[n \div Radix], n % Radix)
    BY <1>1, <2>1, Zenon DEF DigitsUpTo
  <2> QED BY <2>2
<1> QED BY <1>1, <1>3, <1>4, <1>5

LEMMA DigitsAreNumbers ==
  ASSUME NEW n \in Nat
  PROVE  Digits(n) \in Seq(Nat) /\ (n > 0 => Len(Digits(n)) > 0)
<1> DEFINE S == {k \in Nat : ~ (Digits(k) \in Seq(Nat))}
<1>1. S = {}
  <2> SUFFICES ASSUME S # {} PROVE FALSE
    OBVIOUS
  <2>1. PICK m \in S : \A k \in S : m <= k
    <3> S \subseteq Nat  OBVIOUS
    <3> HIDE DEF S
    <3> QED BY LeastNatural
  <2>2. m \in Nat /\ ~ (Digits(m) \in Seq(Nat))
    BY <2>1
  <2>3. CASE m = 0
    <3> HIDE DEF S
    <3>1. Digits(m) = <<>>
      BY <2>2, <2>3, DigitsOf
    <3> QED BY <2>2, <3>1
  <2>4. CASE m > 0
    <3>1. /\ m \div Radix \in Nat /\ m \div Radix < m /\ (m % Radix) \in Nat
      BY <2>2, <2>4, DivMod
    <3>2. Digits(m \div Radix) \in Seq(Nat)
      BY <2>1, <2>2, <3>1
    <3> HIDE DEF S
    <3>3. Digits(m) = Append(Digits(m \div Radix), m % Radix)
      BY <2>2, <2>4, DigitsOf
    <3> QED BY <2>2, <3>1, <3>2, <3>3
  <2> QED BY <2>2, <2>3, <2>4
<1>2. \A k \in Nat : Digits(k) \in Seq(Nat)
  BY <1>1
<1>3. n > 0 => Len(Digits(n)) > 0
  BY <1>2, DivMod, DigitsOf
<1> QED BY <1>2, <1>3

\* A larger number has no fewer digits.
LEMMA DigitsGrow ==
  ASSUME NEW a \in Nat, NEW b \in Nat, a <= b
  PROVE  Len(Digits(a)) <= Len(Digits(b))
<1> DEFINE S == {k \in Nat : \E j \in Nat : k <= j /\ ~ (Len(Digits(k)) <= Len(Digits(j)))}
<1> SUFFICES ASSUME S # {} PROVE FALSE
  OBVIOUS
<1>1. PICK m \in S : \A k \in S : m <= k
  <2> S \subseteq Nat  OBVIOUS
  <2> HIDE DEF S
  <2> QED BY LeastNatural
<1>2. PICK j \in Nat : m <= j /\ ~ (Len(Digits(m)) <= Len(Digits(j)))
  BY <1>1
<1>3. m \in Nat
  BY <1>1
<1>4. CASE m = 0
  <2>1. Digits(m) = <<>> /\ Digits(j) \in Seq(Nat)
    BY <1>3, <1>4, DigitsOf, DigitsAreNumbers
  <2> QED BY <1>2, <2>1
<1>5. CASE m > 0
  <2>1. /\ m \div Radix \in Nat /\ j \div Radix \in Nat /\ m \div Radix < m
        /\ m \div Radix <= j \div Radix
    BY <1>2, <1>3, <1>5, DivMod, DivMonotone
  <2>2. Len(Digits(m \div Radix)) <= Len(Digits(j \div Radix))
    <3>1. ~ (m \div Radix \in S)
      BY <1>1, <1>3, <2>1
    <3> QED BY <2>1, <3>1
  <2>3. /\ Digits(m) = Append(Digits(m \div Radix), m % Radix)
        /\ Digits(j) = Append(Digits(j \div Radix), j % Radix)
        /\ Digits(m \div Radix) \in Seq(Nat) /\ Digits(j \div Radix) \in Seq(Nat)
    <3> HIDE DEF S
    <3>1. j > 0
      BY <1>2, <1>3, <1>5
    <3>2. Digits(m) = Append(Digits(m \div Radix), m % Radix)
      BY <1>3, <1>5, DigitsOf
    <3>3. Digits(j) = Append(Digits(j \div Radix), j % Radix)
      BY <3>1, DigitsOf
    <3> QED BY <2>1, <3>2, <3>3, DigitsAreNumbers
  <2>4. /\ Len(Digits(m)) = Len(Digits(m \div Radix)) + 1
        /\ Len(Digits(j)) = Len(Digits(j \div Radix)) + 1
    BY <2>3
  <2>5. Len(Digits(m \div Radix)) \in Nat /\ Len(Digits(j \div Radix)) \in Nat
    BY <2>3
  <2> QED BY <1>2, <2>2, <2>4, <2>5
<1> QED BY <1>3, <1>4, <1>5

-----------------------------------------------------------------------------
(* The number that bytes stand for.                                        *)

\* The function that Value names, for the first bytes.
ValueUpTo(v, s, last) ==
  v = [k \in 0..last |-> IF k = 0 THEN 0 ELSE (v[k - 1] * Radix + s[k]) % Word]

LEMMA ValueSteps ==
  ASSUME NEW s, NEW last \in Nat, NEW v, ValueUpTo(v, s, last)
  PROVE  /\ v[0] = 0
         /\ \A k \in 1..last : v[k] = (v[k - 1] * Radix + s[k]) % Word
<1>1. \A k \in 0..last : v[k] = IF k = 0 THEN 0 ELSE (v[k - 1] * Radix + s[k]) % Word
  BY Zenon DEF ValueUpTo
<1>2. 0 \in 0..last
  OBVIOUS
<1>3. v[0] = 0
  BY <1>1, <1>2, Zenon
<1>4. ASSUME NEW k \in 1..last PROVE v[k] = (v[k - 1] * Radix + s[k]) % Word
  <2>1. k \in 0..last /\ k # 0
    OBVIOUS
  <2> QED BY <1>1, <2>1, Zenon
<1> QED BY <1>3, <1>4

LEMMA ValueExists ==
  ASSUME NEW s, NEW last \in Nat
  PROVE  \E v : ValueUpTo(v, s, last)
<1> DEFINE S == {n \in Nat : ~ \E v : ValueUpTo(v, s, n)}
<1> SUFFICES ASSUME S # {} PROVE FALSE
  OBVIOUS
<1>1. PICK m \in S : \A k \in S : m <= k
  <2> S \subseteq Nat  OBVIOUS
  <2> HIDE DEF S
  <2> QED BY LeastNatural
<1>2. m \in Nat /\ ~ \E v : ValueUpTo(v, s, m)
  BY <1>1
<1>3. CASE m = 0
  <2> DEFINE v == [k \in 0..0 |-> 0]
  <2>1. ValueUpTo(v, s, 0)
    BY DEF ValueUpTo
  <2> QED BY <1>2, <1>3, <2>1
<1>4. CASE m > 0
  <2>1. m - 1 \in Nat /\ ~ (m - 1 \in S)
    BY <1>1, <1>2, <1>4
  <2>2. PICK v : ValueUpTo(v, s, m - 1)
    BY <2>1
  <2> DEFINE w == [k \in 0..m |-> IF k = m THEN (v[m - 1] * Radix + s[m]) % Word ELSE v[k]]
             h == [k \in 0..m |-> IF k = 0 THEN 0 ELSE (w[k - 1] * Radix + s[k]) % Word]
  <2>3. ASSUME NEW k \in 0..m PROVE w[k] = h[k]
    <3>1. CASE k = m
      <4>1. m - 1 \in 0..m /\ m - 1 # m
        BY <1>2, <1>4
      <4>2. w[m - 1] = v[m - 1]
        BY <4>1
      <4>3. w[k] = (v[m - 1] * Radix + s[m]) % Word /\ h[k] = (w[k - 1] * Radix + s[k]) % Word
        BY <1>4, <3>1
      <4> QED BY <3>1, <4>2, <4>3
    <3>2. CASE k # m /\ k = 0
      <4>1. w[k] = v[0] /\ h[k] = 0
        BY <3>2
      <4> QED BY <2>1, <2>2, <4>1, ValueSteps
    <3>3. CASE k # m /\ k # 0
      <4>1. k \in 1..m - 1 /\ k - 1 \in 0..m /\ k - 1 # m
        BY <1>2, <3>3
      <4>2. w[k] = v[k] /\ w[k - 1] = v[k - 1]
        BY <3>3, <4>1
      <4>3. h[k] = (w[k - 1] * Radix + s[k]) % Word
        BY <3>3
      <4>4. v[k] = (v[k - 1] * Radix + s[k]) % Word
        BY <2>1, <2>2, <4>1, ValueSteps
      <4> QED BY <4>2, <4>3, <4>4
    <3> QED BY <3>1, <3>2, <3>3
  <2>4. DOMAIN w = 0..m /\ DOMAIN h = 0..m /\ w = [k \in 0..m |-> w[k]] /\ h = [k \in 0..m |-> h[k]]
    OBVIOUS
  <2>5. w = h
    <3> HIDE DEF w, h
    <3> QED BY <2>3, <2>4
  <2>6. ValueUpTo(w, s, m)
    <3>1. h = [k \in 0..m |-> IF k = 0 THEN 0 ELSE (w[k - 1] * Radix + s[k]) % Word]
      OBVIOUS
    <3> HIDE DEF w, h
    <3> QED BY <2>5, <3>1, Zenon DEF ValueUpTo
  <2> QED BY <1>2, <2>6
<1> QED BY <1>2, <1>3, <1>4

\* The first bytes decide, whatever follows them.
LEMMA ValuesAgree ==
  ASSUME NEW s \in Seq(Nat), NEW x \in Nat,
         NEW v, ValueUpTo(v, s, Len(s)), NEW w, ValueUpTo(w, Append(s, x), Len(s) + 1)
  PROVE  v[Len(s)] = w[Len(s)]
<1> DEFINE a == Len(s)
           b == Len(s) + 1
           t == Append(s, x)
<1>0. /\ a \in Nat /\ b \in Nat /\ a <= b /\ \A k \in 1..a : s[k] = t[k]
      /\ ValueUpTo(v, s, a) /\ ValueUpTo(w, t, b)
  <2>1. a \in Nat /\ b \in Nat /\ a <= b /\ \A k \in 1..a : s[k] = t[k]
    OBVIOUS
  <2>2. ValueUpTo(v, s, a) /\ ValueUpTo(w, t, b)
    BY Zenon DEF a, b, t
  <2> QED BY <2>1, <2>2
<1> HIDE DEF a, b, t
<1>8. v[a] = w[a] => v[Len(s)] = w[Len(s)]
  BY Zenon DEF a
<1> SUFFICES v[a] = w[a]
  BY <1>8, Zenon
<1> DEFINE S == {k \in Nat : k <= a /\ v[k] # w[k]}
<1> SUFFICES ASSUME S # {} PROVE FALSE
  BY <1>0
<1>1. PICK m \in S : \A k \in S : m <= k
  <2> S \subseteq Nat  OBVIOUS
  <2> HIDE DEF S
  <2> QED BY LeastNatural
<1>2. m \in Nat /\ m <= a /\ v[m] # w[m]
  BY <1>1
<1>3. /\ v[0] = 0 /\ w[0] = 0
      /\ \A k \in 1..a : v[k] = (v[k - 1] * Radix + s[k]) % Word
      /\ \A k \in 1..b : w[k] = (w[k - 1] * Radix + t[k]) % Word
  BY <1>0, ValueSteps
<1>4. m > 0
  BY <1>2, <1>3
<1>5. m \in 1..a /\ m \in 1..b /\ m - 1 \in Nat /\ m - 1 <= a
  BY <1>0, <1>2, <1>4
<1>6. v[m - 1] # w[m - 1]
  BY <1>0, <1>2, <1>3, <1>5
<1>7. m - 1 \in S
  BY <1>5, <1>6
<1> QED BY <1>1, <1>2, <1>7

LEMMA ValueIs ==
  ASSUME NEW s, Len(s) \in Nat
  PROVE  \E v : ValueUpTo(v, s, Len(s)) /\ Value(s) = v[Len(s)]
<1>1. \E v : ValueUpTo(v, s, Len(s))
  BY ValueExists
<1>2. ValueUpTo(CHOOSE v : ValueUpTo(v, s, Len(s)), s, Len(s))
  BY <1>1, Zenon
<1>3. Value(s) = (CHOOSE v : ValueUpTo(v, s, Len(s)))[Len(s)]
  BY Zenon DEF Value, ValueUpTo
<1> QED BY <1>2, <1>3, Zenon

LEMMA ValueOfAppend ==
  ASSUME NEW s \in Seq(Nat), NEW b \in Nat
  PROVE  /\ Value(<<>>) = 0
         /\ Value(Append(s, b)) = (Value(s) * Radix + b) % Word
<1> DEFINE t == Append(s, b)
           n == Len(s)
<1>1. /\ n \in Nat /\ t \in Seq(Nat) /\ Len(t) = n + 1 /\ t[n + 1] = b
      /\ \A k \in 1..n : t[k] = s[k]
  OBVIOUS
<1> HIDE DEF t
<1>2. PICK v : ValueUpTo(v, s, Len(s)) /\ Value(s) = v[Len(s)]
  BY <1>1, ValueIs
<1>3. PICK w : ValueUpTo(w, t, Len(t)) /\ Value(t) = w[Len(t)]
  BY <1>1, ValueIs
<1>4. Len(<<>>) = 0 /\ Len(<<>>) \in Nat
  OBVIOUS
<1>40. PICK z : ValueUpTo(z, <<>>, Len(<<>>)) /\ Value(<<>>) = z[Len(<<>>)]
  BY <1>4, ValueIs
<1>5. Value(<<>>) = 0
  <2>1. ValueUpTo(z, <<>>, 0)
    BY <1>4, <1>40, Zenon
  <2>2. z[0] = 0
    BY <2>1, ValueSteps
  <2> QED BY <1>4, <1>40, <2>2, Zenon
<1>6. v[n] = w[n]
  <2>1. ValueUpTo(w, Append(s, b), Len(s) + 1)
    BY <1>1, <1>3 DEF t
  <2> QED BY <1>2, <2>1, ValuesAgree
<1>7. w[n + 1] = (w[n] * Radix + t[n + 1]) % Word
  <2> HIDE DEF n
  <2>1. ValueUpTo(w, t, n + 1) /\ n + 1 \in Nat /\ n + 1 \in 1..n + 1 /\ (n + 1) - 1 = n
    BY <1>1, <1>3
  <2>2. w[n + 1] = (w[(n + 1) - 1] * Radix + t[n + 1]) % Word
    BY <2>1, ValueSteps
  <2> QED BY <2>1, <2>2
<1> QED BY <1>1, <1>2, <1>3, <1>5, <1>6, <1>7 DEF t

\* Reading the digits of a number gives the number, if it fits into a word.
LEMMA ValueOfDigits ==
  ASSUME NEW n \in Nat, n < Word
  PROVE  Value(Digits(n)) = n
<1> DEFINE S == {k \in Nat : k < Word /\ Value(Digits(k)) # k}
<1> SUFFICES ASSUME S # {} PROVE FALSE
  OBVIOUS
<1>1. PICK m \in S : \A k \in S : m <= k
  <2> S \subseteq Nat  OBVIOUS
  <2> HIDE DEF S
  <2> QED BY LeastNatural
<1>2. m \in Nat /\ m < Word /\ Value(Digits(m)) # m
  BY <1>1
<1>3. CASE m = 0
  <2>1. Digits(0) = <<>> /\ <<>> \in Seq(Nat)
    BY DigitsOf
  <2> QED BY <1>2, <1>3, <2>1, ValueOfAppend
<1>4. CASE m > 0
  <2> DEFINE q == m \div Radix
             r == m % Radix
  <2>1. q \in Nat /\ r \in Nat /\ m = q * Radix + r /\ q < m
    BY <1>2, <1>4, DivMod
  <2>2. Digits(m) = Append(Digits(q), r)
    BY <1>2, <1>4, DigitsOf
  <2> HIDE DEF q, r
  <2>3. Value(Digits(q)) = q
    BY <1>1, <1>2, <2>1, WordAssumption
  <2>4. Value(Digits(m)) = (q * Radix + r) % Word
    <3>1. Digits(q) \in Seq(Nat)
      BY <2>1, DigitsAreNumbers
    <3> QED BY <2>1, <2>2, <2>3, <3>1, ValueOfAppend
  <2>5. m % Word = m
    BY <1>2, WordAssumption
  <2> QED BY <1>2, <2>1, <2>4, <2>5
<1> QED BY <1>2, <1>3, <1>4

-----------------------------------------------------------------------------
(* An element in DER.                                                      *)

\* One byte, or more if the first says so.
IsTagBytes(t) ==
  t \in Seq(Nat) /\ Len(t) > 0 /\ (t[1] \notin LongTag => Len(t) = 1)

LEMMA JoinedBytes ==
  ASSUME NEW s \in Seq(Nat), NEW t \in Seq(Nat)
  PROVE  /\ s \o t \in Seq(Nat) /\ Len(s \o t) = Len(s) + Len(t)
         /\ \A i \in 1..Len(s) : (s \o t)[i] = s[i]
         /\ \A i \in 1..Len(t) : (s \o t)[Len(s) + i] = t[i]
OBVIOUS

\* The bytes behind the first m, up to the n-th.
LEMMA PartOfBytes ==
  ASSUME NEW s \in Seq(Nat), NEW m \in Nat, NEW n \in Nat, m <= n, n <= Len(s)
  PROVE  /\ SubSeq(s, m + 1, n) \in Seq(Nat) /\ Len(SubSeq(s, m + 1, n)) = n - m
         /\ \A i \in 1..n - m : SubSeq(s, m + 1, n)[i] = s[m + i]
OBVIOUS

LEMMA DerLengthSize ==
  ASSUME NEW n \in Nat
  PROVE  /\ DerLength(n) \in Seq(Nat)
         /\ Len(DerLength(n)) = IF n < Half THEN 1 ELSE 1 + Len(Digits(n))
         /\ DerLength(n)[1] = IF n < Half THEN n ELSE Half + Len(Digits(n))
         /\ n >= Half => SubSeq(DerLength(n), 2, Len(DerLength(n))) = Digits(n)
<1>1. CASE n < Half
  BY <1>1, RadixIsMoreThanOne DEF DerLength
<1>2. CASE n >= Half
  <2> DEFINE d == Digits(n)
             s == <<Half + Len(d)>>
  <2>1. d \in Seq(Nat) /\ Len(d) \in Nat
    BY DigitsAreNumbers
  <2>2. s \in Seq(Nat) /\ Len(s) = 1 /\ s[1] = Half + Len(d)
    BY <2>1, RadixIsMoreThanOne
  <2>3. DerLength(n) = s \o d
    BY <1>2, RadixIsMoreThanOne DEF DerLength
  <2>4. n < Half <=> FALSE
    BY <1>2, RadixIsMoreThanOne
  <2> HIDE DEF d, s
  <2>5. /\ s \o d \in Seq(Nat) /\ Len(s \o d) = 1 + Len(d)
        /\ (s \o d)[1] = Half + Len(d)
    <3>1. /\ s \o d \in Seq(Nat) /\ Len(s \o d) = Len(s) + Len(d)
          /\ \A i \in 1..Len(s) : (s \o d)[i] = s[i]
      BY <2>1, <2>2, JoinedBytes
    <3>2. 1 \in 1..Len(s)
      BY <2>2
    <3> QED BY <2>2, <3>1, <3>2
  <2>6. SubSeq(s \o d, 2, 1 + Len(d)) = d
    <3> DEFINE e == SubSeq(s \o d, 2, 1 + Len(d))
    <3>1. /\ e \in Seq(Nat) /\ Len(e) = Len(d)
          /\ \A i \in 1..Len(d) : e[i] = (s \o d)[1 + i]
      <4> DEFINE c == s \o d
                 n1 == 1 + Len(d)
      <4>1. c \in Seq(Nat) /\ n1 \in Nat /\ 1 <= n1 /\ n1 <= Len(c) /\ n1 - 1 = Len(d)
        BY <2>1, <2>5
      <4>2. e = SubSeq(c, 1 + 1, n1)
        OBVIOUS
      <4> HIDE DEF c, e, n1
      <4>3. /\ SubSeq(c, 1 + 1, n1) \in Seq(Nat) /\ Len(SubSeq(c, 1 + 1, n1)) = n1 - 1
            /\ \A i \in 1..n1 - 1 : SubSeq(c, 1 + 1, n1)[i] = c[1 + i]
        BY <4>1, PartOfBytes
      <4> QED BY <4>1, <4>2, <4>3 DEF c
    <3>2. \A i \in 1..Len(d) : (s \o d)[1 + i] = d[i]
      <4>1. \A i \in 1..Len(d) : (s \o d)[Len(s) + i] = d[i]
        BY <2>1, <2>2, JoinedBytes
      <4> QED BY <2>2, <4>1
    <3> HIDE DEF e
    <3>3. e = d
      BY <2>1, <3>1, <3>2, SeqEqual
    <3> QED BY <3>3 DEF e
  <2> QED BY <2>3, <2>4, <2>5, <2>6 DEF d
<1> QED BY <1>1, <1>2, RadixIsMoreThanOne

\* Where the parts of an element are.
LEMMA EncodedParts ==
  ASSUME NEW t \in Seq(Nat), NEW c \in Seq(Nat)
  PROVE  LET d == DerLength(Len(c))
             e == Encoded(t, c)
         IN /\ e \in Seq(Nat) /\ Len(e) = Len(t) + Len(d) + Len(c)
            /\ \A i \in 1..Len(t) : e[i] = t[i]
            /\ \A i \in 1..Len(d) : e[Len(t) + i] = d[i]
<1> DEFINE d == DerLength(Len(c))
           td == t \o d
<1>1. Len(c) \in Nat /\ d \in Seq(Nat)
  BY DerLengthSize
<1>2. Encoded(t, c) = td \o c
  BY DEF Encoded
<1> HIDE DEF d
<1>3. /\ td \in Seq(Nat) /\ Len(td) = Len(t) + Len(d)
      /\ \A i \in 1..Len(t) : td[i] = t[i]
      /\ \A i \in 1..Len(d) : td[Len(t) + i] = d[i]
  BY <1>1, JoinedBytes
<1> HIDE DEF td
<1>4. /\ td \o c \in Seq(Nat) /\ Len(td \o c) = Len(td) + Len(c)
      /\ \A i \in 1..Len(td) : (td \o c)[i] = td[i]
  BY <1>3, JoinedBytes
<1>5. Len(t) \in Nat /\ Len(d) \in Nat
  BY <1>1
<1> HIDE DEF Encoded
<1>6. \A i \in 1..Len(t) : (td \o c)[i] = t[i]
  BY <1>3, <1>4, <1>5
<1>7. \A i \in 1..Len(d) : (td \o c)[Len(t) + i] = d[i]
  <2> TAKE i \in 1..Len(d)
  <2>1. Len(t) + i \in 1..Len(td)
    BY <1>3, <1>5
  <2> QED BY <1>3, <1>4, <2>1
<1> QED BY <1>2, <1>3, <1>4, <1>6, <1>7 DEF d

\* The reader finds an element with a tag of one byte and a length that fits
\* into a word and into the bytes a length may have.
LEMMA ReaderTakesElement ==
  ASSUME NEW t \in Seq(Nat), Len(t) = 1, NEW c \in Seq(Nat),
         Len(c) < Word, Len(Digits(Len(c))) <= MaxLengthBytes
  PROVE  LET e == Encoded(t, c) IN ReadTlv(e).found /\ ReadTlv(e).behind = Len(e)
<1> DEFINE e == Encoded(t, c)
           size == Len(c)
           d == DerLength(size)
           k == Len(Digits(size))
<1>1. size \in Nat /\ Digits(size) \in Seq(Nat) /\ k \in Nat
  <2>1. size \in Nat
    OBVIOUS
  <2> HIDE DEF size
  <2>2. Digits(size) \in Seq(Nat)
    BY <2>1, DigitsAreNumbers
  <2> QED BY <2>1, <2>2
<1>2. /\ e \in Seq(Nat) /\ Len(e) = 1 + Len(d) + size
      /\ \A i \in 1..Len(d) : e[1 + i] = d[i]
  <2>1. /\ e \in Seq(Nat) /\ Len(e) = Len(t) + Len(d) + size
        /\ \A i \in 1..Len(d) : e[Len(t) + i] = d[i]
    BY EncodedParts, Zenon
  <2> QED BY <2>1
<1>3. /\ d \in Seq(Nat)
      /\ Len(d) = IF size < Half THEN 1 ELSE 1 + k
      /\ d[1] = IF size < Half THEN size ELSE Half + k
      /\ size >= Half => SubSeq(d, 2, Len(d)) = Digits(size)
  BY <1>1, DerLengthSize, Zenon
<1>4. Half \in Nat /\ Half > 0 /\ MaxLengthBytes \in Nat
  BY RadixIsMoreThanOne, LengthBytesAssumption
<1>5. e[2] = d[1]
  <2>1. 1 \in 1..Len(d)
    BY <1>1, <1>3
  <2>2. e[1 + 1] = d[1]
    BY <1>2, <2>1
  <2> QED BY <2>2
<1> HIDE DEF e, d
<1>6. CASE size < Half
  <2> HIDE DEF k, size
  <2>1. e[2] = size /\ Len(e) = 2 + size /\ e[2] < Half
    BY <1>1, <1>2, <1>3, <1>5, <1>6
  <2>2. ReadTlv(e) = [found |-> TRUE, tag |-> e[1],
                      content |-> SubSeq(e, 3 + 0, 2 + 0 + size), behind |-> 2 + 0 + size]
    BY <1>1, <1>4, <2>1 DEF ReadTlv
  <2>3. ReadTlv(e).found /\ ReadTlv(e).behind = 2 + 0 + size
    BY <2>2
  <2> QED BY <1>1, <2>1, <2>3 DEF e
<1>7. CASE size >= Half
  <2>1. k > 0 /\ k <= MaxLengthBytes
    BY <1>1, <1>4, <1>7, DigitsAreNumbers
  <2>2. Value(Digits(size)) = size
    BY <1>1, ValueOfDigits
  <2> DEFINE digits == Digits(size)
  <2>3. digits \in Seq(Nat) /\ Len(digits) = k /\ Value(digits) = size
    BY <1>1, <2>2
  <2>4. SubSeq(d, 2, Len(d)) = digits
    BY <1>3, <1>7
  <2>40. ~ (size < Half)
    BY <1>1, <1>4, <1>7
  <2> HIDE DEF k, size, digits
  <2>5. e[2] = Half + k /\ Len(e) = 2 + k + size /\ Len(d) = 1 + k
    BY <1>1, <1>2, <1>3, <1>4, <1>5, <2>40
  <2>6. SubSeq(e, 3, 2 + k) = digits
    <3> DEFINE n1 == 2 + k
               n2 == 1 + k
    <3>1. /\ n1 \in Nat /\ 2 <= n1 /\ n1 <= Len(e) /\ n1 - 2 = k
          /\ n2 \in Nat /\ 1 <= n2 /\ n2 <= Len(d) /\ n2 - 1 = k
      BY <1>1, <2>5
    <3> HIDE DEF n1, n2
    <3>2. /\ SubSeq(e, 2 + 1, n1) \in Seq(Nat) /\ Len(SubSeq(e, 2 + 1, n1)) = n1 - 2
          /\ \A i \in 1..n1 - 2 : SubSeq(e, 2 + 1, n1)[i] = e[2 + i]
      BY <1>2, <3>1, PartOfBytes
    <3>3. /\ SubSeq(d, 1 + 1, n2) \in Seq(Nat) /\ Len(SubSeq(d, 1 + 1, n2)) = n2 - 1
          /\ \A i \in 1..n2 - 1 : SubSeq(d, 1 + 1, n2)[i] = d[1 + i]
      BY <1>3, <3>1, PartOfBytes
    <3>4. SubSeq(d, 1 + 1, n2) = digits
      BY <2>4, <2>5 DEF n2
    <3>5. ASSUME NEW i \in 1..k PROVE e[2 + i] = d[1 + i]
      <4>1. 1 + i \in 1..Len(d) /\ 1 + (1 + i) = 2 + i
        BY <1>1, <2>5
      <4> QED BY <1>2, <4>1
    <3> DEFINE q == SubSeq(e, 2 + 1, n1)
    <3>6. q \in Seq(Nat) /\ Len(q) = k /\ \A i \in 1..k : q[i] = digits[i]
      BY <3>1, <3>2, <3>3, <3>4, <3>5
    <3> HIDE DEF q
    <3>7. q = digits
      BY <2>3, <3>6, SeqEqual
    <3> QED BY <3>7 DEF q, n1
  <2>7. ~ (e[2] < Half) /\ e[2] - Half = k
    BY <1>1, <1>4, <2>5
  <2>8. ReadTlv(e) = [found |-> TRUE, tag |-> e[1],
                      content |-> SubSeq(e, 3 + k, 2 + k + size), behind |-> 2 + k + size]
    <3>1. ~ (\/ Len(e) < 2
             \/ e[2] >= Half /\ (k = 0 \/ k > MaxLengthBytes \/ 2 + k > Len(e))
             \/ 2 + k + size > Len(e))
      BY <1>1, <1>4, <2>1, <2>5
    <3> QED BY <2>3, <2>6, <2>7, <3>1, Zenon DEF ReadTlv
  <2>9. ReadTlv(e).found /\ ReadTlv(e).behind = 2 + k + size
    BY <2>8
  <2> QED BY <2>5, <2>9 DEF e
<1> QED BY <1>1, <1>4, <1>6, <1>7

-----------------------------------------------------------------------------
(* What is written is not much more than what was read: every element is   *)
(* granted MaxLengthBytes for its new length when its tag is read.         *)

Budget(n) == (MaxLengthBytes + 1) * n

LEMMA BudgetGrows ==
  ASSUME NEW a \in Nat, NEW b \in Nat
  PROVE  /\ Budget(a) \in Nat /\ a <= Budget(a)
         /\ Budget(a + b) = Budget(a) + Budget(b)
         /\ a <= b => Budget(a) <= Budget(b)
         /\ a > 0 => a + MaxLengthBytes <= Budget(a)
<1>1. MaxLengthBytes \in Nat
  BY LengthBytesAssumption
<1> DEFINE m == MaxLengthBytes
<1>2. m * a \in Nat /\ m * b \in Nat /\ (a > 0 => m <= m * a)
  BY <1>1
<1>3. a <= b => m * a <= m * b
  BY <1>1
<1>4. Budget(a) = m * a + a /\ Budget(b) = m * b + b /\ Budget(a + b) = m * a + m * b + a + b
  BY <1>1 DEF Budget
<1> QED BY <1>1, <1>2, <1>3, <1>4

\* An element whose content is within the budget of the input.
LEMMA ElementFits ==
  ASSUME input \in Inputs, NEW t, IsTagBytes(t), NEW c \in Seq(Nat),
         Len(c) <= Budget(Len(input))
  PROVE  /\ Encoded(t, c) \in Seq(Nat)
         /\ Len(Encoded(t, c)) <= Len(t) + 1 + MaxLengthBytes + Len(c)
         /\ Len(c) < Word /\ Len(Digits(Len(c))) <= MaxLengthBytes
<1>1. /\ input \in Seq(Byte) /\ Budget(Len(input)) < Word
      /\ Len(Digits(Budget(Len(input)))) <= MaxLengthBytes
  BY InputsAssumption, InputsFit DEF Budget
<1> DEFINE most == Budget(Len(input))
           size == Len(c)
           k == Len(Digits(size))
           d == DerLength(size)
<1>2. size \in Nat /\ most \in Nat /\ size <= most
  BY <1>1, BudgetGrows
<1>3. most < Word /\ Len(Digits(most)) <= MaxLengthBytes
  BY <1>1
<1> HIDE DEF most
<1>4. t \in Seq(Nat) /\ Len(t) \in Nat
  BY DEF IsTagBytes
<1>5. Encoded(t, c) \in Seq(Nat) /\ Len(Encoded(t, c)) = Len(t) + Len(d) + size
  BY <1>4, EncodedParts, Zenon
<1> HIDE DEF size
<1>6. Digits(size) \in Seq(Nat) /\ Digits(most) \in Seq(Nat)
  BY <1>2, DigitsAreNumbers
<1>7. k \in Nat /\ k <= MaxLengthBytes
  <2>1. k <= Len(Digits(most))
    BY <1>2, DigitsGrow
  <2>2. k \in Nat /\ Len(Digits(most)) \in Nat
    BY <1>6
  <2> QED BY <1>3, <2>1, <2>2, LengthBytesAssumption
<1>8. Len(d) = IF size < Half THEN 1 ELSE 1 + k
  BY <1>2, DerLengthSize, Zenon
<1>9. size < Word
  BY <1>2, <1>3, WordAssumption
<1> HIDE DEF k, d
<1>10. Len(t) + Len(d) + size <= Len(t) + 1 + MaxLengthBytes + size
  BY <1>2, <1>4, <1>7, <1>8, LengthBytesAssumption
<1> QED BY <1>5, <1>7, <1>9, <1>10 DEF size, k

Contents(s) ==
  \A k \in 1..Len(s) : s[k].content \in Seq(Nat) /\ (k > 1 => IsTagBytes(s[k].tag))

\* What the open elements take so far, each with those around it.
Costs(s, u) ==
  /\ u \in Seq(Nat) /\ Len(u) = Len(s)
  /\ u[1] = Len(s[1].content)
  /\ \A k \in 2..Len(s) :
       u[k] = u[k - 1] + Len(s[k].tag) + 1 + MaxLengthBytes + Len(s[k].content)

Affordable(s, n) == \E u : Costs(s, u) /\ u[Len(s)] <= n

LEMMA AffordablePushed ==
  ASSUME NEW s, Frames(s), Len(s) > 0, Contents(s), NEW n \in Nat, Affordable(s, n),
         NEW f, f.content = <<>>, IsTagBytes(f.tag)
  PROVE  /\ Contents(Append(s, f)) /\ Append(s, f)[1] = s[1]
         /\ Affordable(Append(s, f), n + Len(f.tag) + 1 + MaxLengthBytes)
<1> DEFINE next == Append(s, f)
           last == Len(s)
<1>1. PICK S : s \in Seq(S)
  BY DEF Frames
<1>2. /\ last \in Nat /\ last > 0 /\ Len(next) = last + 1 /\ next[last + 1] = f
      /\ \A k \in 1..last : next[k] = s[k]
  BY <1>1
<1>3. PICK u : Costs(s, u) /\ u[last] <= n
  BY DEF Affordable
<1>4. u \in Seq(Nat) /\ Len(u) = last
  BY <1>3 DEF Costs
<1>5. MaxLengthBytes \in Nat /\ Len(f.tag) \in Nat /\ Len(f.content) = 0 /\ u[last] \in Nat
  BY <1>2, <1>4, LengthBytesAssumption DEF IsTagBytes
<1> DEFINE x == u[last] + Len(f.tag) + 1 + MaxLengthBytes
           v == Append(u, x)
<1>6. /\ x \in Nat /\ v \in Seq(Nat) /\ Len(v) = last + 1 /\ v[last + 1] = x
      /\ \A k \in 1..last : v[k] = u[k]
  BY <1>4, <1>5
<1>7. x <= n + Len(f.tag) + 1 + MaxLengthBytes
  BY <1>3, <1>5
<1>8. x = u[last] + Len(f.tag) + 1 + MaxLengthBytes + Len(f.content)
  BY <1>5
<1> HIDE DEF next, last, x, v
<1>9. Contents(next)
  <2>1. ASSUME NEW k \in 1..last + 1
        PROVE  next[k].content \in Seq(Nat) /\ (k > 1 => IsTagBytes(next[k].tag))
    <3>1. CASE k \in 1..last
      BY <1>2, <3>1 DEF Contents, last
    <3>2. CASE k = last + 1
      <4>1. next[k] = f
        BY <1>2, <3>2
      <4>2. f.content \in Seq(Nat)
        BY EmptySeq
      <4> QED BY <4>1, <4>2
    <3> QED BY <1>2, <3>1, <3>2
  <2> QED BY <1>2, <2>1 DEF Contents
<1>10. Costs(next, v)
  <2>1. v[1] = Len(next[1].content)
    BY <1>2, <1>3, <1>6 DEF Costs
  <2>2. ASSUME NEW k \in 2..last + 1
        PROVE  v[k] = v[k - 1] + Len(next[k].tag) + 1 + MaxLengthBytes + Len(next[k].content)
    <3>1. CASE k \in 2..last
      <4>0. k \in 1..last /\ k - 1 \in 1..last
        BY <1>2, <3>1
      <4> DEFINE j == k - 1
      <4>1. v[k] = u[k] /\ v[j] = u[j] /\ next[k] = s[k]
        <5> HIDE DEF j
        <5> QED BY <1>2, <1>6, <4>0 DEF j
      <4> QED BY <1>3, <3>1, <4>1 DEF Costs, last
    <3>2. CASE k = last + 1
      <4>1. v[k] = x /\ v[k - 1] = u[last] /\ next[k] = f
        BY <1>2, <1>6, <3>2
      <4> QED BY <1>8, <4>1
    <3> QED BY <1>2, <3>1, <3>2
  <2> QED BY <1>2, <1>6, <2>1, <2>2 DEF Costs
<1>11. Affordable(next, n + Len(f.tag) + 1 + MaxLengthBytes)
  BY <1>2, <1>6, <1>7, <1>10 DEF Affordable
<1>12. next[1] = s[1]
  BY <1>2
<1> QED BY <1>9, <1>11, <1>12 DEF next

LEMMA AffordablePopped ==
  ASSUME NEW s, Frames(s), Len(s) > 1, Contents(s), NEW n \in Nat, Affordable(s, n)
  PROVE  LET next == SubSeq(s, 1, Len(s) - 1)
             f == s[Len(s)]
         IN /\ Contents(next) /\ next[1] = s[1]
            /\ \E m \in Nat : /\ Affordable(next, m)
                              /\ m + Len(f.tag) + 1 + MaxLengthBytes + Len(f.content) <= n
<1> DEFINE last == Len(s)
           next == SubSeq(s, 1, last - 1)
           f == s[last]
<1>1. PICK S : s \in Seq(S)
  BY DEF Frames
<1>2. /\ last \in Nat /\ last > 1 /\ Len(next) = last - 1
      /\ \A k \in 1..last - 1 : next[k] = s[k]
  BY <1>1
<1>3. PICK u : Costs(s, u) /\ u[last] <= n
  BY DEF Affordable
<1>4. u \in Seq(Nat) /\ Len(u) = last
  BY <1>3 DEF Costs
<1> DEFINE v == SubSeq(u, 1, last - 1)
<1>5. v \in Seq(Nat) /\ Len(v) = last - 1 /\ \A k \in 1..last - 1 : v[k] = u[k]
  BY <1>2, <1>4
<1>6. u[last] = u[last - 1] + Len(f.tag) + 1 + MaxLengthBytes + Len(f.content)
  <2>1. last \in 2..last
    BY <1>2
  <2> QED BY <1>3, <2>1 DEF Costs
<1>7. u[last - 1] \in Nat
  BY <1>2, <1>4
<1> HIDE DEF next, last, v, f
<1>8. Contents(next)
  BY <1>2 DEF Contents, last
<1>9. Costs(next, v)
  <2>1. v[1] = Len(next[1].content)
    BY <1>2, <1>3, <1>5 DEF Costs
  <2>2. ASSUME NEW k \in 2..last - 1
        PROVE  v[k] = v[k - 1] + Len(next[k].tag) + 1 + MaxLengthBytes + Len(next[k].content)
    <3>1. v[k] = u[k] /\ v[k - 1] = u[k - 1] /\ next[k] = s[k] /\ k \in 2..last
      BY <1>2, <1>5
    <3> QED BY <1>3, <3>1 DEF Costs, last
  <2> QED BY <1>2, <1>5, <2>1, <2>2 DEF Costs
<1>10. Affordable(next, u[last - 1])
  <2>1. last - 1 \in 1..last - 1
    BY <1>2
  <2>2. v[Len(next)] = u[last - 1]
    BY <1>2, <1>5, <2>1
  <2>3. v[Len(next)] <= u[last - 1]
    BY <1>7, <2>2
  <2> QED BY <1>9, <2>3, Zenon DEF Affordable
<1>11. next[1] = s[1]
  BY <1>2
<1>12. u[last - 1] + Len(f.tag) + 1 + MaxLengthBytes + Len(f.content) <= n
  BY <1>3, <1>6
<1>13. \E m \in Nat : /\ Affordable(next, m)
                      /\ m + Len(f.tag) + 1 + MaxLengthBytes + Len(f.content) <= n
  BY <1>7, <1>10, <1>12
<1> QED BY <1>8, <1>11, <1>13 DEF next, last, f

LEMMA AffordableFilled ==
  ASSUME NEW s, Frames(s), Len(s) > 0, \A k \in 1..Len(s) : IsFrame(s[k]),
         Contents(s), NEW n \in Nat, Affordable(s, n), NEW element \in Seq(Nat)
  PROVE  LET next == [s EXCEPT ![Len(s)].content = @ \o element]
         IN /\ Contents(next)
            /\ Affordable(next, n + Len(element))
            /\ Len(s) > 1 => next[1] = s[1]
            /\ Len(s) = 1 => next[1].content = s[1].content \o element
<1> DEFINE last == Len(s)
           f == s[last]
           filled == [f EXCEPT !.content = @ \o element]
           next == [s EXCEPT ![last].content = @ \o element]
<1>1. PICK S : s \in Seq(S)
  BY DEF Frames
<1>2. last \in Nat /\ last > 0 /\ IsFrame(f) /\ f.content \in Seq(Nat)
  BY <1>1 DEF Contents
<1>3. filled.content = f.content \o element /\ filled.tag = f.tag
  <2>1. PICK a, b, c, d : f = [kind |-> a, tag |-> b, limit |-> c, content |-> d]
    BY <1>2, Zenon DEF IsFrame
  <2> QED BY <2>1
<1>4. next = [s EXCEPT ![last] = filled]
  OBVIOUS
<1> HIDE DEF filled, next, f
<1>5. /\ Len(next) = last /\ next[last] = filled
      /\ \A k \in 1..last - 1 : next[k] = s[k]
  BY <1>1, <1>2, <1>4
<1>6. PICK u : Costs(s, u) /\ u[last] <= n
  BY DEF Affordable
<1>7. u \in Seq(Nat) /\ Len(u) = last /\ u[last] \in Nat
  BY <1>2, <1>6 DEF Costs
<1> DEFINE more == Len(element)
           v == [u EXCEPT ![last] = u[last] + more]
<1>8. more \in Nat /\ Len(f.content) \in Nat /\ Len(f.content \o element) = Len(f.content) + more
  BY <1>2
<1>9. /\ v \in Seq(Nat) /\ Len(v) = last /\ v[last] = u[last] + more
      /\ \A k \in 1..last - 1 : v[k] = u[k]
  BY <1>2, <1>7, <1>8
<1> HIDE DEF last, v, more
<1>10. Contents(next)
  <2>1. ASSUME NEW k \in 1..last
        PROVE  next[k].content \in Seq(Nat) /\ (k > 1 => IsTagBytes(next[k].tag))
    <3>1. CASE k \in 1..last - 1
      BY <1>2, <1>5, <3>1 DEF Contents, last
    <3>2. CASE k = last
      <4>1. f.content \o element \in Seq(Nat)
        BY <1>2
      <4>2. k > 1 => IsTagBytes(f.tag)
        BY <1>2, <3>2 DEF Contents, last, f
      <4> QED BY <1>3, <1>5, <3>2, <4>1, <4>2
    <3> QED BY <1>2, <3>1, <3>2
  <2> QED BY <1>5, <2>1 DEF Contents
<1>11. Costs(next, v)
  <2>1. v[1] = Len(next[1].content)
    <3>1. CASE last = 1
      <4>1. u[1] = Len(f.content)
        BY <1>6, <3>1 DEF Costs, f
      <4> QED BY <1>3, <1>5, <1>8, <1>9, <3>1, <4>1
    <3>2. CASE last > 1
      <4>1. 1 \in 1..last - 1
        BY <1>2, <3>2
      <4> QED BY <1>5, <1>6, <1>9, <4>1 DEF Costs
    <3> QED BY <1>2, <3>1, <3>2
  <2>2. ASSUME NEW k \in 2..last
        PROVE  v[k] = v[k - 1] + Len(next[k].tag) + 1 + MaxLengthBytes + Len(next[k].content)
    <3>1. u[k] = u[k - 1] + Len(s[k].tag) + 1 + MaxLengthBytes + Len(s[k].content)
      BY <1>6 DEF Costs, last
    <3>2. v[k - 1] = u[k - 1] /\ u[k - 1] \in Nat
      BY <1>2, <1>7, <1>9
    <3>3. CASE k \in 2..last - 1
      <4>1. v[k] = u[k] /\ next[k] = s[k]
        BY <1>2, <1>5, <1>9, <3>3
      <4> QED BY <3>1, <3>2, <4>1
    <3>4. CASE k = last
      <4>1. s[k] = f /\ next[k] = filled /\ v[k] = u[k] + more
        BY <1>5, <1>9, <3>4 DEF f
      <4>2. IsTagBytes(f.tag)
        BY <1>2, <3>4 DEF Contents, last, f
      <4>3. Len(f.tag) \in Nat
        BY <4>2 DEF IsTagBytes
      <4>4. v[k] = u[k - 1] + Len(f.tag) + 1 + MaxLengthBytes + Len(f.content) + more
        BY <3>1, <4>1
      <4>5. Len(next[k].tag) = Len(f.tag) /\ Len(next[k].content) = Len(f.content) + more
        BY <1>3, <1>8, <4>1
      <4> DEFINE x == Len(f.tag)
                 y == Len(f.content)
                 z == u[k - 1]
      <4>6. x \in Nat /\ y \in Nat /\ z \in Nat /\ more \in Nat /\ MaxLengthBytes \in Nat
        BY <1>8, <3>2, <4>3, LengthBytesAssumption
      <4>7. v[k] = z + x + 1 + MaxLengthBytes + y + more /\ v[k - 1] = z
        BY <3>2, <4>4
      <4> HIDE DEF x, y, z
      <4>8. v[k] = v[k - 1] + x + 1 + MaxLengthBytes + (y + more)
        BY <4>6, <4>7
      <4> QED BY <4>5, <4>8 DEF x, y
    <3> QED BY <1>2, <3>3, <3>4
  <2> QED BY <1>5, <1>9, <2>1, <2>2 DEF Costs
<1>12. Affordable(next, n + more)
  BY <1>5, <1>6, <1>7, <1>8, <1>9, <1>11 DEF Affordable
<1>13. /\ last > 1 => next[1] = s[1]
       /\ last = 1 => next[1].content = s[1].content \o element
  <2>1. last > 1 => next[1] = s[1]
    BY <1>2, <1>5
  <2>2. last = 1 => next[1] = filled /\ s[1] = f
    BY <1>5 DEF f
  <2> QED BY <1>3, <2>1, <2>2
<1> QED BY <1>10, <1>12, <1>13 DEF next, last, more

\* Bytes that are read of an element before its content.
TakenBy(p, t) ==
  IF p \in {"tag", "length"} THEN Len(t) ELSE IF p = "body" THEN Len(t) + 1 ELSE 0

Reading == {"element", "tag", "length", "body", "children"}

ResultIsElement ==
  \E t, c \in Seq(Nat) : /\ IsTagBytes(t) /\ Result = Encoded(t, c)
                         /\ Len(c) <= Budget(Len(input))

\* What the open elements contain is within the budget of what was read.
SizeInv ==
  /\ input \in Inputs
  /\ Contents(stack)
  /\ pc \in {"tag", "length", "body"} => IsTagBytes(tag)
  /\ pc = "tag" => tag[1] \in LongTag
  /\ pc # "done" => Result = <<>>
  /\ pc \in Reading => TakenBy(pc, tag) <= index /\ Affordable(stack, Budget(index - TakenBy(pc, tag)))
  /\ pc = "done" => ResultIsElement

LEMMA InitialSizes == Init => SizeInv
<1> SUFFICES ASSUME Init PROVE SizeInv
  OBVIOUS
<1> DEFINE root == [kind |-> "root", tag |-> <<>>, limit |-> Len(input), content |-> <<>>]
           u == <<0>>
<1>1. /\ input \in Inputs /\ index = 0 /\ pc = "element" /\ stack = <<root>>
  BY DEF Init
<1>2. root.content = <<>>
  OBVIOUS
<1> HIDE DEF root
<1>3. Len(stack) = 1 /\ stack[1] = root
  BY <1>1
<1>4. Contents(stack)
  <2>1. ASSUME NEW k \in 1..1
        PROVE  stack[k].content \in Seq(Nat) /\ ~ (k > 1)
    <3>1. k = 1
      OBVIOUS
    <3>2. <<>> \in Seq(Nat)
      BY EmptySeq
    <3>3. stack[k].content = <<>>
      BY <1>2, <1>3, <3>1
    <3> QED BY <3>1, <3>2, <3>3
  <2> QED BY <1>3, <2>1 DEF Contents
<1>5. TakenBy(pc, tag) = 0 /\ Budget(index - TakenBy(pc, tag)) = 0
  <2>1. TakenBy(pc, tag) = 0
    BY <1>1 DEF TakenBy
  <2> QED BY <1>1, <2>1, LengthBytesAssumption DEF Budget
<1>6. Affordable(stack, 0)
  <2>1. u \in Seq(Nat) /\ Len(u) = 1 /\ u[1] = 0
    OBVIOUS
  <2> HIDE DEF u
  <2>2. Costs(stack, u)
    <3>1. Len(<<>>) = 0
      OBVIOUS
    <3>2. \A k \in 2..1 : FALSE
      OBVIOUS
    <3> QED BY <1>2, <1>3, <2>1, <3>1, <3>2 DEF Costs
  <2> QED BY <1>3, <2>1, <2>2 DEF Affordable
<1> QED BY <1>1, <1>2, <1>3, <1>4, <1>5, <1>6 DEF SizeInv, Result

\* More may be afforded when more was read.
LEMMA MoreIsAffordable ==
  ASSUME NEW s, NEW a \in Nat, NEW b \in Nat, a <= b, Frames(s), Len(s) > 0, Affordable(s, a)
  PROVE  Affordable(s, b)
<1>1. PICK u : Costs(s, u) /\ u[Len(s)] <= a
  BY DEF Affordable
<1>2. u \in Seq(Nat) /\ Len(u) = Len(s)
  BY <1>1 DEF Costs
<1>3. Len(s) \in 1..Len(u)
  BY <1>2
<1>4. u[Len(s)] \in Nat
  BY <1>2, <1>3
<1>5. u[Len(s)] <= b
  BY <1>1, <1>4
<1> QED BY <1>1, <1>5, Zenon DEF Affordable

\* Steps that read on within the same frame.
LEMMA SameContents ==
  ASSUME IInv, SizeInv, UNCHANGED <<input, stack>>, pc \in Reading, pc' \in Reading,
         pc' \in {"tag", "length", "body"} => IsTagBytes(tag)',
         pc' = "tag" => tag'[1] \in LongTag,
         TakenBy(pc', tag') \in Nat, TakenBy(pc, tag) \in Nat, index' \in Nat,
         TakenBy(pc', tag') <= index', index - TakenBy(pc, tag) <= index' - TakenBy(pc', tag')
  PROVE  SizeInv'
<1> DEFINE a == index - TakenBy(pc, tag)
           b == index' - TakenBy(pc', tag')
<1>1. a \in Nat /\ b \in Nat /\ a <= b
  BY DEF IInv, SizeInv
<1>2. Affordable(stack, Budget(a)) /\ Frames(stack) /\ Len(stack) > 0
  BY DEF SizeInv, IInv, Nested
<1> HIDE DEF a, b
<1>3. Affordable(stack, Budget(b))
  <2>1. Budget(a) \in Nat /\ Budget(b) \in Nat /\ Budget(a) <= Budget(b)
    BY <1>1, BudgetGrows
  <2> QED BY <1>2, <2>1, MoreIsAffordable
<1>4. pc # "done" /\ pc' # "done"
  BY DEF Reading
<1>5. Affordable(stack', Budget(index' - TakenBy(pc', tag')))
  BY <1>3 DEF b
<1> QED BY <1>4, <1>5 DEF SizeInv, Result

LEMMA StoppedSizes ==
  ASSUME SizeInv, pc \in Reading, NEW how \in {"none", "panic"}, Stop(how)
  PROVE  SizeInv'
BY DEF SizeInv, Stop, Result, Reading, Contents

\* An element goes to the frame around it.
LEMMA GivenSizes ==
  ASSUME IInv, SizeInv, pc \in Reading, NEW frames, Frames(frames),
         Nested(frames, Len(input)), Contents(frames),
         frames[1].content = <<>>, NEW n \in Nat, Affordable(frames, n),
         NEW t, IsTagBytes(t), NEW c \in Seq(Nat), Len(c) <= Budget(Len(input)),
         Emit(frames, Encoded(t, c)), UNCHANGED input, index' \in Nat,
         n + Len(t) + 1 + MaxLengthBytes + Len(c) <= Budget(index')
  PROVE  SizeInv'
<1> DEFINE element == Encoded(t, c)
           next == [frames EXCEPT ![Len(frames)].content = @ \o element]
<1>1. input \in Inputs /\ t \in Seq(Nat)
  BY DEF SizeInv, IsTagBytes
<1>2. element \in Seq(Nat) /\ Len(element) <= Len(t) + 1 + MaxLengthBytes + Len(c)
  BY <1>1, ElementFits
<1>3. stack' = next /\ pc' = IF Len(frames) = 1 THEN "done" ELSE "children"
  BY DEF Emit
<1>4. Len(frames) > 0 /\ \A k \in 1..Len(frames) : IsFrame(frames[k])
  BY DEF Nested
<1>40. Len(frames) \in Nat
  <2>1. PICK S : frames \in Seq(S)
    BY DEF Frames
  <2> QED BY <2>1
<1>5. /\ Contents(next) /\ Affordable(next, n + Len(element))
      /\ Len(frames) > 1 => next[1] = frames[1]
      /\ Len(frames) = 1 => next[1].content = frames[1].content \o element
  <2> HIDE DEF element
  <2> QED BY <1>2, <1>4, AffordableFilled
<1>6. next[1].content = IF Len(frames) = 1 THEN element ELSE <<>>
  <2> HIDE DEF next, element
  <2>1. <<>> \o element = element
    BY <1>2
  <2> QED BY <1>4, <1>40, <1>5, <2>1
<1>7. Affordable(next, Budget(index'))
  <2>1. Frames(next) /\ Len(next) = Len(frames)
    <3>1. input \in Seq(Byte) /\ Len(input) \in Nat
      BY DEF IInv
    <3> HIDE DEF element
    <3> QED BY <3>1, Filled
  <2> HIDE DEF next, element
  <2>2. n + Len(element) \in Nat /\ Budget(index') \in Nat
    BY <1>2, BudgetGrows
  <2>3. n + Len(element) <= Budget(index')
    <3>1. Len(t) \in Nat /\ Len(c) \in Nat /\ Len(element) \in Nat /\ MaxLengthBytes \in Nat
      BY <1>1, <1>2, LengthBytesAssumption
    <3> QED BY <1>2, <2>2, <3>1
  <2> QED BY <1>4, <1>5, <2>1, <2>2, <2>3, MoreIsAffordable
<1> HIDE DEF next
<1>8. TakenBy(pc', tag') = 0 \/ pc' = "done"
  BY <1>3 DEF TakenBy
<1>9. CASE Len(frames) = 1
  <2>1. pc' = "done" /\ Result' = element
    BY <1>3, <1>6, <1>9 DEF Result
  <2>2. ResultIsElement'
    BY <1>1, <2>1 DEF ResultIsElement
  <2> QED BY <1>1, <1>3, <1>5, <2>1, <2>2 DEF SizeInv, Reading
<1>10. CASE Len(frames) # 1
  <2>1. pc' = "children" /\ Result' = <<>> /\ TakenBy(pc', tag') = 0
    BY <1>3, <1>6, <1>8, <1>10 DEF Result
  <2>2. index' - TakenBy(pc', tag') = index' /\ TakenBy(pc', tag') <= index'
    BY <2>1
  <2> QED BY <1>1, <1>3, <1>5, <1>7, <2>1, <2>2 DEF SizeInv, Reading
<1> QED BY <1>9, <1>10

\* A constructed element is opened: its tag and its length are granted.
LEMMA OpenedSizes ==
  ASSUME IInv, SizeInv, NEW kind, NEW limit, Open(kind, limit), UNCHANGED input,
         \/ pc = "length" /\ index' = index + 1
         \/ pc = "body" /\ index' = index
  PROVE  SizeInv'
<1> DEFINE f == [kind |-> kind, tag |-> tag, limit |-> limit, content |-> <<>>]
           read == TakenBy(pc, tag)
           a == index - read
           b == Len(tag) + 1
<1>1. stack' = Append(stack, f) /\ pc' = "children"
  BY DEF Open
<1>2. f.content = <<>> /\ f.tag = tag
  OBVIOUS
<1>3. IsTagBytes(tag) /\ Len(tag) \in Nat /\ Len(tag) > 0 /\ pc \in Reading
  BY DEF SizeInv, IsTagBytes, Reading
<1>4. /\ index \in Nat /\ read \in Nat /\ read <= index
      /\ a + b = index'
  <2>1. index \in Nat /\ read <= index
    BY <1>3 DEF IInv, SizeInv
  <2>2. CASE pc = "length" /\ index' = index + 1
    <3>1. read = Len(tag)
      BY <2>2 DEF TakenBy
    <3> HIDE DEF read
    <3> QED BY <1>3, <2>1, <2>2, <3>1
  <2>3. CASE pc = "body" /\ index' = index
    <3>1. read = Len(tag) + 1
      BY <2>3 DEF TakenBy
    <3> HIDE DEF read
    <3> QED BY <1>3, <2>1, <2>3, <3>1
  <2> QED BY <2>2, <2>3
<1>5. a \in Nat /\ b \in Nat /\ b > 0
  BY <1>3, <1>4
<1>6. Affordable(stack, Budget(a)) /\ Frames(stack) /\ Len(stack) > 0 /\ Contents(stack)
  BY <1>3 DEF SizeInv, IInv, Nested
<1>7. Budget(a) \in Nat /\ Budget(a) + b + MaxLengthBytes <= Budget(index') /\ Budget(index') \in Nat
  <2> HIDE DEF a, b
  <2>1. /\ Budget(a + b) = Budget(a) + Budget(b) /\ b + MaxLengthBytes <= Budget(b)
        /\ Budget(a) \in Nat /\ Budget(b) \in Nat
    BY <1>5, BudgetGrows
  <2> QED BY <1>4, <1>5, <2>1, LengthBytesAssumption
<1> HIDE DEF f, a, read
<1>8. /\ Contents(stack') /\ stack'[1] = stack[1]
      /\ Affordable(stack', Budget(a) + Len(f.tag) + 1 + MaxLengthBytes)
  <2>1. IsTagBytes(f.tag)
    BY <1>2, <1>3
  <2> QED BY <1>1, <1>2, <1>6, <1>7, <2>1, AffordablePushed
<1>9. Affordable(stack', Budget(index'))
  <2>1. Frames(stack') /\ Len(stack') > 0
    <3>1. PICK S : stack \in Seq(S)
      BY <1>6 DEF Frames
    <3>2. Append(stack, f) \in Seq(S \cup {f}) /\ Len(Append(stack, f)) = Len(stack) + 1
      BY <3>1
    <3> QED BY <1>1, <3>1, <3>2 DEF Frames
  <2> DEFINE n == Budget(a) + Len(f.tag) + 1 + MaxLengthBytes
  <2>2. n \in Nat /\ n <= Budget(index')
    BY <1>2, <1>3, <1>7, LengthBytesAssumption
  <2>3. Affordable(stack', n)
    BY <1>8
  <2> HIDE DEF n
  <2> QED BY <1>7, <2>1, <2>2, <2>3, MoreIsAffordable
<1>10. TakenBy(pc', tag') = 0 /\ index' \in Nat
  BY <1>1, <1>4, <1>5 DEF TakenBy
<1>11. Result' = <<>>
  BY <1>3, <1>8 DEF SizeInv, Result, Reading
<1>12. TakenBy(pc', tag') <= index' /\ Affordable(stack', Budget(index' - TakenBy(pc', tag')))
  <2>1. \A x \in Nat : x - 0 = x /\ 0 <= x
    OBVIOUS
  <2>2. index' - TakenBy(pc', tag') = index' /\ TakenBy(pc', tag') <= index'
    BY <1>10, <2>1, Zenon
  <2> QED BY <1>9, <2>2
<1> QED BY <1>1, <1>8, <1>11, <1>12 DEF SizeInv

LEMMA StepSizes == IInv /\ SizeInv /\ [Next]_vars => SizeInv'
<1> SUFFICES ASSUME IInv, SizeInv, [Next]_vars PROVE SizeInv'
  OBVIOUS
<1>0. /\ index \in Nat /\ length \in Nat /\ left \in Nat /\ Limit \in Nat
      /\ input \in Seq(Byte) /\ Len(input) \in Nat /\ index <= Limit /\ Limit <= Len(input)
      /\ Frames(stack) /\ Nested(stack, Len(input)) /\ Len(stack) > 0 /\ Contents(stack)
      /\ MaxLengthBytes \in Nat
  <2>1. Limit \in 0..Len(input)
    BY TopOfStack DEF IInv, Limit, Top
  <2> QED BY <2>1, LengthBytesAssumption DEF IInv, SizeInv, Nested
<1>1. ASSUME pc \in {"tag", "length", "body"}
      PROVE  IsTagBytes(tag) /\ tag \in Seq(Nat) /\ Len(tag) \in Nat /\ Len(tag) > 0
  BY <1>1 DEF SizeInv, IsTagBytes
<1>2. CASE NoElement \/ EndOfTagOrLengthMissing \/ UnknownLengthOfPrimitive \/ LengthTooLong
           \/ SumTooLarge \/ BodyTooLong \/ EndOfContentsMissing
  <2>1. pc \in Reading /\ \E how \in {"none", "panic"} : Stop(how)
    BY <1>2 DEF NoElement, EndOfTagOrLengthMissing, UnknownLengthOfPrimitive, LengthTooLong,
                SumTooLarge, BodyTooLong, EndOfContentsMissing, Reading
  <2> QED BY <2>1, StoppedSizes
<1>3. CASE StartElement
  <2>1. /\ pc = "element" /\ index < Limit /\ index' = index + 1 /\ tag' = <<At(index)>>
        /\ pc' = IF At(index) \in LongTag THEN "tag" ELSE "length"
        /\ UNCHANGED <<input, stack>>
    BY <1>0, <1>3 DEF StartElement
  <2>2. At(index) \in Nat
    BY <2>1, ByteRead
  <2>3. tag' \in Seq(Nat) /\ Len(tag') = 1 /\ tag'[1] = At(index)
    BY <2>1, <2>2
  <2>4. IsTagBytes(tag)' /\ (pc' = "tag" => tag'[1] \in LongTag)
    BY <2>1, <2>3 DEF IsTagBytes
  <2>5. TakenBy(pc, tag) = 0 /\ TakenBy(pc', tag') = 1 /\ pc \in Reading /\ pc' \in Reading
    BY <2>1, <2>3 DEF TakenBy, Reading
  <2>6. /\ TakenBy(pc', tag') \in Nat /\ TakenBy(pc, tag) \in Nat /\ index' \in Nat
        /\ TakenBy(pc', tag') <= index' /\ index - TakenBy(pc, tag) <= index' - TakenBy(pc', tag')
    BY <1>0, <2>1, <2>5
  <2> QED BY <2>1, <2>4, <2>5, <2>6, SameContents
<1>4. CASE ContinueTag
  <2>1. /\ pc = "tag" /\ index < Limit /\ index' = index + 1 /\ tag' = Append(tag, At(index))
        /\ pc' \in {"tag", "length"}
        /\ UNCHANGED <<input, stack>>
    BY <1>4 DEF ContinueTag
  <2>2. At(index) \in Nat /\ IsTagBytes(tag) /\ tag[1] \in LongTag
    BY <1>1, <2>1, ByteRead DEF SizeInv
  <2>3. tag' \in Seq(Nat) /\ Len(tag') = Len(tag) + 1 /\ tag'[1] = tag[1]
    BY <1>1, <2>1, <2>2
  <2>4. IsTagBytes(tag)' /\ (pc' = "tag" => tag'[1] \in LongTag)
    BY <1>1, <2>1, <2>2, <2>3 DEF IsTagBytes
  <2>5. /\ TakenBy(pc, tag) = Len(tag) /\ TakenBy(pc', tag') = Len(tag) + 1
        /\ pc \in Reading /\ pc' \in Reading
    BY <2>1, <2>3 DEF TakenBy, Reading
  <2>6. /\ TakenBy(pc', tag') \in Nat /\ TakenBy(pc, tag) \in Nat /\ index' \in Nat
        /\ TakenBy(pc', tag') <= index' /\ index - TakenBy(pc, tag) <= index' - TakenBy(pc', tag')
    BY <1>0, <1>1, <2>1, <2>5 DEF SizeInv
  <2> QED BY <2>1, <2>4, <2>5, <2>6, SameContents
<1>5. CASE UnknownLength
  <2>1. /\ pc = "length" /\ index' = index + 1 /\ Open("indefinite", Limit) /\ input' = input
    BY <1>5 DEF UnknownLength
  <2> QED BY <1>0, <2>1, OpenedSizes
<1>6. CASE ShortLength \/ LongLength
  <2>1. /\ pc = "length" /\ pc' = "body" /\ index' = index + 1
        /\ UNCHANGED <<input, tag, stack>>
    BY <1>6 DEF ShortLength, LongLength
  <2>5. /\ TakenBy(pc, tag) = Len(tag) /\ TakenBy(pc', tag') = Len(tag) + 1
        /\ pc \in Reading /\ pc' \in Reading
    BY <2>1 DEF TakenBy, Reading
  <2>6. /\ TakenBy(pc', tag') \in Nat /\ TakenBy(pc, tag) \in Nat /\ index' \in Nat
        /\ TakenBy(pc', tag') <= index' /\ index - TakenBy(pc, tag) <= index' - TakenBy(pc', tag')
    BY <1>0, <1>1, <2>1, <2>5 DEF SizeInv
  <2>7. IsTagBytes(tag)' /\ pc' # "tag"
    BY <1>1, <2>1 DEF IsTagBytes
  <2> QED BY <2>1, <2>5, <2>6, <2>7, SameContents
<1>8. CASE LengthByte
  <2>1. /\ pc = "body" /\ pc' = "body" /\ index' = index + 1
        /\ UNCHANGED <<input, tag, stack>>
    BY <1>8 DEF LengthByte
  <2>5. /\ TakenBy(pc, tag) = Len(tag) + 1 /\ TakenBy(pc', tag') = Len(tag) + 1
        /\ pc \in Reading /\ pc' \in Reading
    BY <2>1 DEF TakenBy, Reading
  <2>6. /\ TakenBy(pc', tag') \in Nat /\ TakenBy(pc, tag) \in Nat /\ index' \in Nat
        /\ TakenBy(pc', tag') <= index' /\ index - TakenBy(pc, tag) <= index' - TakenBy(pc', tag')
    BY <1>0, <1>1, <2>1, <2>5 DEF SizeInv
  <2>7. IsTagBytes(tag)' /\ pc' # "tag"
    BY <1>1, <2>1 DEF IsTagBytes
  <2> QED BY <2>1, <2>5, <2>6, <2>7, SameContents
<1>9. CASE PrimitiveBody
  <2> DEFINE body == SubSeq(input, index + 1, index + length)
             n == Budget(index - (Len(tag) + 1))
  <2>1. /\ pc = "body" /\ Emit(stack, Encoded(tag, body)) /\ index' = index + length
        /\ input' = input /\ index + length <= Limit
    BY <1>9 DEF PrimitiveBody, Fits
  <2>2. body \in Seq(Nat) /\ Len(body) = length
    <3>1. \A i \in 1..Len(input) : input[i] \in Nat
      BY <1>0, HalfAssumption DEF Byte
    <3>2. input \in Seq(Nat)
      BY <1>0, <3>1
    <3> DEFINE m == index + length
    <3>3. m \in Nat /\ index <= m /\ m <= Len(input) /\ m - index = length
      BY <1>0, <2>1
    <3> HIDE DEF m
    <3>4. SubSeq(input, index + 1, m) \in Seq(Nat) /\ Len(SubSeq(input, index + 1, m)) = m - index
      BY <1>0, <3>2, <3>3, PartOfBytes
    <3> QED BY <3>3, <3>4 DEF m
  <2> HIDE DEF body
  <2>3. TakenBy(pc, tag) = Len(tag) + 1 /\ pc \in Reading
    BY <2>1 DEF TakenBy, Reading
  <2>4. Len(tag) + 1 <= index /\ Affordable(stack, n)
    BY <2>3 DEF SizeInv
  <2>5. n \in Nat /\ n + Len(tag) + 1 + MaxLengthBytes + Len(body) <= Budget(index')
    <3> DEFINE a == index - (Len(tag) + 1)
               b == Len(tag) + 1
    <3>1. a \in Nat /\ b \in Nat /\ b > 0 /\ index' = (a + b) + length /\ a + b \in Nat
      BY <1>0, <1>1, <2>1, <2>4
    <3>2. b = Len(tag) + 1 /\ n = Budget(a)
      OBVIOUS
    <3> HIDE DEF a, b, n
    <3>3. /\ Budget(index') = Budget(a) + Budget(b) + Budget(length)
          /\ Budget(a) \in Nat /\ Budget(b) \in Nat /\ Budget(length) \in Nat
          /\ b + MaxLengthBytes <= Budget(b) /\ length <= Budget(length)
      <4>1. Budget((a + b) + length) = Budget(a + b) + Budget(length)
        BY <1>0, <3>1, BudgetGrows
      <4>2. Budget(a + b) = Budget(a) + Budget(b)
        BY <3>1, BudgetGrows
      <4> QED BY <1>0, <3>1, <4>1, <4>2, BudgetGrows
    <3>4. Len(tag) \in Nat
      BY <1>1, <2>1
    <3> QED BY <1>0, <2>2, <3>2, <3>3, <3>4
  <2>6. Len(body) <= Budget(Len(input))
    <3>1. length <= Len(input)
      BY <1>0, <2>1
    <3>2. length <= Budget(length) /\ Budget(length) <= Budget(Len(input))
          /\ Budget(length) \in Nat /\ Budget(Len(input)) \in Nat
      BY <1>0, <3>1, BudgetGrows
    <3> QED BY <1>0, <2>2, <3>2
  <2>7. stack[1].content = <<>> /\ index' \in Nat
    BY <1>0, <2>1 DEF SizeInv, Result
  <2> HIDE DEF n
  <2> QED BY <1>0, <1>1, <2>1, <2>2, <2>3, <2>4, <2>5, <2>6, <2>7, GivenSizes
<1>10. CASE ConstructedBody
  <2>1. /\ pc = "body" /\ index' = index /\ Open("definite", index + length) /\ input' = input
    BY <1>10 DEF ConstructedBody
  <2> QED BY <1>0, <2>1, OpenedSizes
<1>11. CASE NextChild
  <2>1. pc = "children" /\ pc' = "element" /\ index' = index /\ UNCHANGED <<input, tag, stack>>
    BY <1>11 DEF NextChild
  <2>2. /\ TakenBy(pc, tag) = 0 /\ TakenBy(pc', tag') = 0 /\ pc \in Reading /\ pc' \in Reading
        /\ pc' \notin {"tag", "length", "body"}
    BY <2>1 DEF TakenBy, Reading
  <2>3. /\ TakenBy(pc', tag') \in Nat /\ TakenBy(pc, tag) \in Nat /\ index' \in Nat
        /\ TakenBy(pc', tag') <= index' /\ index - TakenBy(pc, tag) <= index' - TakenBy(pc', tag')
    BY <1>0, <2>1, <2>2
  <2> QED BY <2>1, <2>2, <2>3, SameContents
<1>12. CASE Close
  <2> DEFINE frames == SubSeq(stack, 1, Len(stack) - 1)
             t == Top.tag
             c == Top.content
             n == Budget(index)
  <2>1. /\ pc = "children" /\ Emit(frames, Encoded(t, c)) /\ input' = input
        /\ index' \in {index, index + 2}
    BY <1>12 DEF Close
  <2>2. Len(stack) > 1 /\ pc \in Reading /\ TakenBy(pc, tag) = 0
    BY <2>1 DEF IInv, Reading, TakenBy
  <2>3. Frames(frames) /\ Nested(frames, Len(input))
    BY <1>0, <2>2, Popped
  <2>4. n \in Nat /\ Affordable(stack, n)
    <3>1. Affordable(stack, Budget(index - 0)) /\ index - 0 = index
      BY <1>0, <2>2 DEF SizeInv
    <3> QED BY <1>0, <3>1, BudgetGrows
  <2> HIDE DEF n
  <2>5. /\ Contents(frames) /\ frames[1] = stack[1]
        /\ \E m \in Nat : Affordable(frames, m)
             /\ m + Len(t) + 1 + MaxLengthBytes + Len(c) <= n
    BY <1>0, <2>2, <2>4, AffordablePopped DEF Top
  <2>6. PICK m \in Nat : Affordable(frames, m) /\ m + Len(t) + 1 + MaxLengthBytes + Len(c) <= n
    BY <2>5
  <2>7. IsTagBytes(t) /\ c \in Seq(Nat)
    <3>1. Len(stack) \in 1..Len(stack)
      BY <1>0, TopOfStack
    <3> QED BY <1>0, <2>2, <3>1 DEF Contents, Top
  <2>8. frames[1].content = <<>>
    BY <2>1, <2>5 DEF SizeInv, Result
  <2> HIDE DEF frames, t, c
  <2>9. Len(t) \in Nat /\ Len(c) \in Nat
    BY <2>7 DEF IsTagBytes
  <2>10. Len(c) <= Budget(Len(input))
    <3>1. n <= Budget(Len(input)) /\ Budget(Len(input)) \in Nat
      BY <1>0, BudgetGrows DEF n
    <3> QED BY <1>0, <2>4, <2>6, <2>9, <3>1
  <2>11. index' \in Nat /\ m + Len(t) + 1 + MaxLengthBytes + Len(c) <= Budget(index')
    <3>1. index' \in Nat /\ index <= index'
      BY <1>0, <2>1
    <3>2. n <= Budget(index') /\ Budget(index') \in Nat
      BY <1>0, <3>1, BudgetGrows DEF n
    <3> QED BY <1>0, <2>4, <2>6, <2>9, <3>1, <3>2
  <2> QED BY <2>1, <2>2, <2>3, <2>5, <2>6, <2>7, <2>8, <2>10, <2>11, GivenSizes
<1>13. CASE UNCHANGED vars
  BY <1>13 DEF vars, SizeInv, Result, ResultIsElement, Contents
<1> QED BY <1>2, <1>3, <1>4, <1>5, <1>6, <1>8, <1>9, <1>10, <1>11, <1>12, <1>13 DEF Next

(* The reader that parses the CMS finds one element in what the normalisation
   made of a signature's content and nothing behind it, whatever the bytes and
   the nesting, for all sizes of a byte and of a machine word
   (normalized_asn1_first_object, Reader::read_tlv). *)
THEOREM ReaderAlwaysTakesAll == Spec => []ReaderTakesAll
<1>1. IInv /\ SizeInv => ReaderTakesAll
  <2> SUFFICES ASSUME SizeInv, pc = "done", Result[1] \notin LongTag
               PROVE  ReadTlv(Result).found /\ ReadTlv(Result).behind = Len(Result)
    BY DEF ReaderTakesAll
  <2>1. PICK t \in Seq(Nat), c \in Seq(Nat) : /\ IsTagBytes(t) /\ Result = Encoded(t, c)
                                              /\ Len(c) <= Budget(Len(input))
    BY DEF SizeInv, ResultIsElement
  <2>2. Len(c) < Word /\ Len(Digits(Len(c))) <= MaxLengthBytes
    BY <2>1, ElementFits DEF SizeInv
  <2>3. Len(t) = 1
    <3>1. \A i \in 1..Len(t) : Encoded(t, c)[i] = t[i]
      BY EncodedParts, Zenon
    <3>2. 1 \in 1..Len(t)
      BY <2>1 DEF IsTagBytes
    <3>3. Result[1] = t[1]
      BY <2>1, <3>1, <3>2
    <3> QED BY <2>1, <3>3 DEF IsTagBytes
  <2> QED BY <2>1, <2>2, <2>3, ReaderTakesElement
<1> QED BY <1>1, Initially, Step, InitialSizes, StepSizes, PTL DEF Spec
=============================================================================
