-------------------------------- MODULE Words --------------------------------
(***************************************************************************)
(* The machine words compiled code works on: WordBits stands for the 64 of *)
(* the target, and every width derived from it scales along.  A word is    *)
(* written as the signed integer it represents.  Floating-point numbers    *)
(* are multiples of one half, written as the number of halves; a double    *)
(* fills a word and a single half a word.                                  *)
(***************************************************************************)
EXTENDS Integers, Sequences
LOCAL INSTANCE Bitwise

CONSTANT WordBits
ASSUME WordsAssumption == WordBits \in {8, 16}

WordBytes == WordBits \div 8
Signed(n, bits) == ((n + 2 ^ (bits - 1)) % 2 ^ bits) - 2 ^ (bits - 1)
Word(n) == Signed(n, WordBits)
Unsigned(n, bits) == n % 2 ^ bits

(* The integer operators of the target; shifts by a word or more are poison *)
(* there and are not asked for here.                                        *)
Shl(a, n) == Word(a * 2 ^ n)
Shr(a, n) == a \div 2 ^ n                          \* ashr
BitAnd(a, b) == Word(Unsigned(a, WordBits) & Unsigned(b, WordBits))
BitOr(a, b) == Word(Unsigned(a, WordBits) | Unsigned(b, WordBits))
BitXor(a, b) == Word(Unsigned(a, WordBits) ^^ Unsigned(b, WordBits))
AbsOf(a) == IF a < 0 THEN 0 - a ELSE a
Towards0(a, b) ==                                  \* sdiv, fptosi
  IF (a < 0) = (b < 0) THEN AbsOf(a) \div AbsOf(b) ELSE 0 - AbsOf(a) \div AbsOf(b)
Rem0(a, b) == a - b * Towards0(a, b)               \* srem

(***************************************************************************)
(* The bits of a number.  As with IEEE numbers, zero is the word 0, and    *)
(* small integers are not the bits of any number a program computes with:  *)
(* NaN stands for everything such bits may denote.                         *)
(***************************************************************************)
NaN == 99999
FloatBits(k, bits) ==
  CASE k = NaN -> 2 ^ (bits - 1) - 1
    [] k = 0 -> 0
    [] k > 0 -> 2 ^ (bits - 2) + k
    [] k < 0 -> 2 ^ (bits - 2) - k - 2 ^ (bits - 1)
FloatOf(w, bits) ==
  LET magnitude == Unsigned(w, bits - 1) - 2 ^ (bits - 2)
  IN  IF w = 0 THEN 0
      ELSE IF magnitude \in 1 .. 2 ^ (bits - 3) THEN IF w < 0 THEN 0 - magnitude ELSE magnitude
      ELSE NaN

(* Lane i, counted from 0 at the low end, of a word of lanes `bits` wide. *)
Lane(w, i, bits) == Signed(Shr(w, i * bits), bits)
=============================================================================
