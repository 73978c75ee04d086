------------------------------- MODULE Lexer -------------------------------
(***************************************************************************)
(* The scanner, newbcpl-lexer/src/lib.rs.  A text is a sequence of         *)
(* characters; a token is its kind and the place after its last character. *)
(* Letters and digits are the few an instance types; lower case e and x    *)
(* stand for either case where the code takes either.                      *)
(***************************************************************************)
EXTENDS Naturals, Sequences, FiniteSetsExt

CONSTANTS Letters, KeywordLetters     \* letters, and the one-letter word that is a keyword

Octal == {"0", "1", "7"}
Digits == Octal \cup {"8", "9"}
HexDigits == Digits \cup {"e", "a"}
IdentStart == Letters \cup KeywordLetters \cup {"_"}
IdentContinue == IdentStart \cup Digits
Whitespace == {" ", "nl"}
FloatMarker == {".", "#"}
NoChar == "<none>"

Char(text, n) == IF n <= Len(text) THEN text[n] ELSE NoChar

(* The first place from n on whose character is not in chars. *)
Past(text, n, chars) == Min({i \in n .. (Len(text) + 1) : Char(text, i) \notin chars})

Token(kind, end) == [kind |-> kind, end |-> end]
Error(end) == Token("Error", end)
Bad == 0                              \* the place an unterminated comment leads to

(* Whitespace, // to the end of the line and /* to the next */; from n to a token or the end. *)
RECURSIVE SkipTrivia(_, _)
SkipTrivia(text, n) ==
  LET c == Char(text, n)
      d == Char(text, n + 1)
      closes == {i \in (n + 2) .. (Len(text) - 1) : text[i] = "*" /\ text[i + 1] = "/"}
  IN  CASE c \in Whitespace -> SkipTrivia(text, n + 1)
        [] c = "/" /\ d = "/" ->
             SkipTrivia(text, Min({i \in n .. (Len(text) + 1) : Char(text, i) \in {"nl", NoChar}}))
        [] c = "/" /\ d = "*" -> IF closes = {} THEN Bad ELSE SkipTrivia(text, Min(closes) + 2)
        [] OTHER -> n

IsKeyword(text, n, end) == end = n + 1 /\ text[n] \in KeywordLetters
LexWord(text, n) ==
  LET end == Past(text, n, IdentContinue)
  IN  Token(IF IsKeyword(text, n, end) THEN "Keyword" ELSE "Identifier", end)

(* Digits, then .digits, then e digits with a sign or none; what does not go on to a digit *)
(* is not part of the number.                                                              *)
Fraction(text, n) ==
  IF Char(text, n) = "." /\ Char(text, n + 1) \in Digits THEN Past(text, n + 1, Digits) ELSE n
ExponentAnyway(text, n) ==
  IF Char(text, n) = "e" THEN Past(text, n + 1, Digits) ELSE n
Exponent(text, n) ==
  LET digit == IF Char(text, n + 1) \in {"+", "-"} THEN n + 2 ELSE n + 1
  IN  IF Char(text, n) = "e" /\ Char(text, digit) \in Digits THEN Past(text, digit, Digits) ELSE n
LexDecimalNumber(text, n) ==
  LET whole == Past(text, n, Digits)
      end == Exponent(text, Fraction(text, whole))
  IN  Token(IF end = whole THEN "Integer" ELSE "Real", end)

(* # alone is a symbol; #X needs a digit, and an octal number stands no 8 or 9. *)
LexHashNumber(text, n) ==
  LET hex == Past(text, n + 2, HexDigits)
      oct == Past(text, n + 1, Octal)
  IN  CASE Char(text, n + 1) = "x" -> IF hex = n + 2 THEN Error(hex) ELSE Token("Integer", hex)
        [] Char(text, n + 1) \in Digits ->
             IF Char(text, oct) \in {"8", "9"} \/ oct = n + 1 THEN Error(oct) ELSE Token("Integer", oct)
        [] OTHER -> Token("Symbol", n + 1)

(* To the next quote on the line; * takes the character after it along, whatever it is. *)
RECURSIVE StringEnd(_, _)
StringEnd(text, n) ==
  CASE Char(text, n) \in {NoChar, "nl"} -> Bad
    [] Char(text, n) = "quote" -> n + 1
    [] Char(text, n) = "*" -> IF Char(text, n + 1) = NoChar THEN Bad ELSE StringEnd(text, n + 2)
    [] OTHER -> StringEnd(text, n + 1)
LexString(text, n) ==
  LET end == StringEnd(text, n + 1) IN IF end = Bad THEN Error(n) ELSE Token("String", end)

LexCharacter(text, n) ==
  LET c == Char(text, n + 1)
      close == IF c = "*" THEN n + 3 ELSE n + 2
  IN  IF c \in {NoChar, "'", "nl"} \/ Char(text, close) # "'" THEN Error(n)
      ELSE Token("Character", close + 1)

(* $( or $) with the tag written against it. *)
LexDollar(text, n) ==
  CASE Char(text, n + 1) \notin {"(", ")"} -> Error(n)
    [] Char(text, n + 2) \in IdentStart -> Token("Symbol", Past(text, n + 2, IdentContinue))
    [] OTHER -> Token("Symbol", n + 2)

(* How far an operator reaches, by what follows its first character. *)
Marked(text, n) == IF Char(text, n) \in FloatMarker THEN n + 1 ELSE n
SymbolEnd(text, n) ==
  LET c == text[n]
      d == Char(text, n + 1)
  IN  CASE c \in {"+", "*", "/", "="} -> Marked(text, n + 1)
        [] c = "-" -> IF d = ">" THEN n + 2 ELSE Marked(text, n + 1)
        [] c = "." -> IF d = "%" THEN n + 2 ELSE n + 1
        [] c = "~" -> IF d = "=" THEN Marked(text, n + 2) ELSE n + 1
        [] c \in {"<", ">"} -> CASE d = c -> n + 2
                                 [] d = "=" -> Marked(text, n + 2)
                                 [] OTHER -> Marked(text, n + 1)
        [] c = ":" -> IF d = "=" THEN n + 2 ELSE n + 1
        [] c = "%" -> IF d = "%" THEN n + 2 ELSE n + 1
        [] OTHER -> n + 1
Lonely == {"!", "@", "&", "|", "^", "(", ")", "[", "]", "{", "}", ",", ";", "?", "\\"}
Operators == {"+", "-", "*", "/", ".", "=", "~", "<", ">", ":", "%"} \cup Lonely
LexSymbol(text, n) ==
  IF text[n] \in Operators THEN Token("Symbol", SymbolEnd(text, n)) ELSE Error(n + 1)

NextToken(text, n) ==                     \* the token that begins at n, trivia before it skipped
  LET c == text[n]
  IN  CASE c \in IdentStart -> LexWord(text, n)
        [] c \in Digits -> LexDecimalNumber(text, n)
        [] c = "#" -> LexHashNumber(text, n)
        [] c = "quote" -> LexString(text, n)
        [] c = "'" -> LexCharacter(text, n)
        [] c = "$" -> LexDollar(text, n)
        [] OTHER -> LexSymbol(text, n)

(* The tokens of a text, each with the place it begins at; a bad one is the last. *)
RECURSIVE LexFrom(_, _, _)
LexFrom(text, n, tokens) ==
  LET start == SkipTrivia(text, n)
      token == NextToken(text, start)
      read == Append(tokens, [kind |-> token.kind, start |-> start, end |-> token.end])
  IN  CASE start = Bad -> Append(tokens, [kind |-> "Error", start |-> n, end |-> n])
        [] start > Len(text) -> tokens
        [] start \in 1 .. Len(text) /\ token.kind = "Error" -> read
        [] start \in 1 .. Len(text) /\ token.kind # "Error" -> LexFrom(text, token.end, read)
LexSource(text) == LexFrom(text, 1, <<>>)
============================================================================
