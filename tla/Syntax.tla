------------------------------- MODULE Syntax -------------------------------
(***************************************************************************)
(* A text is typed one character at a time, or a program one token at a    *)
(* time, and after each the front end reads what is there.  A scenario     *)
(* gives the tokens a program begins with, those that may follow and how   *)
(* many; a program no continuation can save is not typed on.               *)
(***************************************************************************)
EXTENDS Parser, Lexer, FiniteSets

CONSTANTS
  Scenarios,        \* records [lead, alphabet, room] of programs
  Texts             \* records [lead, alphabet, room] of texts

VARIABLES
  scenario,         \* what is being typed
  source,           \* the program's tokens, or
  text,             \* the characters
  outcome           \* what parse_program makes of the tokens: ok, the place, the tree

vars == <<scenario, source, text, outcome>>

Outcome(tokens) ==
  LET r == ParseProgram(tokens) IN [ok |-> r.ok, at |-> r.self.at, tree |-> r.tree]

Init ==
  /\ \/ scenario \in Scenarios /\ source = scenario.lead /\ text = <<>>
     \/ scenario \in Texts /\ source = <<>> /\ text = scenario.lead
  /\ outcome = Outcome(source)

(* The parser looks two tokens ahead, so a longer program may mend an error there. *)
Viable == outcome.ok \/ outcome.at >= Len(source) - 1

TypeToken ==
  /\ scenario \in Scenarios
  /\ Viable
  /\ Len(source) < Len(scenario.lead) + scenario.room
  /\ \E t \in scenario.alphabet : source' = Append(source, t)
  /\ outcome' = Outcome(source')
  /\ UNCHANGED <<scenario, text>>

TypeCharacter ==
  /\ scenario \in Texts
  /\ Len(text) < Len(scenario.lead) + scenario.room
  /\ \E c \in scenario.alphabet : text' = Append(text, c)
  /\ UNCHANGED <<scenario, source, outcome>>

(***************************************************************************)
(* What was written, brackets apart: one word for each group of synonyms,  *)
(* words that only lead on, separators and visibilities left out.          *)
(***************************************************************************)
Synonyms ==
  ("TEST" :> "IF") @@ ("FVALOF" :> "VALOF") @@ ("BNOT" :> "~") @@ ("BAND" :> "&") @@ ("|" :> "BOR")
  @@ ("*#" :> "*.") @@ ("<=#" :> "<=.") @@ (":" :> "=") @@ ("POINTER" :> "^")
Brackets == {"(", ")", "[", "]", "$(", "$)", "{", "}"}
Leads == {"THEN", "DO", "INTO", "BE", "TO", "ROUTINE", "FUNCTION", "MANAGED", "LET", "DECL"}
Words(tokens) ==
  LET Kept(i) == /\ tokens[i] \notin Brackets \cup Leads \cup {";"}
                 /\ tokens[i] \in Visibilities \cup {":"} =>
                      ~\E j \in {i - 1, i} \cap (1 .. Len(tokens) - 1) :
                         tokens[j] \in Visibilities /\ tokens[j + 1] = ":"
                 /\ tokens[i] = "," => i < Len(tokens) /\ tokens[i + 1] \notin {")", "]"}
                 /\ tokens[i] = "AND" => ~LikeDecl(SubSeq(tokens, i + 1, Len(tokens)))
                 /\ tokens[i] = "AS" => /\ i < Len(tokens)
                                        /\ tokens[i + 1] \in Idents \cup TypeNames \cup {"^", "POINTER"}
      Word(t) == IF t \in DOMAIN Synonyms THEN Synonyms[t] ELSE t
      kept == SelectSeq([i \in 1 .. Len(tokens) |-> i], Kept)
  IN  [k \in 1 .. Len(kept) |-> Word(tokens[kept[k]])]
Parentheses(tokens) == Cardinality({i \in 1 .. Len(tokens) : tokens[i] \in {"(", "["}})

(* A tree says all that was read: spelled out, it is read as the same tree. *)
RereadTheSame ==
  outcome.ok => LET again == Outcome(Program(outcome.tree)) IN again.ok /\ again.tree = outcome.tree

(* What the parser is known to drop or to move: the AS of a result and of VALOF, and the     *)
(* arms of a SWITCHON around a DEFAULT that is not the last of them.                         *)
Dropped ==
  \/ \E i \in 2 .. Len(source) : source[i] = "AS" /\ source[i - 1] \in {")", "VALOF", "FVALOF"}
  \/ \E i, j \in 1 .. Len(source) : i < j /\ source[i] = "DEFAULT" /\ source[j] \in {"CASE", "DEFAULT"}

(* Nothing written is lost, doubled or moved, and the operators group by one ladder, that of *)
(* parser.rs, wherever they stand: spelled with the parentheses that ladder calls for, the   *)
(* tree has the same words and needs no parenthesis that was not written.  The manual's      *)
(* ladder (2.7) puts prefix operators above the postfix ones instead.                        *)
ReadAsWritten ==
  LET spelled == Program(outcome.tree)
  IN  outcome.ok /\ ~Dropped =>
        /\ Words(spelled) = Words(source)
        /\ Parentheses(spelled) <= Parentheses(source)

(***************************************************************************)
(* The shapes of tokens, as the language has them.                         *)
(***************************************************************************)
AllIn(s, chars) == s # <<>> /\ \A i \in 1 .. Len(s) : s[i] \in chars
From(s, i) == SubSeq(s, i, Len(s))
IsExponent(s) ==
  s # <<>> /\ s[1] = "e"
  /\ \/ AllIn(From(s, 2), Digits)
     \/ Len(s) > 1 /\ s[2] \in {"+", "-"} /\ AllIn(From(s, 3), Digits)
IsReal(s) ==
  \E w \in 1 .. Len(s) : \E f \in w .. Len(s) :
    /\ AllIn(SubSeq(s, 1, w), Digits) /\ w < Len(s)
    /\ f = w \/ (s[w + 1] = "." /\ AllIn(SubSeq(s, w + 2, f), Digits))
    /\ f = Len(s) \/ IsExponent(From(s, f + 1))
IsInteger(s) ==
  \/ AllIn(s, Digits)
  \/ Len(s) > 1 /\ s[1] = "#" /\ AllIn(From(s, 2), Octal)
  \/ Len(s) > 2 /\ s[1] = "#" /\ s[2] = "x" /\ AllIn(From(s, 3), HexDigits)
IsWord(s) == s # <<>> /\ s[1] \in IdentStart /\ AllIn(s, IdentContinue)
Symbols ==
  {<<c>> : c \in Operators \cup {"#"}}
  \cup {<<c, m>> : c \in {"+", "-", "*", "/", "=", "<", ">"}, m \in FloatMarker}
  \cup {<<"~", "=">>, <<"<", "=">>, <<">", "=">>, <<"<", "<">>, <<">", ">">>, <<"-", ">">>,
        <<":", "=">>, <<"%", "%">>, <<".", "%">>}
  \cup {<<c, "=", m>> : c \in {"~", "<", ">"}, m \in FloatMarker}
IsSymbol(s) ==
  \/ s \in Symbols
  \/ Len(s) >= 2 /\ s[1] = "$" /\ s[2] \in {"(", ")"} /\ (Len(s) = 2 \/ IsWord(From(s, 3)))
IsQuoted(s) ==
  /\ Len(s) >= 2 /\ s[1] = "quote" /\ s[Len(s)] = "quote"
  /\ \A i \in 2 .. Len(s) - 1 : s[i] = "quote" => s[i - 1] = "*"
IsCharacter(s) ==
  /\ Len(s) \in {3, 4} /\ s[1] = "'" /\ s[Len(s)] = "'"
  /\ Len(s) = 4 <=> s[2] = "*"
HasShape(s, kind) ==
  CASE kind \in {"Identifier", "Keyword"} -> IsWord(s) /\ (kind = "Keyword" <=> s \in {<<k>> : k \in KeywordLetters})
    [] kind = "Integer" -> IsInteger(s)
    [] kind = "Real" -> IsReal(s)
    [] kind = "String" -> IsQuoted(s)
    [] kind = "Character" -> IsCharacter(s)
    [] kind = "Symbol" -> IsSymbol(s)
Unquoted(s) == IsWord(s) \/ IsInteger(s) \/ IsReal(s) \/ IsSymbol(s)

(* Each token has the shape of its kind and reaches as far as any shape does, and what is *)
(* between two tokens begins with a blank or a comment.                                   *)
LongestTokens ==
  LET tokens == LexSource(text)
      Sound(i) == tokens[i].kind # "Error"
      EndBefore(i) == IF i = 1 THEN 1 ELSE tokens[i - 1].end
  IN  \A i \in 1 .. Len(tokens) : Sound(i) =>
        /\ HasShape(SubSeq(text, tokens[i].start, tokens[i].end - 1), tokens[i].kind)
        /\ \A j \in tokens[i].end .. Len(text) : ~Unquoted(SubSeq(text, tokens[i].start, j))
        /\ tokens[i].start # EndBefore(i) =>
             text[EndBefore(i)] \in Whitespace \cup {"/"}

Next == TypeToken \/ TypeCharacter
Spec == Init /\ [][Next]_vars
=============================================================================
