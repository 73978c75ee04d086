------------------------------ MODULE MCSyntax ------------------------------
EXTENDS Syntax

MCIdents == {"f", "x"}
MCInts == {"1", "9999"}
MCTooLarge == {"9999"}
MCReals == {"2.5"}
MCCharacters == {"'c'"}
MCStrings == {"s"}
MCLetters == {"L", "e", "x"}
MCKeywordLetters == {"K"}

Typing(lead, alphabet, room) == [lead |-> lead, alphabet |-> alphabet, room |-> room]
Def == <<"LET", "f", "(", ")", "=">>
Do == <<"LET", "f", "(", ")", "BE">>

MCScenarios ==
  { \* expressions: the ladder, the postfix operators, the conditional, the constructors, messages
    Typing(Def, {"x", "1", "*", "+", "<<", "=", "&", "|", "-", "~", "(", ")"}, 4),
    Typing(Def, {"x", "!", "%", ".", "|", "(", ")", ",", "%%", "OF", "->"}, 5),
    Typing(Def \o <<"x", ".", "|">>, {"x", "|", "(", ")", ".", "+"}, 6),
    Typing(Def, {"VEC", "NEW", "LIST", "x", "(", ")", "[", "]", ",", "?", "TRUE", "s"}, 4),
    Typing(Def, {"1", "9999", "2.5", "'c'", "s", "+", "!"}, 3),
    Typing(Def \o <<"VALOF">>, {"$(", "$)", "RESULTIS", "x", "AS", "INTEGER", "!"}, 5),
    Typing(Def \o <<"[">>, {"x", "f", ":", "1", "]", "AS", "LIST", "OF", "^"}, 6),
    Typing(Def \o <<"1", "AND">>, {"f", "(", ")", "=", "BE", "x", "AND", ","}, 6),
    \* statements
    Typing(Do, {"IF", "TEST", "UNLESS", "WHILE", "THEN", "DO", "ELSE", "x"}, 6),
    Typing(Do, {"REPEAT", "REPEATWHILE", "IF", "x", "{", "}", ";"}, 6),
    Typing(Do \o <<"FOR">>, {"x", "=", "1", "TO", "BY", "DO", "BREAK"}, 8),
    Typing(Do \o <<"FOREACH">>, {"x", "f", "(", ")", ",", "AS", "IN", "DO"}, 7),
    Typing(Do \o <<"SWITCHON", "x", "INTO", "$(">>, {"CASE", "DEFAULT", "1", ":", "x", ";", "$)"}, 7),
    Typing(Do, {"x", "f", ",", ":=", "!", "(", ")"}, 6),
    Typing(Do \o <<"$(">>, {"x", ":", "GOTO", "POOL", "{", "}", "$)", "RETAIN", "="}, 5),
    Typing(Do \o <<"USING">>, {"x", "=", "f", "(", ")", "DO", "RETURN"}, 6),
    \* declarations
    Typing(<<"LET", "f">>, {"x", "AS", "INTEGER", "POINTER", "TO", "OF", ",", "=", "1"}, 5),
    Typing(<<"LET", "f", "(">>, {"x", ",", "AS", "LIST", ")", "=", "1"}, 6),
    Typing(<<>>, {"MANIFEST", "STATIC", "GLOBAL", "$(", "$)", "x", "=", ":", "1"}, 6),
    Typing(<<"LET", "f", "(", ")">>, {"=", "BE", "ASM", "{", "}", "x", "AS"}, 6),
    Typing(<<>>, {"CLASS", "f", "EXTENDS", "MANAGED", "BE", "{", "}", "GET", "s", ";"}, 6),
    Typing(<<"CLASS", "f", "$(">>, {"DECL", "LET", "FLET", "x", ",", "=", "1", "$)", "PRIVATE", ":"}, 5),
    Typing(<<"CLASS", "f", "$(">>, {"VIRTUAL", "FINAL", "ROUTINE", "LET", "x", "(", ")", "=", "$)"}, 7) }
MCTexts ==
  { Typing(<<>>, {"1", "e", ".", "+", "8", "#", "x"}, 5),
    Typing(<<>>, {"<", "=", ".", "#", "~", ">", "-", "%", ":", "/"}, 4),
    Typing(<<>>, {"/", "*", "nl", "quote", "'", "L", " "}, 5),
    Typing(<<>>, {"$", "(", "L", "K", "1", ")"}, 4) }
=============================================================================
