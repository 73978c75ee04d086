------------------------------ MODULE MCEditor ------------------------------
EXTENDS Editor
SomeClips == {<<"x", CR, NL>>, <<CR>>}
SomeFiles == {<<"kelvin", "x", "x">>}
SomeSpots == {<<1, 1>>}
SomePatterns == {<<"x", "x">>, <<"X", "X">>}
SomeReplacements == {<<>>, <<"x", "x">>}
\* The sign of the kelvin takes three bytes; its lower case is the letter k.
SomeWidths == "kelvin" :> 3
SomeLowerCase == "X" :> "x" @@ "kelvin" :> "k"
=============================================================================
