----------------------------- MODULE MCClasses -----------------------------
EXTENDS Classes

CONSTANT None

MCClassNames == <<"A", "B", "C">>
Class(c, base) == [kind |-> "class", name |-> c, extends |-> base, members |-> <<>>]
Fun(f, code) == [kind |-> "function", name |-> f, code |-> code]
Decl(x, vis, as) == [kind |-> "decl", name |-> x, vis |-> vis, as |-> as, init |-> None]
Let(x, vis, init) == [kind |-> "let", name |-> x, vis |-> vis, as |-> None, init |-> init]
Method(m, vis, final, as, code) == [kind |-> "method", name |-> m, vis |-> vis, as |-> as, final |-> final, code |-> code]
Me == <<"name", "SELF">>
P == <<"name", "p">>
Dot(e, f) == <<"dot", e, f>>
Send(e, m) == <<"send", e, m>>
Returns(e) == <<<<"result", e>>>>

Family == {Class("A", None), Class("B", "A"), Class("C", "B")}
MCScenarios ==
  { \* fields, seen from inside, from a subclass, from outside, through another field
    [decls |-> Family \cup {Fun("START", <<<<"let", "v", <<"new", "B">>>>, <<"do", Dot(<<"name", "v">>, "x")>>>>)},
     members |-> {Decl("x", "private", None), Decl("y", "protected", None), Decl("y", "public", "B"),
                  Method("get", "public", FALSE, "A", Returns(Dot(P, "x"))),
                  Method("get", "public", FALSE, None, Returns(Dot(Me, "y"))),
                  Method("peek", "public", FALSE, None, Returns(<<"name", "x">>)),
                  Method("put", "public", FALSE, "B", <<<<"set", Dot(Me, "y"), P>>, <<"do", Dot(Dot(Me, "y"), "y")>>>>)},
     room |-> 5],
    \* messages, SUPER, results of methods and functions, two roots
    [decls |-> {Class("A", None), Class("B", "A"), Class("B", None), Class("A", "B"), Class("C", "B"), Class("C", "NSView"),
                Fun("START", <<<<"do", Send(Send(<<"new", "B">>, "make"), "get")>>, <<"do", Send(<<"call", "f">>, "get")>>>>),
                Fun("f", Returns(<<"new", "C">>))},
     members |-> {Method("make", "public", FALSE, None, Returns(<<"new", "A">>)),
                  Method("make", "protected", FALSE, None, Returns(<<"new", "C">>)),
                  Method("get", "public", FALSE, None, Returns(Send(Me, "make"))),
                  Method("get", "private", FALSE, None, Returns(Send(<<"name", "SUPER">>, "get")))},
     room |-> 6],
    \* construction: initialisers, CREATE written and synthesised, FINAL
    [decls |-> Family \cup {Fun("START", <<<<"do", <<"new", "C">>>>>>)},
     members |-> {Let("x", "public", <<"word">>), Let("y", "public", <<"new", "A">>),
                  [kind |-> "flet", name |-> "z", vis |-> "public", as |-> None, init |-> <<"word">>],
                  Method("CREATE", "public", FALSE, None, <<<<"do", Send(<<"name", "SUPER">>, "CREATE")>>>>),
                  Method("CREATE", "public", TRUE, None, <<>>),
                  Method("RELEASE", "public", TRUE, None, <<<<"do", Dot(Me, "x")>>>>),
                  Method("RELEASE", "public", FALSE, None, <<>>)},
     room |-> 6] }
MCCocoaClasses == {"NSObject", "NSView"}
=============================================================================
