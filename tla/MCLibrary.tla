------------------------------ MODULE MCLibrary ------------------------------
(* Instance for TLC of the components that stand alone.                    *)
EXTENDS Library

\* Frames with one or two header lines, with no length, with too large a length, with a
\* body that is no message, and with a header that outgrows the limit.
Frame(header, body) == [header |-> header, body |-> body]
Good(n) == [i \in 1..n |-> <<"good", 0>>]
Length(n) == <<"length", n>>
OtherLine == <<"other", 0>>
SomeFrames ==
  {Frame(<<Length(1)>>, Good(1)), Frame(<<OtherLine, Length(2)>>, Good(2)),
   Frame(<<OtherLine>>, Good(1)), Frame(<<Length(4)>>, Good(4)),
   Frame(<<Length(1)>>, <<<<"bad", 0>>>>), Frame(<<Length(0)>>, <<>>),
   Frame(<<OtherLine, OtherLine, Length(1)>>, Good(1))}
Place(frame, scope) == [frame |-> frame, scope |-> scope]
AnyHit(name, query) == query = "" \/ name = query
SomePlaces == {Place(0, 0), Place(1, 1), Place(1, 2)}

\* Every list of one line, none, and one of two.
SomeAsked == {<<>>, <<1>>, <<2>>, <<2, 1>>}

TwoOfEach == <<2, 2, 2, 2>>

Text(json, method, id, number, tool) ==
  [json |-> json, method |-> method, id |-> id, number |-> number, tool |-> tool]
SomeLines ==
  {Text("object", "initialize", "number", 1, "none"), Text("object", "tools/list", "number", 2, "none"),
   Text("object", "tools/call", "number", 3, "start"), Text("object", "tools/call", "number", 4, "no name"),
   Text("object", "resources/list", "number", 5, "none"), Text("object", "tools/list", "string", 0, "none"),
   Text("object", "notifications/initialized", "absent", 0, "none"),
   Text("object", "tools/call", "null", 0, "get_state"), Text("object", "none", "number", 6, "none"),
   Text("array", "none", "absent", 0, "none")}

=============================================================================
