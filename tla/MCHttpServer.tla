---------------------------- MODULE MCHttpServer ----------------------------
(* An instance of HttpServer for TLC: a client that is there and one to come. *)
EXTENDS HttpServer, TLC

CONSTANTS c1, c2

TwoClients  == {c1, c2}
OneClient   == {c1}
OtherClient == {c2}
AStart      == {"Halted"}
TwoStates   == {"Halted", "Running"}
SomeLines ==
  {Line("initialize", "number", 1, "none"), Line("tools/list", "number", 2, "none"),
   Line("tools/call", "number", 3, "continue")}

=============================================================================
