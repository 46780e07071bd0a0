------------------------------ MODULE MCShell ------------------------------
(* Module Shell on a small instance. *)
EXTENDS Shell

\* Every construct, some of them nested, and lines with mistakes; a line ends with its newline.
MCInputs ==
  {Append(s, " ") : s \in {
     <<" ">>, <<"a", ";">>, <<"a", "|">>, <<"a", "&">>, <<"c", "d", " ", "a">>,
     <<"a", " ", "b", " ", "c">>, <<"a", ")">>, <<"a", "|", "b", "|", "c">>,
     <<"a", "|", "b", ";", "c">>, <<"a", "&", ";", "b">>, <<"(", "a", ";", "b", ")", "&">>,
     <<"(", "a", "|", "b", ")", ">", "f">>,
     <<"a", "<", "f", " ", "b", ">", ">", "g">>, <<"a", ">", "f", "|", "b", "<", "g">>,
     <<"(", "a", ";", "b", ")", "|", "c">>, <<"a", "|", "(", "b", ";", "c", ")", ";", "d">>}}
=============================================================================
