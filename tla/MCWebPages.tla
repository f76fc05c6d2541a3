----------------------------- MODULE MCWebPages -----------------------------
(* The pages of the web interfaces, with the parser of the graph page. *)
EXTENDS WebPages, GraphView

A == <<Var("a")>>
B == <<Var("b")>>

MCQueries ==
  { <<A>>, <<B, A>>, << <<Call("log", A)>> >>,
    << <<Call("oops", A)>>, <<Call("rate", B)>> >>,
    << <<Call("rate", <<Paren(A)>>)>> >>,
    << <<Call("rate", <<Call("rate", A)>>)>> >>,
    << <<Paren(<<Var("b"), Paren(A)>>)>>, <<Paren(<<Paren(A)>>)>> >> }

MCLists == {<<"p", "q">>, <<"q", "r", "s">>}
MCInitial == <<[first |-> 1, last |-> 1]>>
MCDesired == <<[first |-> 0, last |-> 0]>>
MCScope == <<>>

\* What pauses, resumptions and undone transactions leave behind is followed on
\* the page of an update, as long as no call comes back without a result.
Scenarios ==
  resumes > 0 \/ unsaved # {} => route = "update" /\ lost = 0
=============================================================================
