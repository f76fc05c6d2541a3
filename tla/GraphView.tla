----------------------------- MODULE GraphView -----------------------------
(***************************************************************************)
(* The graph page with its parser (parser.js), which keeps state between   *)
(* the lines and the queries it parses.  A line of a query is a sequence   *)
(* of operands, each a metric, a call or an expression in parentheses.     *)
(***************************************************************************)
EXTENDS Grapher

-----------------------------------------------------------------------------
(* parser.js.  The operands of a line. *)

Var(m)     == [kind |-> "var", name |-> m]
Call(f, e) == [kind |-> "call", name |-> f, arg |-> e]
Paren(e)   == [kind |-> "paren", arg |-> e]

functions == {"rate", "log"}

(* getVars() of an expression. *)
RECURSIVE getVars(_)
getVars(e) ==
  FlattenSeq([i \in DOMAIN e |-> IF e[i].kind = "var" THEN <<e[i].name>>
                                                      ELSE getVars(e[i].arg)])

(* log() reads a field that does not exist. *)
RECURSIVE evaluates(_)
evaluates(e) ==
  \A i \in DOMAIN e : \/ e[i].kind = "var"
                      \/ e[i].kind = "paren" /\ evaluates(e[i].arg)
                      \/ e[i].kind = "call" /\ e[i].name # "log" /\ evaluates(e[i].arg)

Expression(e) == [line |-> e, vars |-> getVars(e), evaluates |-> evaluates(e)]

Outcome(ok, re) == [ok |-> ok, re |-> re]

(* parse(): the operands from left to right, up to the first one that        *)
(* throws.  The argument of a call is parsed twice.                          *)
RECURSIVE parse(_, _)
parse(e, re) ==
  LET operand(t, r) ==
        CASE t.kind = "var" -> Outcome(TRUE, Rewound)
          [] t.kind = "call" /\ r.call /\ t.name \notin functions ->
               Outcome(FALSE, [r EXCEPT !.call = FALSE])
          [] t.kind = "call" /\ r.call /\ t.name \in functions ->
               LET once == parse(t.arg, [r EXCEPT !.call = FALSE])
               IN  IF once.ok THEN parse(t.arg, once.re) ELSE once
          [] t.kind = "paren" /\ r.paren ->
               parse(t.arg, [call |-> TRUE, paren |-> FALSE])
          [] OTHER -> Outcome(FALSE, Rewound)
      left == parse(Front(e), re)
  IN  IF Len(e) = 0 THEN Outcome(TRUE, re)
      ELSE IF left.ok THEN operand(Last(e), left.re) ELSE left

\* Mutation: an exception of the parser is ignored.
ParsedRegardless(q, re) ==
  [exprs |-> [i \in DOMAIN q |-> Expression(q[i])], wrong |-> FALSE, re |-> Rewound]

(* The lines that parse, and whether one does not. *)
ParseLines(q, re) ==
  FoldLeft(LAMBDA acc, e : LET p == parse(e, acc.re)
                           IN  [exprs |-> IF p.ok THEN Append(acc.exprs, Expression(e))
                                                  ELSE acc.exprs,
                                wrong |-> acc.wrong \/ ~p.ok,
                                re |-> p.re],
           [exprs |-> <<>>, wrong |-> FALSE, re |-> re], q)

-----------------------------------------------------------------------------
(* What the parser accepts: the kinds of operands met from an operand down   *)
(* through first operands.  A call right inside a call and a second pair of  *)
(* parentheses are rejected there, and nowhere else, and an unknown function *)
(* makes the next line start as if it were the argument of a call.           *)
RECURSIVE Descents(_, _)
Descents(e, above) ==
  UNION {LET t    == e[i]
             path == Append(IF i = 1 THEN above ELSE <<>>, t.kind)
         IN  IF t.kind = "var" THEN {Front(path)}
             ELSE Descents(t.arg, path) : i \in DOMAIN e}

Accepted(e, above) ==
  \A path \in Descents(e, above) :
    /\ Len(SelectSeq(path, LAMBDA k : k = "paren")) <= 1
    /\ \A i \in 1..(Len(path) - 1) : path[i] = "paren" \/ path[i + 1] = "paren"

RECURSIVE Known(_)
Known(e) == \A i \in DOMAIN e : \/ e[i].kind = "var"
                                \/ /\ e[i].kind = "call" => e[i].name \in functions
                                   /\ Known(e[i].arg)

(* A line of known functions is accepted if it nests calls and parentheses   *)
(* in the allowed ways, unless an unknown function was met just before; and  *)
(* only such lines are.  The regular expressions are rewound whenever the    *)
(* last line applied had known functions only, so what a query means does    *)
(* not depend on the queries before, but for one with an unknown function.   *)
ParserForgets ==
  /\ query # <<>> /\ Known(Last(query)) => lastIndex = Rewound
  /\ \A i \in DOMAIN query :
       (IF i = 1 THEN queries = 1 ELSE Known(query[i - 1])) =>
         (Contains(expressions, Expression(query[i])) <=> Known(query[i]) /\ Accepted(query[i], <<>>))

-----------------------------------------------------------------------------
=============================================================================
