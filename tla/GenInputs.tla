------------------------------ MODULE GenInputs ------------------------------
(* The programs that Gen is checked with.                                  *)
EXTENDS Gen

X == Identifier("x")
Y == Identifier("y")
Plus(l, r) == ExpBinop("+", l, r)
Set(var, e) == ExpBinop("=", Pattern(var), e)

\* add_i64 of the module builtin.
Add == Definition("add", "EXPORTED", <<"_1", "_2">>, <<>>)

\* Twice the first argument and once the second, with a variable in between.
Twice(name, a, b, v) ==
    Definition(name, "EXPORTED", <<a, b>>,
        <<DclVariable(v), Set(v, Plus(Identifier(a), Identifier(b))),
          StmReturn(Plus(Identifier(v), Identifier(a)))>>)

\* The function of test/data/gen/moduleB.in.
Increment(name) ==
    Definition(name, "EXPORTED", <<"x">>,
        <<DclVariable("y"), Set("y", Plus(LitInteger(1), X)), StmReturn(Y)>>)

\* Calls f with its arguments swapped, inside the arguments of another call.
Nested(name, f) ==
    Definition(name, "EXPORTED", <<"p", "q">>,
        <<StmReturn(FunCall(f, <<FunCall(f, <<Identifier("q"), LitInteger(64)>>), Identifier("p")>>))>>)

\* A function that is not exported, called before and after it is defined, and
\* one that calls itself.
Helper == Definition("h", "LOCAL", <<"a">>, <<DclVariable("b"), Set("b", Identifier("a")), StmReturn(Identifier("b"))>>)
UsesHelper(name) ==
    Definition(name, "EXPORTED", <<"x">>,
        <<DclVariable("y"), Set("y", FunCall("h", <<X>>)), StmReturn(FunCall("h", <<Y>>))>>)
Recursive(name) ==
    Definition(name, "EXPORTED", <<"r">>, <<StmReturn(FunCall(name, <<Identifier("r")>>))>>)

Builtin == <<Add>>

\* The workers never import the same function.
Apart ==
    {<<Builtin, <<Increment("f")>>>>,
     <<<<Twice("g", "a", "b", "v")>>, Builtin>>,
     <<<<UsesHelper("f"), Helper, Recursive("g")>>, <<Nested("k", "add")>>, Builtin>>,
     <<<<Helper, UsesHelper("f")>>, <<Twice("g", "c", "d", "v")>>, Builtin>>}

\* Two bundles that call the functions of the others.
Together ==
    {<<Builtin, <<Twice("g", "a", "b", "v")>>, <<Nested("k", "g"), Increment("f")>>>>,
     <<<<Nested("k", "f")>>, <<Twice("f", "a", "b", "v"), Increment("g")>>, Builtin>>}

Job(threads, programs) == {[workers |-> threads, program |-> p] : p \in programs}

CONSTANTS w1, w2

\* Two workers that share no import, or one worker alone.
MCJobs       == Job({w1, w2}, Apart) \cup Job({w1}, Together)
MCInputs == {<<3, 5>>, <<100, -7>>}
=============================================================================
