----------------------------- MODULE MCAnalyzer -----------------------------
(* Small instances of Analyzer: module 1 is the builtin one. *)
EXTENDS Analyzer, FiniteSets

Single == <<<<1>>, <<2>>, <<3>>>>
Pair == <<<<1>>, <<2, 3>>, <<4>>>>

(* What the modules import, in order. *)
SingleImports ==
  {<<<<>>, a, b, <<>>>> : a \in {<<>>, <<1>>}, b \in {<<1>>, <<2>>, <<1, 2>>}}
PairImports ==
  {<<<<>>, a, <<1>>, b>> : a \in {<<>>, <<1>>}, b \in {<<3>>, <<1, 2>>}}
OwnImports ==
  {<<<<>>, a, b, <<2, 3>>>> : a \in {<<3>>, <<2, 1>>}, b \in {<<2>>, <<1, 2>>, <<1, 3>>}}

Compile(threads, bundles, imports, literals) ==
  [pool : {threads}, bundles : {bundles}, imports : imports, literals : {literals}]

(* One thread and any imports, as in the tests; or more threads, imports   *)
(* of earlier bundles only and literals in one bundle.                     *)
Alone == {CHOOSE w \in Workers : TRUE}
CleanInstances ==
  Compile(Alone, Single, SingleImports, {1, 2, 3})
    \cup Compile(Alone, Pair, OwnImports \cup PairImports, {3, 4})
    \cup Compile(Workers, Single, SingleImports, {3})
    \cup Compile(Workers, Pair, PairImports, {2, 3})

(* Two threads and two modules that import each other. *)
CyclicInstances == Compile(Workers, <<<<1, 2>>>>, {<<<<2>>, <<1>>>>}, {})

(* Two threads and two bundles with literals. *)
LiteralInstances == Compile(Workers, Single, {<<<<>>, <<1>>, <<1>>>>}, {2, 3})

=============================================================================
