----------------------------- MODULE MC_Plugins -----------------------------
(* f1 brings n1; f2 brings n1 and n2, and collides with it; f3 brings a name *)
(* of the framework; f4 declares n2 and does not build it; f5 brings n3; f6  *)
(* is not sound.                                                             *)
(* "a" is f1 in d1 and an older f2 in d2; "b" is f2 in d1, and in d2 a link  *)
(* to f1; "x" is f1 by its path. The blocks load in both orders, with the    *)
(* right provides:, a wrong one and none.                                    *)
EXTENDS Plugins

MCNames == {"n1", "n2", "n3", "fw"}
MCDeclares == [f \in Files |-> CASE f = "f1" -> {"n1"} [] f = "f2" -> {"n1", "n2"}
                                 [] f = "f3" -> {"fw"} [] f = "f5" -> {"n3"} [] OTHER -> {"n2"}]
MCBuilds == [f \in Files |-> IF f = "f4" THEN {} ELSE MCDeclares[f]]
Shelf(a, b) == [s \in Specs |-> CASE s = "a" -> a [] s = "b" -> b [] OTHER -> "none"]
MCFileAt ==
  [p \in Dirs \cup {Here} |->
     CASE p = "d1" -> Shelf("f1", "f2") [] p = "d2" -> Shelf("f2", "f1")
       [] OTHER -> [s \in Specs |-> CASE s = "x" -> "f1" [] s = "c" -> "f3" [] s = "e" -> "f4"
                                       [] s = "g" -> "f5" [] s = "u" -> "f6" [] OTHER -> "none"]]
Entry(s, p) == [file |-> s, provides |-> p]
Block(p, ms) == [paths |-> p, modules |-> ms]
MCBlocks ==
  {Block(d, <<Entry(s, p)>>) : d \in {<<"d1", "d2">>, <<"d2", "d1">>}, s \in {"a", "b"},
                               p \in {{}, {"n1"}, {"n1", "n2"}}}
    \cup {Block(<<"d1">>, <<Entry("a", {}), Entry("x", {"n1"})>>),
          Block(<<"d1">>, <<Entry("x", {}), Entry("b", {})>>),
          Block(<<>>, <<>>), Block(<<>>, <<Entry("a", {})>>)}
    \cup {Block(<<>>, <<Entry(s, {})>>) : s \in {"c", "e", "g", "u"}}
=============================================================================
