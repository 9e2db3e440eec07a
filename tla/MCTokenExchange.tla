------------------------- MODULE MCTokenExchange -------------------------
EXTENDS TokenExchange, TLC

(* Two apps of one tenant; app a exchanges its tokens for b's.             *)
OneWay == {<<"a", "b">>}

(* A trust that grants one scope, and one that grants every scope.         *)
ReadOrAny == {{"read"}, {AnyScope}}
ReadOnly == {{"read"}}

RequestSymmetry == Permutations(Requests)
===========================================================================
