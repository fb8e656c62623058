----------------------------- MODULE MCRewrite -----------------------------
(* Instances of Rewrite for TLC. *)
EXTENDS RewriteProperties

CONSTANTS RootLength, NameLength  \* bounds: symbols of a text

TextsOf(symbols, n) == UNION {[1..k -> symbols] : k \in 1..n}

\* The roots "/m r", which has an escaped spelling, and "C:/W".
Posix ==
  [windows |-> FALSE, names |-> {<<>>},
   texts |-> TextsOf({"/m r", "/m\\ r", "/", "s", "\\", " ", "\"", "-I"}, RootLength)]
Drive ==
  [windows |-> TRUE, names |-> {<<>>},
   texts |-> TextsOf({"C:/W", "C:\\W", "s", "\\", " ", "\"", "=", "-I"}, RootLength)]
Pair(old, new) == [old |-> old, new |-> new]
Respelled ==
  [windows |-> TRUE,
   names |-> {<<Pair(<<"S", "S">>, <<"eszett">>)>>,
              <<Pair(<<"s", "/", "S">>, <<"S", "/", "s">>), Pair(<<"S">>, <<"s">>)>>},
   texts |-> TextsOf({"/workspace", "s", "S", "eszett", "/", "\\", " ", "-"}, NameLength)]
MCInputs == {Posix, Drive, Respelled}
MCVariants == [w \in BOOLEAN |-> IF w THEN <<{"C:/W", "c:/w"}, {"C:\\W"}>>
                                      ELSE <<{"/m\\ r"}, {"/m r"}>>]
=============================================================================
