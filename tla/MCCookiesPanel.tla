--------------------------- MODULE MCCookiesPanel ---------------------------
(***************************************************************************)
(* Two cards, and two flows.                                               *)
(***************************************************************************)
EXTENDS CookiesPanel

OneKept == {[card |-> "shop", path |-> "/"]}
TwoCards == OneKept \cup {[card |-> "mail", path |-> "/"]}
=============================================================================
