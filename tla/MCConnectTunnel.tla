-------------------------- MODULE MCConnectTunnel --------------------------
(***************************************************************************)
(* Two workers and three connections: two that meet at the CA, for a host  *)
(* it can certify and for one it cannot or for its certificate, and one    *)
(* that is spliced, so that a worker may be held while another one waits,  *)
(* or hung up on.                                                          *)
(***************************************************************************)
EXTENDS ConnectTunnel, TLC

CONSTANTS c1, c2, c3, h1, h2

Both == {h1, h2}
Long == {h2}

Mixed == {c1 :> h1 @@ c2 :> b @@ c3 :> c : b \in {h2, "pem"}, c \in {"raw", "barred"}}
Pooled == {c1, c2, c3}
=============================================================================
