--------------------------- MODULE MCProxyService ---------------------------
(***************************************************************************)
(* Small instances of the two processes together.                          *)
(***************************************************************************)
EXTENDS MCCookieReconcile, ProxyService

CONSTANTS w1    \* a worker thread

OneWorker == {w1}
=============================================================================
