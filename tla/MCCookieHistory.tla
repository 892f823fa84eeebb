-------------------------- MODULE MCCookieHistory --------------------------
(***************************************************************************)
(* The instances of MCCookieReconcile, with the history variables.         *)
(***************************************************************************)
EXTENDS MCCookieReconcile, CookieReconcileHistory
=============================================================================
