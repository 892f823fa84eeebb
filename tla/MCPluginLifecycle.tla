------------------------- MODULE MCPluginLifecycle -------------------------
(***************************************************************************)
(* The instances of MCCookieReconcile, with the app switched off and on.   *)
(***************************************************************************)
EXTENDS MCCookieReconcile, PluginLifecycle

CONSTANT s1    \* the place of a second orphan
OnePlace == {s1}
=============================================================================
