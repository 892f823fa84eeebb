------------------------ MODULE MCCookieReconcile ------------------------
(***************************************************************************)
(* Small instances of the reconcile pipeline.  The two cookies share their *)
(* name and domain and differ in their path, so that a selection takes     *)
(* both, while the live deletion of a domain's cookies takes the root one. *)
(***************************************************************************)
EXTENDS CookieReconcile

CONSTANTS b1, b2    \* browsers

Cookie(path) == [name |-> "sid", domain |-> "shop", path |-> path]
root == Cookie("/")
app  == Cookie("/app")

ByName   == [name |-> "sid", domain |-> Any, path |-> Any]
ByDomain == [name |-> "sid", domain |-> "shop", path |-> Any]

OneCookie  == {root}
TwoCookies == {root, app}
NoCookies  == {}
OneBrowser  == {b1}
TwoBrowsers == {b1, b2}
OnlyPrimary == <<b1>>
Fanout      == <<b1, b2>>

SyncBoth    == {TwoCookies}
SyncRoot    == {OneCookie}
SyncApart   == {{root}, {app}}
NameQueries == {ByName}
NoBodies    == {}
ClearSome   == {{ByDomain}}
=============================================================================
