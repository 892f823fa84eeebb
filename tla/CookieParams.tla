----------------------------- MODULE CookieParams -----------------------------
(***************************************************************************)
(* The parameters of Network.setCookie, which the app derives from one     *)
(* cookie in two ways: the live sync from the extension's cookie           *)
(* (_inject_cookies_via_cdp and its copy in the proxy process), and the    *)
(* pass and the restore from the row it has become.  Names, SameSite and   *)
(* the secure flag decide whether a browser takes what it is sent.         *)
(***************************************************************************)
EXTENDS Naturals

VARIABLE synced         \* the cookie an extension sends
paramVars == <<synced>>

Absence == "absent"     \* no Domain attribute: a host-only cookie

\* any cookie a browser can hold, or an extension can report of one
ParamInit ==
    synced \in [prefix: {"none", "__Host-", "__Secure-"}, sameSite: {"Lax", "Strict", "None"},
                secure: BOOLEAN, path: {"/", "/app"}, domain: {"host", ".host"}]

LiveParams(c) ==
    [prefix |-> c.prefix, sameSite |-> c.sameSite,
     secure |-> c.secure \/ c.prefix \in {"__Host-", "__Secure-"} \/ c.sameSite = "None",
     path |-> IF c.prefix = "__Host-" THEN "/" ELSE c.path,
     domain |-> IF c.prefix = "__Host-" THEN Absence ELSE c.domain]

\* upsert stores the cookie as it came
Persisted(c) == [prefix |-> c.prefix, sameSite |-> c.sameSite, secure |-> c.secure,
                 path |-> c.path, domain |-> c.domain]

\* mutant: the flag is left to the scheme of the URL
PassParamsInsecure(row) == [row EXCEPT !.secure = FALSE]

\* ... and the pass sends the row as it is
PassParams(row) == row

\* what Chromium refuses: the two prefixes and SameSite=None come with conditions
Taken(params) ==
    /\ params.prefix \in {"__Host-", "__Secure-"} => params.secure
    /\ params.prefix = "__Host-" => params.path = "/" /\ params.domain = Absence
    /\ params.sameSite = "None" => params.secure

-----------------------------------------------------------------------------
\* The live sync repairs what the extensions leave out, so that no cookie of
\* theirs is refused; and the pass keeps in the browser what the sync has put there
\* - but for the cookies only the live sync repairs: every __Host- cookie, and the
\* ones that have to be secure and were not reported so.  Those the pass gets
\* rejected, and three passes quarantine.
PassKeepsWhatSyncPut ==
    /\ Taken(LiveParams(synced))
    /\ \/ Taken(PassParams(Persisted(synced)))
       \/ synced.prefix = "__Host-"
       \/ ~synced.secure /\ (synced.prefix = "__Secure-" \/ synced.sameSite = "None")
=============================================================================
