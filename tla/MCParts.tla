------------------------------- MODULE MCParts -------------------------------
(***************************************************************************)
(* The parts of the app that are modelled on their own.  They share no     *)
(* state, so a behaviour is one of one part, which its first state names.  *)
(***************************************************************************)
EXTENDS CdpSession, KeyGuard, CookiesPanel, MitmRelay, MitmCa, CookieMatch, CookieParams

VARIABLE part

partsVars == <<part, vars, keyVars, panelVars, relayVars, mitmVars, matchVars, paramVars>>

-----------------------------------------------------------------------------
(* KeyGuard: two cookies, one source, and the requests about them.         *)

Keep(c, blank) == [do |-> "keep", id |-> c, blank |-> blank]
Sign == [do |-> "sign", id |-> "chrome"]

TwoKept == {"a", "b"}
OneSource == {"chrome"}

Requests == {<<Keep("a", TRUE), Keep("b", FALSE)>>,     \* a sync, or two persists
             <<Sign, Keep("a", FALSE)>>,                \* a sync with a signature
             <<[do |-> "look", id |-> "chrome"]>>,      \* GET /browser-signatures
             <<[do |-> "clear"]>>}

(* CookiesPanel: a card each for two sites, one of them with two cookies,  *)
(* of which the row of one hides the other.                                *)

TwoCards == {[card |-> "shop", path |-> "/"], [card |-> "shop", path |-> "/app"],
             [card |-> "mail", path |-> "/"]}

(* CookieMatch: every short domain with every short host, every short path *)
(* with every short path, and the secure flag with every scheme.           *)

Letters == {"/", ".", "x", "y"}
Texts(chars, n) == UNION {[1..k -> chars] : k \in 0..n}
Example == <<"x">>
Root    == <<"/">>

Domains4 == Texts({".", "x"}, 4)
Paths3   == Texts({"/", "x", "y"}, 3)

AllRows == [domain: {Example}, path: Paths3, secure: BOOLEAN]
           \cup [domain: Domains4, path: {Root}, secure: {FALSE}]
AllUrls == [scheme: {"http", "https", "file"}, host: {Example}, path: {Root}]
           \cup [scheme: {"http"}, host: {Example}, path: Paths3]
           \cup [scheme: {"http"}, host: Domains4, path: {Root}]

-----------------------------------------------------------------------------
PartsInit ==
    /\ Init /\ KeyInit /\ PanelInit /\ RelayInit /\ MitmInit
    /\ \/ /\ part \in {"session", "key", "panel", "relay", "ca"}
          /\ row = [domain |-> Example, path |-> Root, secure |-> FALSE]
          /\ url = [scheme |-> "http", host |-> Example, path |-> Root]
          /\ synced = [prefix |-> "none", sameSite |-> "Lax", secure |-> FALSE,
                       path |-> "/", domain |-> "host"]
       \/ /\ part = "match" /\ MatchInit
          /\ synced = [prefix |-> "none", sameSite |-> "Lax", secure |-> FALSE,
                       path |-> "/", domain |-> "host"]
       \/ /\ part = "params" /\ ParamInit
          /\ row = [domain |-> Example, path |-> Root, secure |-> FALSE]
          /\ url = [scheme |-> "http", host |-> Example, path |-> Root]

PartsNext ==
    \/ /\ part = "session" /\ Next
       /\ UNCHANGED <<part, keyVars, panelVars, relayVars, mitmVars, matchVars, paramVars>>
    \/ /\ part = "key" /\ KeyNext
       /\ UNCHANGED <<part, vars, panelVars, relayVars, mitmVars, matchVars, paramVars>>
    \/ /\ part = "panel" /\ PanelNext
       /\ UNCHANGED <<part, vars, keyVars, relayVars, mitmVars, matchVars, paramVars>>
    \/ /\ part = "relay" /\ RelayNext
       /\ UNCHANGED <<part, vars, keyVars, panelVars, mitmVars, matchVars, paramVars>>
    \/ /\ part = "ca" /\ MitmNext
       /\ UNCHANGED <<part, vars, keyVars, panelVars, relayVars, matchVars, paramVars>>

\* each part with the fairness it has on its own
PartsSpec ==
    /\ PartsInit /\ [][PartsNext]_partsVars
    /\ WF_vars(part = "session" /\ ClientStep)
    /\ \A f \in Flow : WF_panelVars(part = "panel" /\ FlowStep(f))
    /\ WF_relayVars(part = "relay" /\ RelayStep)

\* Liveness of the CDP client, in the behaviours that are its own: unless the
\* browser closes while the client is inside the handshake or a payload, every
\* use of the client comes to an end (cdp.py, the timeouts of recv).
SessionEndsUnlessCut == part = "session" => EndsUnlessCut
=============================================================================
