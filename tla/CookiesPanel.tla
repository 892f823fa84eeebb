---------------------------- MODULE CookiesPanel ----------------------------
(***************************************************************************)
(* The page of the Settings panel (cookies_ui.py) and the three routes it  *)
(* calls: GET /cookie-keys, POST and DELETE /persistent-cookies/{name}.    *)
(* Loading the page, Refresh and Forget each start a flow of requests;     *)
(* JavaScript interleaves the flows at every await.  The store and the     *)
(* browser change underneath, by the reconcile pass among others.          *)
(*                                                                         *)
(* A card is a (name, domain), a cookie has a path besides.                *)
(***************************************************************************)
EXTENDS Naturals

CONSTANTS
    Kept,           \* the cookies: records [card, path]
    Flow,           \* the flows of the page
    NoCard,         \* what a flow forgets that is a mere refresh
    MaxTroubles     \* bound: requests that fail, rows that are swept or judged,
                    \* cookies and browsers that go

ASSUME PanelBoundAssumption == MaxTroubles \in Nat

VARIABLES
    db,             \* each cookie's row: "gone", "active" or "quarantined"
    live, answering,    \* the primary browser's cookies, and whether it answers
    keys,           \* the cards on the page
    flow,           \* where each flow is, the card it forgets, the last listing it
                    \* got, and the cards it has still to persist
    troubles

panelVars == <<db, live, answering, keys, flow, troubles>>

Card     == {c.card : c \in Kept}
Of(card) == {c \in Kept : c.card = card}
NoFlow   == [at |-> "idle", forgets |-> NoCard, answer |-> {}, missing |-> {}]

PanelInit ==
    /\ db = [c \in Kept |-> "gone"]
    /\ live = {} /\ answering = TRUE
    /\ keys = {} /\ flow = [f \in Flow |-> NoFlow]
    /\ troubles = 0

InDb(card)   == \E c \in Of(card) : db[c] # "gone"
IsLive(card) == answering /\ Of(card) \cap live # {}

\* get_cookie_keys: what is stored, and what the browser has on top of that
Listing == {[card |-> card, persisted |-> InDb(card)] :
               card \in {k \in Card : InDb(k) \/ IsLive(k)}}

Goes(f, at)  == flow' = [flow EXCEPT ![f].at = at]
Served       == UNCHANGED troubles
Trouble      == troubles < MaxTroubles /\ troubles' = troubles + 1

-----------------------------------------------------------------------------
\* the page is loaded, or Refresh is clicked
RefreshStarts(f) ==
    /\ flow[f] = NoFlow
    /\ Goes(f, "load")
    /\ UNCHANGED <<db, live, answering, keys, troubles>>

ForgetStarts(f) ==
    /\ flow[f] = NoFlow
    /\ \E card \in keys : flow' = [flow EXCEPT ![f].at = "delete", ![f].forgets = card]
    /\ UNCHANGED <<db, live, answering, keys, troubles>>

\* unpersist_cookie; refresh follows in any case
DeleteServed(f) ==
    /\ flow[f].at = "delete"
    /\ \/ /\ db' = [c \in Kept |-> IF c.card = flow[f].forgets THEN "gone" ELSE db[c]]
          /\ Served
       \/ Trouble /\ UNCHANGED db
    /\ Goes(f, "load")
    /\ UNCHANGED <<live, answering, keys>>

KeysServed(f) ==
    /\ \/ flow[f].at = "load"   /\ flow' = [flow EXCEPT ![f].at = "loaded",
                                                        ![f].answer = Listing]
       \/ flow[f].at = "reload" /\ flow' = [flow EXCEPT ![f].at = "reloaded",
                                                        ![f].answer = Listing]
    /\ UNCHANGED <<db, live, answering, keys, troubles>>

\* loadKeys throws, and refresh with it
KeysFail(f) ==
    /\ flow[f].at \in {"load", "reload"} /\ Trouble
    /\ flow' = [flow EXCEPT ![f] = NoFlow]
    /\ UNCHANGED <<db, live, answering, keys>>

\* the cards the browser has and the store has not
Missing(f) == {k.card : k \in {e \in flow[f].answer : ~e.persisted}}

KeysLoaded(f) ==
    /\ flow[f].at = "loaded"
    /\ keys' = {k.card : k \in flow[f].answer}
    /\ flow' = IF Missing(f) = {} THEN [flow EXCEPT ![f] = NoFlow]
               ELSE [flow EXCEPT ![f].at = "persist", ![f].missing = Missing(f),
                                 ![f].answer = {}]
    /\ UNCHANGED <<db, live, answering, troubles>>

\* mutant: refresh calls itself until nothing is missing
KeysReloadedAgain(f) ==
    /\ flow[f].at = "reloaded"
    /\ keys' = {k.card : k \in flow[f].answer}
    /\ flow' = IF Missing(f) = {} THEN [flow EXCEPT ![f] = NoFlow]
               ELSE [flow EXCEPT ![f].at = "persist", ![f].missing = Missing(f),
                                 ![f].answer = {}]
    /\ UNCHANGED <<db, live, answering, troubles>>

\* one retry pass, no recursion
KeysReloaded(f) ==
    /\ flow[f].at = "reloaded"
    /\ keys' = {k.card : k \in flow[f].answer}
    /\ flow' = [flow EXCEPT ![f] = NoFlow]
    /\ UNCHANGED <<db, live, answering, troubles>>

\* mutant: a failure ends the loop over the missing cards
PersistServedOnce(f) ==
    /\ flow[f].at = "persist" /\ flow[f].missing # {}
    /\ \E card \in flow[f].missing :
        /\ \/ /\ db' = [c \in Kept |-> IF answering /\ c \in Of(card) \cap live
                                       THEN "active" ELSE db[c]]
              /\ Served
           \/ Trouble /\ UNCHANGED db
        /\ flow' = [flow EXCEPT ![f].missing = {}]
    /\ UNCHANGED <<live, answering, keys>>

\* persist_cookie: every live cookie of the card, whatever its path; an error is
\* swallowed and the next card follows
PersistServed(f) ==
    /\ flow[f].at = "persist"
    /\ \E card \in flow[f].missing :
        /\ \/ /\ db' = [c \in Kept |-> IF answering /\ c \in Of(card) \cap live
                                       THEN "active" ELSE db[c]]
              /\ Served
           \/ Trouble /\ UNCHANGED db
        /\ flow' = [flow EXCEPT ![f].missing = @ \ {card}]
    /\ UNCHANGED <<live, answering, keys>>

PersistDone(f) ==
    /\ flow[f].at = "persist" /\ flow[f].missing = {}
    /\ Goes(f, "reload")
    /\ UNCHANGED <<db, live, answering, keys, troubles>>

FlowStep(f) == \/ DeleteServed(f) \/ KeysServed(f) \/ KeysFail(f) \/ KeysLoaded(f)
               \/ KeysReloaded(f) \/ PersistServed(f) \/ PersistDone(f)

-----------------------------------------------------------------------------
\* a page sets a cookie, or a pass pushes a stored one
CookieAppears ==
    /\ answering /\ \E c \in Kept \ live : live' = live \cup {c}
    /\ UNCHANGED <<db, answering, keys, flow, troubles>>

CookieGoes ==
    /\ Trouble
    /\ \E c \in live : live' = live \ {c}
    /\ UNCHANGED <<db, answering, keys, flow>>

\* a pass deletes the row as expired, or quarantines it
RowJudged ==
    /\ Trouble
    /\ \E c \in Kept, fate \in {"gone", "quarantined"} :
        db[c] = "active" /\ db' = [db EXCEPT ![c] = fate]
    /\ UNCHANGED <<live, answering, keys, flow>>

BrowserToggles ==
    /\ Trouble
    /\ answering' = ~answering
    /\ UNCHANGED <<db, live, keys, flow>>

PanelNext ==
    \/ \E f \in Flow : FlowStep(f) \/ RefreshStarts(f) \/ ForgetStarts(f)
    \/ CookieAppears \/ CookieGoes \/ RowJudged \/ BrowserToggles

\* requests are answered; nothing is assumed of the user
PanelFairness == \A f \in Flow : WF_panelVars(FlowStep(f))

PanelSpec     == PanelInit /\ [][PanelNext]_panelVars
FairPanelSpec == PanelSpec /\ PanelFairness

-----------------------------------------------------------------------------
\* A flow ends, though the browser that lists a cookie may refuse to let it be
\* persisted: "a persist failure can't turn this into an infinite loop".
FlowsEnd == \A f \in Flow : flow[f].at # "idle" ~> flow[f].at = "idle"

\* With no opt-in step: a cookie that stays in a browser that answers gets its
\* row as long as the page is refreshed again and again, whatever else the user
\* clicks and in whatever order the flows' answers come - or its card has a row
\* of another path, which hides it (routes.py, get_cookie_keys).
LiveIsPersisted ==
    \A c \in Kept :
        <>[](answering /\ c \in live) /\ (\A f \in Flow : []<>(flow[f].at = "idle"))
           /\ []<>(\E f \in Flow : flow[f].at = "load")
        => []<>InDb(c.card)

\* "The only manual action left is Forget - deletion is a deliberate choice"
\* (cookies_ui.py): when the click has been dealt with, the rows are gone.
ForgetSticks ==
    [][\A f \in Flow : flow[f].forgets # NoCard /\ flow'[f] = NoFlow /\ troubles = 0
          => \A c \in Of(flow[f].forgets) : db'[c] = "gone"]_panelVars
=============================================================================
