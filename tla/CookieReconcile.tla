-------------------------- MODULE CookieReconcile --------------------------
(***************************************************************************)
(* The persisted-cookie pipeline of the proxy app, inside one workspace    *)
(* process:                                                                *)
(*                                                                         *)
(*   - the reconcile loop of plugin.py, a coroutine of the event loop that *)
(*     visits every CDP target on every tick;                              *)
(*   - the pass it runs for a reachable target, restore_persisted_cookies  *)
(*     of routes.py, in a worker thread (asyncio.to_thread);               *)
(*   - the HTTP handlers of routes.py that write the table.  They are      *)
(*     coroutines without an await, so at most one runs, and never while   *)
(*     the loop itself is computing - but the pass's thread interleaves    *)
(*     with them at every SQL statement and every CDP command.             *)
(*                                                                         *)
(* The store, the browsers and the secrets facade are external: one SQL    *)
(* statement or CDP command is one step.  Rows are visited in any order.   *)
(***************************************************************************)
EXTENDS CookieTable, Sequences

CONSTANTS
    Target,         \* the CDP targets (browsers)
    Targets,        \* the configured list of them, the primary first
    Doomed,         \* cookies Chromium always rejects as the pass sends them
    Flaky,          \* cookies it may reject now and accept later, or whose
                    \* verdict may be mistaken
    SyncBodies,     \* the sets of cookies a sync request may carry
    Queries,        \* the (name, domain, path) a persist or a forget may name
    ClearBodies,    \* the sets of selections a clear request may carry
    MaxClock,       \* bound: requests and site writes
    MaxFaults,      \* bound: crashes, exceptions and key losses
    MaxDrift        \* bound: disturbances of a browser from outside

ASSUME TargetsAssumption == Targets \in Seq(Target) /\ Len(Targets) > 0
ASSUME InputAssumption   == /\ SyncBodies \subseteq SUBSET Identity
                            /\ Doomed \subseteq Identity
                            /\ Flaky \subseteq Identity
ASSUME BoundAssumption   == MaxClock \in Nat /\ MaxFaults \in Nat /\ MaxDrift \in Nat

VARIABLES
    table,      \* the persisted cookies
    secret,     \* the Fernet key in use, as a version number
    clock,      \* requests and site writes so far; the latest value's version
    up,         \* up[t]: /json/list of t answers with a page
    jar,        \* jar[t][id]: the version t holds of cookie id, 0 for none
    loop,       \* _cookie_reconnect_loop: where it is, and in which target
    reachable,  \* its reachable_by_target
    pass,       \* restore_persisted_cookies in the worker thread
    handler,    \* the HTTP handler that occupies the event loop
    wired,      \* which of "pass" and "handler" hold a working CDP socket
    faults,     \* interruptions so far
    drift       \* disturbances of browsers so far

vars     == <<table, secret, clock, up, jar, loop, reachable, pass, handler,
              wired, faults, drift>>
envVars  == <<secret, clock, up, faults, drift>>
loopVars == <<loop, reachable>>

-----------------------------------------------------------------------------
Threshold == 3                                   \* _REJECTED_STREAK_THRESHOLD

PassStage    == {"idle", "purge", "read", "connect", "row", "bump", "streak",
                 "quarantine", "done", "failed"}
LoopStage    == {"sleep", "probe", "await"}
HandlerOp    == {"none", "sync", "persist", "clear"}
HandlerStage == {"store", "dial", "send"}
Incoming     == [val: Nat, ttl: {"session", "minusOne", "dated"}]

NoRows      == [id \in Identity |-> None]
NoIncoming  == [id \in Identity |-> [val |-> 0, ttl |-> "session"]]
EmptyJar    == [id \in Identity |-> 0]
IdlePass    == [at |-> "idle", target |-> Targets[1], rows |-> NoRows, cur |-> None]
IdleHandler == [op |-> "none", at |-> "store", todo |-> {}, purge |-> {}, live |-> {},
                incoming |-> NoIncoming, hop |-> 1]

Primary       == Targets[1]
IsAnyTarget(t) == TRUE       \* mutant of IsPrimary: every target keeps books
IsPrimary(t)  == t = Primary
Pending       == {id \in Identity : pass.rows[id] # None}
Decrypts(enc) == enc.key = secret
Encrypt(v)    == [val |-> v, key |-> secret]

QuarantineDueLate(streak) == streak > Threshold        \* mutant: off by one
QuarantineDueEarly(streak) == streak + 1 >= Threshold   \* mutant: the other way
QuarantineDue(streak)     == streak >= Threshold

PassRecord    == [at: PassStage, target: Target,
                  rows: [Identity -> Ciphertext \cup {None}],
                  cur: Identity \cup {None}]
HandlerRecord == [op: HandlerOp, at: HandlerStage, todo: SUBSET SUBSET Identity,
                  purge: SUBSET SUBSET Identity, live: SUBSET SUBSET Identity,
                  incoming: [Identity -> Incoming], hop: 1..Len(Targets)]

TypeOK ==
    /\ table \in Table
    /\ secret \in Nat /\ clock \in Nat /\ faults \in Nat /\ drift \in Nat
    /\ up \in [Target -> BOOLEAN] /\ reachable \in [Target -> BOOLEAN]
    /\ jar \in [Target -> [Identity -> Nat]]
    /\ loop \in [at: LoopStage, i: 1..Len(Targets)]
    /\ pass \in PassRecord
    /\ handler \in HandlerRecord
    /\ wired \subseteq {"pass", "handler"}

Init ==
    /\ table = EmptyTable
    /\ secret = 0 /\ clock = 0 /\ faults = 0 /\ drift = 0
    /\ up \in [Target -> BOOLEAN]
    /\ jar = [t \in Target |-> EmptyJar]
    /\ loop = [at |-> "sleep", i |-> 1]
    /\ reachable = [t \in Target |-> FALSE]
    /\ pass = IdlePass
    /\ handler = IdleHandler
    /\ wired = {}

-----------------------------------------------------------------------------
(* The reconcile loop.  It runs on the event loop, hence not during a      *)
(* handler; from one await to the next nothing else runs there either.     *)

EventLoopFree == handler.op = "none"

\* mutant: the end of the list is overrun
NextTargetUnchecked == [at |-> "probe", i |-> loop.i + 1]

\* the loop goes on to the next target, or back to sleep after the last
NextTarget == IF loop.i = Len(Targets)
              THEN [at |-> "sleep", i |-> 1]
              ELSE [at |-> "probe", i |-> loop.i + 1]

LoopWake ==
    /\ EventLoopFree
    /\ loop.at = "sleep"
    /\ loop' = [loop EXCEPT !.at = "probe"]
    /\ UNCHANGED <<table, jar, reachable, pass, handler, wired, envVars>>

\* mutant: only on the edge from unreachable to reachable
PassWantedOnEdge(t) == up[t] /\ ~reachable[t]

\* A reachable target is reconciled on every tick, whether or not it was
\* reachable on the last one.
PassWanted(t) == up[t]

LoopPassesBy ==
    /\ loop.at = "probe"
    /\ LET t == Targets[loop.i] IN
        /\ ~PassWanted(t)
        /\ reachable' = [reachable EXCEPT ![t] = up[t]]
    /\ loop' = NextTarget
    /\ UNCHANGED <<table, jar, pass, handler, wired, envVars>>

LoopSpawnsPass ==
    /\ loop.at = "probe"
    /\ LET t == Targets[loop.i] IN
        /\ PassWanted(t)
        /\ pass' = [IdlePass EXCEPT !.at = IF IsPrimary(t) THEN "purge" ELSE "read",
                                    !.target = t]
    /\ loop' = [loop EXCEPT !.at = "await"]
    /\ UNCHANGED <<table, jar, reachable, handler, wired, envVars>>

\* An exception of the pass is logged and leaves reachable_by_target alone.
LoopCollectsPass ==
    /\ EventLoopFree
    /\ loop.at = "await" /\ pass.at \in {"done", "failed"}
    /\ reachable' = IF pass.at = "done"
                    THEN [reachable EXCEPT ![pass.target] = TRUE] ELSE reachable
    /\ pass' = IdlePass
    /\ loop' = NextTarget
    /\ UNCHANGED <<table, jar, handler, wired, envVars>>

LoopStep == LoopWake \/ LoopPassesBy \/ LoopSpawnsPass \/ LoopCollectsPass

-----------------------------------------------------------------------------
(* One pass over one target.                                               *)

PassEnds(how) == /\ pass' = [IdlePass EXCEPT !.at = how, !.target = pass.target]
                 /\ wired' = wired \ {"pass"}

\* mutant: the pass starts again instead of leaving it to the next tick
AdvanceRestarts(id) ==
    /\ pass' = IF Pending = {id}
               THEN [IdlePass EXCEPT !.at = "read", !.target = pass.target]
               ELSE [pass EXCEPT !.at = "row", !.rows[id] = None, !.cur = None]
    /\ UNCHANGED wired

\* the for loop leaves row id behind; after the last row the socket is closed
Advance(id) ==
    IF Pending = {id}
    THEN PassEnds("done")
    ELSE /\ pass' = [pass EXCEPT !.at = "row", !.rows[id] = None, !.cur = None]
         /\ UNCHANGED wired

\* Chromium's state of cookie id after Network.setCookie with version v
Put(t, id, v) == [jar EXCEPT ![t][id] = v]

PassPurges ==
    /\ pass.at = "purge"
    /\ table' = DeleteExpired(table)
    /\ pass' = [pass EXCEPT !.at = "read"]
    /\ UNCHANGED <<jar, loopVars, handler, wired, envVars>>

\* What a row comes to in the browser it is pushed to, date and all: nothing, once
\* the date is past, since Chromium takes such a command and drops the cookie.
AsPushed(row) == IF row.ttl \in Outdated THEN [row.enc EXCEPT !.val = 0] ELSE row.enc

\* the rows the pass will push, as they are now
Snapshot == [id \in Identity |->
                IF id \in ActiveIds(table) THEN AsPushed(table[id]) ELSE None]

PassReads ==
    /\ pass.at = "read"
    /\ IF ActiveIds(table) = {}
       THEN PassEnds("done")
       ELSE /\ pass' = [pass EXCEPT !.at = "connect", !.rows = Snapshot]
            /\ UNCHANGED wired
    /\ UNCHANGED <<table, jar, loopVars, handler, envVars>>

PassConnects ==
    /\ pass.at = "connect"
    /\ IF up[pass.target]
       THEN /\ pass' = [pass EXCEPT !.at = "row"]
            /\ wired' = wired \cup {"pass"}
       ELSE PassEnds("done")
    /\ UNCHANGED <<table, jar, loopVars, handler, envVars>>

\* mutant: the row of the snapshot is written back with the verdict
PassFindsDeadWritesBack(id) ==
    /\ pass.at = "row" /\ id \in Pending
    /\ ~Decrypts(pass.rows[id])
    /\ table' = [table EXCEPT ![id] = [enc |-> pass.rows[id], ttl |-> "session",
                                      reason |-> "dead", streak |-> 0]]
    /\ Advance(id)
    /\ UNCHANGED <<jar, loopVars, handler, envVars>>

\* decrypt raises ValueError: the key was rotated after the row was written
PassFindsDead(id) ==
    /\ pass.at = "row" /\ id \in Pending
    /\ ~Decrypts(pass.rows[id])
    /\ table' = IF IsPrimary(pass.target) THEN SetQuarantine(table, id, "dead") ELSE table
    /\ Advance(id)
    /\ UNCHANGED <<jar, loopVars, handler, envVars>>

Sends(id) == pass.at = "row" /\ id \in Pending /\ Decrypts(pass.rows[id])

\* success: nothing is written to the store
PassAccepted(id) ==
    /\ Sends(id) /\ "pass" \in wired
    /\ id \notin Doomed
    /\ jar' = Put(pass.target, id, pass.rows[id].val)
    /\ Advance(id)
    /\ UNCHANGED <<table, loopVars, handler, envVars>>

\* send_recv returns None: a timeout or a broken socket.  The command may have
\* been carried out or not; the store is left alone.
PassUnanswered(id) ==
    /\ Sends(id)
    /\ \/ UNCHANGED jar
       \/ /\ "pass" \in wired /\ id \notin Doomed
          /\ jar' = Put(pass.target, id, pass.rows[id].val)
    /\ Advance(id)
    /\ UNCHANGED <<table, loopVars, handler, envVars>>

\* mutant: a rejection is taken for a transport hiccup
PassRejectedUncounted(id) ==
    /\ Sends(id) /\ "pass" \in wired
    /\ id \in Doomed \cup Flaky
    /\ Advance(id)
    /\ UNCHANGED <<table, jar, loopVars, handler, envVars>>

\* A verdict without success; only the primary's pass keeps books about it.
\* send_recv does not look at the reply's id, so that after a timeout the verdict
\* read may be another row's, while this one was taken (CdpSession).
PassRejected(id) ==
    /\ Sends(id) /\ "pass" \in wired
    /\ id \in Doomed \cup Flaky
    /\ IF IsPrimary(pass.target)
       THEN /\ pass' = [pass EXCEPT !.at = "bump", !.cur = id]
            /\ UNCHANGED wired
       ELSE Advance(id)
    /\ \/ UNCHANGED jar
       \/ id \notin Doomed /\ jar' = Put(pass.target, id, pass.rows[id].val)
    /\ UNCHANGED <<table, loopVars, handler, envVars>>

PassBumps ==
    /\ pass.at = "bump"
    /\ table' = BumpFailStreak(table, pass.cur)
    /\ pass' = [pass EXCEPT !.at = "streak"]
    /\ UNCHANGED <<jar, loopVars, handler, wired, envVars>>

PassReadsStreak ==
    /\ pass.at = "streak"
    /\ IF QuarantineDue(FailStreak(table, pass.cur))
       THEN /\ pass' = [pass EXCEPT !.at = "quarantine"]
            /\ UNCHANGED wired
       ELSE Advance(pass.cur)
    /\ UNCHANGED <<table, jar, loopVars, handler, envVars>>

PassQuarantines ==
    /\ pass.at = "quarantine"
    /\ table' = SetQuarantine(table, pass.cur, "rejected")
    /\ Advance(pass.cur)
    /\ UNCHANGED <<jar, loopVars, handler, envVars>>

\* sendall on a socket whose browser is gone raises, outside send_recv's try
PassBreaks ==
    /\ pass.at = "row" /\ "pass" \notin wired
    /\ PassEnds("failed")
    /\ UNCHANGED <<table, jar, loopVars, handler, envVars>>

PassStep ==
    \/ PassPurges \/ PassReads \/ PassConnects
    \/ \E id \in Identity : \/ PassFindsDead(id) \/ PassAccepted(id)
                            \/ PassUnanswered(id) \/ PassRejected(id)
    \/ PassBumps \/ PassReadsStreak \/ PassQuarantines
    \/ PassBreaks

-----------------------------------------------------------------------------
(* The HTTP handlers of routes.py.                                         *)

\* a request is served when no other is and the loop is at an await
Serving == EventLoopFree /\ loop.at \in {"sleep", "await"} /\ clock < MaxClock

Tick == clock' = clock + 1 /\ UNCHANGED <<secret, up, faults, drift>>

Units(ids) == {{id} : id \in ids}

\* POST /sync-cookies: every cookie of the body, at a new version
SyncRequest ==
    /\ Serving
    /\ \E body \in SyncBodies, ttl \in [Identity -> {"session", "dated"}] :
        /\ \A id \in Identity \ body : ttl[id] = "session"
        /\ handler' = [op |-> "sync", at |-> "store", todo |-> Units(body),
                       purge |-> {}, live |-> Units(body), hop |-> 1,
                       incoming |-> [id \in Identity |->
                          [val |-> IF id \in body THEN clock + 1 ELSE 0, ttl |-> ttl[id]]]]
    /\ Tick
    /\ UNCHANGED <<table, jar, loopVars, pass, wired>>

\* POST /persistent-cookies/{name}: what the primary browser holds now; the
\* expiry is CDP's, -1 for a session cookie
PersistRequest ==
    /\ Serving /\ up[Primary]
    /\ \E query \in Queries, ttl \in {"minusOne", "dated"} :
        LET matches == {id \in Selected(query) : jar[Primary][id] # 0} IN
        /\ matches # {}
        /\ handler' = [op |-> "persist", at |-> "store", todo |-> Units(matches),
                       purge |-> {}, live |-> {}, hop |-> 1,
                       incoming |-> [id \in Identity |->
                          IF id \in matches THEN [val |-> jar[Primary][id], ttl |-> ttl]
                                            ELSE [val |-> 0, ttl |-> "session"]]]
    /\ Tick
    /\ UNCHANGED <<table, jar, loopVars, pass, wired>>

\* Network.deleteCookies of a selection: with a domain the path defaults to "/"
LiveSelected(sel) ==
    IF sel.domain = Any \/ sel.path # Any THEN Selected(sel)
    ELSE Selected([sel EXCEPT !.path = RootPath])

\* POST /clear-cookies, of everything ({"all": true}) or of the listed cookies
ClearRequest ==
    /\ Serving
    /\ \E of \in {<<{Identity}, {Identity}>>} \cup
                 {<<{Selected(c) : c \in body}, {LiveSelected(c) : c \in body}>> :
                     body \in ClearBodies} :
        handler' = [IdleHandler EXCEPT !.op = "clear", !.todo = of[1],
                                       !.purge = of[1], !.live = of[2]]
    /\ Tick
    /\ UNCHANGED <<table, jar, loopVars, pass, wired>>

\* DELETE /persistent-cookies/{name}: the store only, one statement
Forget ==
    /\ Serving
    /\ \E query \in Queries : table' = Remove(table, Selected(query))
    /\ Tick
    /\ UNCHANGED <<jar, loopVars, pass, handler, wired>>

HandlerUpserts(id) ==
    /\ handler.op \in {"sync", "persist"} /\ handler.at = "store"
    /\ {id} \in handler.todo
    /\ LET c == handler.incoming[id] IN table' = Upsert(table, id, Encrypt(c.val), c.ttl)
    /\ handler' = [handler EXCEPT !.todo = @ \ {{id}}]
    /\ UNCHANGED <<jar, loopVars, pass, wired, envVars>>

HandlerDeletes ==
    /\ handler.op = "clear" /\ handler.at = "store"
    /\ \E unit \in handler.todo :
        /\ table' = Remove(table, unit)
        /\ handler' = [handler EXCEPT !.todo = @ \ {unit}]
    /\ UNCHANGED <<jar, loopVars, pass, wired, envVars>>

\* the store is done: answer, or go on to the browsers
HandlerStored ==
    /\ handler.op # "none" /\ handler.at = "store" /\ handler.todo = {}
    /\ handler' = IF handler.op = "persist" THEN IdleHandler
                                            ELSE [handler EXCEPT !.at = "dial"]
    /\ UNCHANGED <<table, jar, loopVars, pass, wired, envVars>>

NextHop == handler' = IF handler.hop = Len(Targets) THEN IdleHandler
                      ELSE [handler EXCEPT !.at = "dial", !.todo = {}, !.hop = @ + 1]

HandlerDials ==
    /\ handler.op # "none" /\ handler.at = "dial"
    /\ IF up[Targets[handler.hop]]
       THEN /\ handler' = [handler EXCEPT !.at = "send", !.todo = handler.live]
            /\ wired' = wired \cup {"handler"}
       ELSE NextHop /\ UNCHANGED wired
    /\ UNCHANGED <<table, jar, loopVars, pass, envVars>>

\* one Network.setCookie or deleteCookies; it may fail and the next is tried
HandlerSends ==
    /\ handler.op # "none" /\ handler.at = "send"
    /\ \E unit \in handler.todo :
        /\ \/ UNCHANGED jar
           \/ /\ "handler" \in wired
              /\ jar' = [jar EXCEPT ![Targets[handler.hop]] =
                   [id \in Identity |-> IF id \in unit THEN handler.incoming[id].val
                                                       ELSE @[id]]]
        /\ handler' = [handler EXCEPT !.todo = @ \ {unit}]
    /\ UNCHANGED <<table, loopVars, pass, wired, envVars>>

\* all commands are sent, or one raised: either way the next target's turn
HandlerLeaves ==
    /\ handler.op # "none" /\ handler.at = "send"
    /\ NextHop
    /\ wired' = wired \ {"handler"}
    /\ UNCHANGED <<table, jar, loopVars, pass, envVars>>

HandlerRequest == SyncRequest \/ PersistRequest \/ ClearRequest \/ Forget

HandlerStep ==
    \/ \E id \in Identity : HandlerUpserts(id)
    \/ HandlerDeletes \/ HandlerStored \/ HandlerDials \/ HandlerSends \/ HandlerLeaves

-----------------------------------------------------------------------------
(* What happens from outside.                                              *)

Disturbs == drift < MaxDrift /\ drift' = drift + 1

\* the sockets into browser t
SocketsTo(t) == (IF pass.target = t THEN {"pass"} ELSE {}) \cup
                (IF Targets[handler.hop] = t THEN {"handler"} ELSE {})

BrowserStops(t) ==
    /\ up[t] /\ Disturbs
    /\ up' = [up EXCEPT ![t] = FALSE]
    /\ wired' = wired \ SocketsTo(t)
    /\ UNCHANGED <<table, secret, clock, jar, loopVars, pass, handler, faults>>

\* its profile survived, or it starts from an empty one
BrowserStarts(t) ==
    /\ ~up[t]
    /\ up' = [up EXCEPT ![t] = TRUE]
    /\ \E kept \in {jar[t], EmptyJar} : jar' = [jar EXCEPT ![t] = kept]
    /\ UNCHANGED <<table, secret, clock, loopVars, pass, handler, wired, faults, drift>>

\* a cookie evicted or expired in place, or written by a page
JarDrifts(t) ==
    /\ up[t] /\ Disturbs
    /\ \E id \in Identity :
        \/ /\ jar[t][id] # 0
           /\ jar' = Put(t, id, 0)
           /\ UNCHANGED clock
        \/ /\ clock < MaxClock
           /\ clock' = clock + 1
           /\ jar' = Put(t, id, clock + 1)
    /\ UNCHANGED <<table, secret, up, loopVars, pass, handler, wired, faults>>

\* a cookie's expiry, and a day after it
CookieAges ==
    /\ \E id \in Stored(table) :
        \/ /\ table[id].ttl = "dated"
           /\ table' = [table EXCEPT ![id].ttl = "expired"]
        \/ /\ table[id].ttl = "expired"
           /\ table' = [table EXCEPT ![id].ttl = "lapsed"]
    /\ UNCHANGED <<jar, loopVars, pass, handler, wired, envVars>>

Fault == faults < MaxFaults /\ faults' = faults + 1

\* cookie_encryption_key is replaced (see crypto.py for when it may be)
KeyRotates ==
    /\ Fault
    /\ secret' = secret + 1
    /\ UNCHANGED <<table, clock, up, jar, loopVars, pass, handler, wired, drift>>

\* an exception of the store, of decrypt or of the socket ends the pass
PassFails ==
    /\ Fault
    /\ pass.at \notin {"idle", "done", "failed"}
    /\ PassEnds("failed")
    /\ UNCHANGED <<table, secret, clock, up, jar, loopVars, handler, drift>>

\* an exception of the store ends a request with a 500
HandlerFails ==
    /\ Fault
    /\ handler.op # "none" /\ handler.at = "store"
    /\ handler' = IdleHandler
    /\ UNCHANGED <<table, secret, clock, up, jar, loopVars, pass, wired, drift>>

\* the workspace process dies and the app is activated again
Crash ==
    /\ Fault
    /\ loop' = [at |-> "sleep", i |-> 1]
    /\ reachable' = [t \in Target |-> FALSE]
    /\ pass' = IdlePass
    /\ handler' = IdleHandler
    /\ wired' = {}
    /\ UNCHANGED <<table, secret, clock, up, jar, drift>>

Outside ==
    \/ \E t \in Target : BrowserStops(t) \/ BrowserStarts(t) \/ JarDrifts(t)
    \/ CookieAges \/ KeyRotates \/ PassFails \/ HandlerFails \/ Crash

-----------------------------------------------------------------------------
Next == LoopStep \/ PassStep \/ HandlerRequest \/ HandlerStep \/ Outside

Spec == Init /\ [][Next]_vars

\* The event loop and the worker thread keep running; every time the pass
\* reaches a cookie the browser may answer, and it does not fail to answer
\* forever.
PassAcceptedBy(t, id) == pass.target = t /\ PassAccepted(id)
PassDooms(id)         == id \in Doomed /\ IsPrimary(pass.target) /\ PassRejected(id)

Fairness ==
    /\ WF_vars(LoopStep) /\ WF_vars(PassStep) /\ WF_vars(HandlerStep)
    /\ \A id \in Identity \ Doomed, t \in Target : SF_vars(PassAcceptedBy(t, id))
    /\ \A id \in Doomed : SF_vars(PassDooms(id))

FairSpec == Spec /\ Fairness

-----------------------------------------------------------------------------
(* Safety.                                                                 *)

\* A pass never still intends to push a cookie that has been quarantined: the
\* rows left in its snapshot are active ones, however the handlers and earlier
\* passes interleave (routes.py, the active-row filter of the pass).
NoQuarantinedPending ==
    \A id \in Pending : table[id] # None => table[id].reason = "none"

\* A row's fail_streak exceeds the threshold by at most one for every crash or
\* exception that came between counting a rejection and acting on it
\* (bump_fail_streak and quarantine are two statements, not one).
StreakBounded ==
    \A id \in Stored(table) : table[id].streak <= Threshold + faults

\* The worker thread works for the loop's current target only: the loop never
\* goes on, and never starts a second pass, while one is under way.
OnePassAtATime == pass.at # "idle" => loop.at = "await"

\* While the pass keeps its books about a rejection, the rejected row is one it
\* has still to push.
BooksAreAboutPending ==
    pass.at \in {"bump", "streak", "quarantine"} => pass.cur \in Pending

\* Outside the window between counting a rejection and acting on the count, an
\* active row is below the threshold, but for the interruptions.
ActiveBelowThreshold ==
    \A id \in ActiveIds(table) :
        \/ table[id].streak < Threshold + faults
        \/ pass.at \in {"streak", "quarantine"} /\ pass.cur = id

\* The bookkeeping about rejections is consistent: each conjunct needs the
\* others to be preserved, StreakBounded among them.
Bookkeeping == /\ BooksAreAboutPending
               /\ NoQuarantinedPending
               /\ StreakBounded
               /\ ActiveBelowThreshold

IInv == TypeOK /\ OnePassAtATime /\ Bookkeeping

\* Once a sync has turned to the browsers, every cookie of its body is in the
\* store at the value being injected - "durable regardless of whether the
\* browser is reachable" - unless it had an expiry that has passed since.
SyncedIsStored ==
    handler.op = "sync" /\ handler.at # "store" =>
        \A id \in Identity : LET c == handler.incoming[id] IN
            c.val # 0 => \/ table[id] # None /\ table[id].enc.val = c.val
                         \/ table[id] = None /\ c.ttl = "dated"

\* Once a clear has turned to the browsers, no row it was asked to clear is in the
\* store - of every path, where the browser is asked for the root's alone - and no
\* pass in flight brings one back.
ClearedIsPurged ==
    handler.op = "clear" /\ handler.at # "store" =>
        \A unit \in handler.purge : unit \cap Stored(table) = {}

\* What a step of the pass's thread may do to the store: delete expired rows and
\* quarantine or count active ones, from the primary's pass alone.  It never
\* adds a row, loses a live one, changes a value or lifts a quarantine.
PassKeeps(id) ==
    /\ table[id] = None => table'[id] = None
    /\ table[id] # None =>
        \/ table'[id] = None /\ table[id].ttl \in Past
        \/ /\ table'[id] # None
           /\ table'[id].enc = table[id].enc /\ table'[id].ttl = table[id].ttl
           /\ table[id].reason # "none" => table'[id] = table[id]
PassKeepsStore ==
    [][pass' # pass /\ handler' = handler =>
        \A id \in Identity : PassKeeps(id)
                             /\ (pass.target # Primary => table'[id] = table[id])]_vars

\* The sweep of expired rows takes no session cookie (cookie_store.py: "Session
\* cookies (``expires`` NULL) are never touched").
SessionCookiesStay ==
    [][PassPurges => \A id \in Stored(table) :
          table[id].ttl \in {"session", "minusOne"} => table'[id] # None]_vars

\* The pipeline keeps the promise of CookieLedger, whatever the interleaving of
\* its three-statement bookkeeping with requests, faults and other passes: no
\* verdict without its evidence, none undone but by a new value, and no entry
\* but from a request.
AsEntry(row) == IF row = None THEN None
                ELSE [val |-> row.enc.val, verdict |-> row.reason, strikes |-> row.streak]

ASSUME NoneIsNoEntry == None \notin [val: Nat, verdict: Reason, strikes: Nat]

Ledger == INSTANCE CookieLedger WITH
    entry  <- [id \in Identity |-> AsEntry(table[id])],
    charge <- IF pass.at = "quarantine" THEN pass.cur ELSE None,
    lost   <- secret # 0

ImplementsLedger == Ledger!LedgerSpec

\* What makes the promises above inductive: no ciphertext is under a key that is
\* still to come; only the primary's pass purges and keeps books; what a sync has
\* stored stays until it expires; and what a clear is to purge is gone or still on
\* its list.
KeysKnown ==
    \A id \in Identity : /\ table[id] # None => table[id].enc.key <= secret
                         /\ pass.rows[id] # None => pass.rows[id].key <= secret
BooksArePrimary ==
    pass.at \in {"purge", "bump", "streak", "quarantine"} => IsPrimary(pass.target)
KeptSince(id, c) ==
    IF table[id] = None THEN c.ttl = "dated"
    ELSE /\ table[id].enc.val = c.val
         /\ table[id].ttl = c.ttl \/ (c.ttl = "dated" /\ table[id].ttl \in Outdated)
SyncUnderWay ==
    handler.op = "sync" => \A id \in Identity :
        handler.incoming[id].val # 0 =>
            /\ handler.incoming[id].ttl # "minusOne"
            /\ \/ handler.at = "store" /\ {id} \in handler.todo
               \/ KeptSince(id, handler.incoming[id])
ClearUnderWay ==
    handler.op = "clear" => \A unit \in handler.purge : \A id \in unit \cap Stored(table) :
        handler.at = "store" /\ id \in UNION handler.todo
PromisesInv == IInv /\ KeysKnown /\ BooksArePrimary /\ SyncUnderWay /\ ClearUnderWay

\* What the pass may still do about a row's streak: count the row, which is ahead
\* of it; or act on the count it has made.
Judging(id)  == pass.at \in {"streak", "quarantine"} /\ pass.cur = id
MayCount(id) == id \in Pending /\ ~Judging(id)

\* Liveness.  When requests and disturbances cease, every running browser ends
\* up holding every active cookie the key opens and whose date has not passed,
\* whatever state it started from: drift in place is repaired, and one target's
\* being down does not keep the others from being reconciled (plugin.py, the
\* loop's docstring).  A row whose date has passed stays in the table for a day,
\* and for good where the primary is down: it is pushed, and nobody holds it.
Holds(t, id) == jar[t][id] = table[id].enc.val
Reconciled ==
    \A t \in {Targets[i] : i \in 1..Len(Targets)} : up[t] =>
        \A id \in ActiveIds(table) \ Doomed :
            Decrypts(table[id].enc) /\ table[id].ttl \notin Outdated => Holds(t, id)
Converges == <>[]Reconciled
=============================================================================
