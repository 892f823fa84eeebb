--------------------------- MODULE PluginLifecycle ---------------------------
(***************************************************************************)
(* CookieReconcile with the app being deactivated and activated again in a *)
(* running process (plugin.py).  deactivate cancels the loop's task, which *)
(* raises CancelledError at its await.  Where that await is the one of     *)
(* asyncio.to_thread, the pass is not told: the worker thread goes on by   *)
(* itself, with its snapshot and its socket, beside the pass of the loop   *)
(* that activate starts next.  Here it is the orphan: another instance of  *)
(* the core's pass, on the same table, browsers and key.  Nothing waits    *)
(* for it, so that a second deactivation may leave another beside it: the  *)
(* orphan is the one that takes the next step, the others are parked, and  *)
(* any of them may take its turn at any time.                              *)
(***************************************************************************)
EXTENDS CookieReconcile, FiniteSets

CONSTANTS
    MaxInterruptions,   \* bound: faults, disturbances, deactivations together
    Place               \* bound: the orphans there may be beside the orphan

ASSUME InterruptionsAssumption == MaxInterruptions \in Nat
ASSUME PlaceAssumption         == IsFiniteSet(Place)

VARIABLES
    active,     \* the app is activated: its loop exists and its routes are served
    orphan,     \* the pass of a cancelled loop
    socket,     \* wired, for the orphan
    parked,     \* the passes of other cancelled loops, and their sockets
    stops       \* deactivations so far

lifeVars == <<active, orphan, socket, parked, stops>>
allVars  == <<vars, lifeVars>>

Orphan == INSTANCE CookieReconcile WITH pass <- orphan, wired <- socket

Over(p) == p.at \in {"idle", "done", "failed"}

NoOrphan == [pass |-> IdlePass, wired |-> {}]
Current  == IF Over(orphan) THEN NoOrphan ELSE [pass |-> orphan, wired |-> socket]

LifeInit == /\ Init
            /\ active = TRUE /\ stops = 0
            /\ orphan = IdlePass /\ socket = {} /\ parked = [place \in Place |-> NoOrphan]

\* a step of the app that is activated
AppRuns == /\ active
           /\ LoopStep \/ PassStep \/ HandlerRequest \/ HandlerStep
           /\ UNCHANGED lifeVars

\* the loop's dictionaries are gone with it; what a pass that has ended would
\* have reported is lost, and one that runs is left to itself, beside any that
\* an earlier deactivation has left
Deactivate ==
    /\ active /\ EventLoopFree /\ loop.at \in {"sleep", "await"}
    /\ \E place \in Place : /\ Over(parked[place].pass)
                           /\ parked' = [parked EXCEPT ![place] = Current]
    /\ stops' = stops + 1 /\ active' = FALSE
    /\ orphan' = pass /\ socket' = wired
    /\ pass' = IdlePass /\ wired' = {}
    /\ loop' = [at |-> "sleep", i |-> 1]
    /\ reachable' = [t \in Target |-> FALSE]
    /\ UNCHANGED <<table, jar, handler, envVars>>

\* mutant: the loop of a second activation waits for a pass nobody runs
ActivateWithoutLoop == ~active /\ active' = TRUE /\ loop' = [at |-> "await", i |-> 1]
                       /\ UNCHANGED <<table, secret, clock, up, jar, reachable, pass, handler,
                                      wired, faults, drift, orphan, socket, parked, stops>>

Activate == ~active /\ active' = TRUE /\ UNCHANGED <<vars, orphan, socket, parked, stops>>

OrphanStep == Orphan!PassStep /\ UNCHANGED <<pass, wired, active, parked, stops>>

\* the next step is another orphan's
Switch ==
    /\ \E place \in Place :
        /\ ~Over(parked[place].pass)
        /\ orphan' = parked[place].pass /\ socket' = parked[place].wired
        /\ parked' = [parked EXCEPT ![place] = Current]
    /\ UNCHANGED <<vars, active, stops>>

Cut(t) == [place \in Place |->
              IF parked[place].pass.target = t THEN [parked[place] EXCEPT !.wired = {}]
                                               ELSE parked[place]]

\* outside: the browser's stop cuts the orphans' sockets too, an exception may
\* end one, and none survives the process
LifeOutside ==
    \/ \E t \in Target :
          /\ BrowserStops(t)
          /\ socket' = IF orphan.target = t THEN {} ELSE socket
          /\ parked' = Cut(t)
          /\ UNCHANGED <<active, orphan, stops>>
    \/ /\ \/ \E t \in Target : BrowserStarts(t) \/ JarDrifts(t)
          \/ CookieAges \/ KeyRotates \/ PassFails \/ HandlerFails
       /\ UNCHANGED lifeVars
    \/ Orphan!PassFails /\ UNCHANGED <<pass, wired, active, parked, stops>>
    \/ /\ Crash /\ active' = TRUE
       /\ orphan' = IdlePass /\ socket' = {} /\ parked' = [place \in Place |-> NoOrphan]
       /\ UNCHANGED stops

LifeNext ==
    /\ AppRuns \/ Deactivate \/ Activate \/ OrphanStep \/ Switch \/ LifeOutside
    /\ faults' + drift' + stops' <= MaxInterruptions

LifeFairness ==
    /\ WF_allVars(active /\ LoopStep /\ UNCHANGED lifeVars)
    /\ WF_allVars(active /\ PassStep /\ UNCHANGED lifeVars)
    /\ WF_allVars(active /\ HandlerStep /\ UNCHANGED lifeVars)
    /\ WF_allVars(OrphanStep) /\ WF_allVars(Over(orphan) /\ Switch)
    /\ \A id \in Identity \ Doomed, t \in Target :
          SF_allVars(PassAcceptedBy(t, id) /\ UNCHANGED lifeVars)
    /\ \A id \in Doomed : SF_allVars(PassDooms(id) /\ UNCHANGED lifeVars)

LifeSpec     == LifeInit /\ [][LifeNext]_allVars
FairLifeSpec == LifeSpec /\ LifeFairness

-----------------------------------------------------------------------------
\* The core's bound on a streak does not survive an orphan, which may count a
\* rejection between the other pass's count and its verdict - but each orphan
\* adds at most one to it.
StreakBoundedBeside ==
    \A id \in Stored(table) : table[id].streak <= Threshold + faults + stops

\* What makes it inductive.  An orphan costs a deactivation; a row's streak leaves
\* room for what each pass may still count, and an active row's for one pass
\* more, unless the app's own is about to act on it.
CouldCount(p, id) ==
    \/ p.at \in {"purge", "read"}
    \/ p.rows[id] # None /\ ~(p.at \in {"streak", "quarantine"} /\ p.cur = id)
Waiting(id)     == {place \in Place : CouldCount(parked[place].pass, id)}
Turns(may)      == IF may THEN 1 ELSE 0
OrphanTurns(id) == Turns(CouldCount(orphan, id)) + Cardinality(Waiting(id))
Allowed         == Threshold + faults + stops
StreaksLeaveRoom ==
    \A id \in Stored(table) :
        /\ table[id].streak + Turns(MayCount(id)) + OrphanTurns(id) <= Allowed
        /\ table[id].reason = "none" /\ ~Judging(id) =>
              table[id].streak + OrphanTurns(id) < Allowed
BooksOf(p) == p.at \in {"bump", "streak", "quarantine"} =>
                \E id \in Identity : p.cur = id /\ p.rows[id] # None
LifeTypeOK ==
    /\ TypeOK /\ stops \in Nat
    /\ orphan \in PassRecord /\ socket \subseteq {"pass", "handler"}
    /\ parked \in [Place -> [pass: PassRecord, wired: SUBSET {"pass", "handler"}]]
LifeInv ==
    /\ LifeTypeOK
    /\ OnePassAtATime /\ BooksAreAboutPending
    /\ BooksOf(orphan) /\ \A place \in Place : BooksOf(parked[place].pass)
    /\ \A id \in Identity : OrphanTurns(id) <= stops
    /\ StreaksLeaveRoom

\* The orphans and the pass that replaces them may judge the same row at once:
\* one may count and judge what another has quarantined already, and change its
\* reason.  Even so none of them makes the row active again or touches the value
\* judged; only a request does (cookie_store.py: "a fresh sync is a new value").
VerdictsStand ==
    [][\A id \in Stored(table) :
          table[id].reason # "none" /\ table'[id] # None /\ handler' = handler
            => table'[id].reason # "none" /\ table'[id].enc = table[id].enc]_allVars

\* A deactivated app comes to rest: every orphan ends by itself (plugin.py,
\* deactivate, which does not wait for it).
Quiet == ~active => /\ Over(orphan) /\ Over(pass)
                    /\ \A place \in Place : Over(parked[place].pass)
ComesToRest == <>[]Quiet

\* However it has been switched off and on before, an app that stays active
\* reconciles every running browser, and retires what the primary always
\* rejects, in the end.
ConvergesWhileActive == <>[]active => <>[]Reconciled
RetiresWhileActive   == <>[](active /\ up[Primary]) => <>[](Doomed \cap ActiveIds(table) = {})
=============================================================================
