---------------------- MODULE CookieReconcileHistory ----------------------
(***************************************************************************)
(* CookieReconcile with two history variables, for what its docstrings say *)
(* about sequences of verdicts: which rows were counted in this tick, and  *)
(* how many times in a row the primary browser has rejected each cookie.   *)
(***************************************************************************)
EXTENDS CookieReconcile

VARIABLES
    bumped,     \* the rows whose fail_streak went up in this tick
    rejectRun   \* the primary's rejections of each value since it last took it

hvars == <<vars, bumped, rejectRun>>

HInit == Init /\ bumped = {} /\ rejectRun = [id \in Identity |-> 0]

RecordBumps ==
    bumped' = IF loop'.at = "sleep" THEN {}
              ELSE bumped \cup {id \in Stored(table) :
                      table'[id] # None /\ table'[id].streak > table[id].streak}

Rejected(id) == IsPrimary(pass.target) /\ PassRejected(id)
Accepted(id) == IsPrimary(pass.target) /\ PassAccepted(id)

RecordVerdicts ==
    rejectRun' = [id \in Identity |->
        IF Accepted(id) \/ HandlerUpserts(id) THEN 0
        ELSE IF Rejected(id) THEN rejectRun[id] + 1 ELSE rejectRun[id]]

HNext == Next /\ RecordBumps /\ RecordVerdicts
HSpec     == HInit /\ [][HNext]_hvars
HFairSpec == HSpec /\ Fairness

\* However many targets a tick visits, and however the passes interleave with
\* requests, one tick counts at most one rejection of a row (routes.py: "two
\* targets reconciling the same tick can't double-count a rejection streak").
OneBumpPerTick ==
    [][\A id \in bumped \cap Stored(table) :
          table'[id] # None => table'[id].streak <= table[id].streak]_hvars

\* What makes it inductive: the pass is over the loop's target; the tick has
\* counted nothing before the primary's pass sets out; and a row that pass may
\* still count is none it has counted.  A primary listed twice has two passes.
PrimaryListedOnce == \A i \in 2..Len(Targets) : Targets[i] # Primary
TickInv ==
    /\ loop.at = "sleep" => loop.i = 1
    /\ pass.at # "idle" => pass.target = Targets[loop.i]
    /\ loop.i = 1 =>
        /\ loop.at # "await" \/ pass.at \in {"purge", "read"} => bumped = {}
        /\ \A id \in bumped : ~MayCount(id)

\* A row is quarantined as rejected only after three consecutive rejections
\* (migrations/0002: "3 consecutive rejections before being quarantined").
ThreeConsecutive ==
    [][\A id \in ActiveIds(table) :
          table'[id] # None /\ table'[id].reason = "rejected"
            => rejectRun[id] >= Threshold]_hvars

\* What quarantines a row is a verdict on the value it holds (0 where that has
\* expired), so that "a fresh
\* sync is a new value and gets a fresh chance" (cookie_store.py, upsert).
FreshSyncGetsAChance ==
    [][\A id \in ActiveIds(table) :
          table'[id] # None /\ table'[id].reason # "none"
            => /\ pass.rows[id].key = table[id].enc.key
               /\ pass.rows[id].val \in {0, table[id].enc.val}]_hvars

\* With no request in progress the loop injects only what the store holds, so
\* that it does not "re-inject everything you had just cleared" (routes.py,
\* clear_browser_cookies).
InjectsOnlyStored ==
    [][\A id \in Identity :
          EventLoopFree /\ PassAccepted(id) => table[id] # None]_hvars
=============================================================================
