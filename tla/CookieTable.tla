---------------------------- MODULE CookieTable ----------------------------
(***************************************************************************)
(* The table app__proxy__persisted_cookies and the statements              *)
(* cookie_store.py runs on it, one operator per statement.  The table is a *)
(* total function from the primary key (name, domain, path) to a row, or   *)
(* to None where there is no row.                                          *)
(*                                                                         *)
(* Data abstraction: value_enc is the pair of the plaintext's version and  *)
(* the Fernet key it was encrypted under; expires is one of "session"      *)
(* (NULL), "minusOne" (-1, which is how CDP reports that a cookie has no   *)
(* expiry), "dated" (to come), "expired" (past, inside the purge's grace   *)
(* of a day) and "lapsed" (past that too);                                 *)
(* quarantined_at and quarantine_reason, always written together, are the  *)
(* field reason.  The columns that only shape the CDP parameters (secure,  *)
(* http_only, same_site) and updated_at are left out.                      *)
(***************************************************************************)
EXTENDS Naturals

CONSTANTS
    Identity,   \* the cookies, each a record [name, domain, path]
    None,       \* no row, no cookie
    Any,        \* a domain or path parameter that was not given
    RootPath    \* the path "/"

ASSUME NoneAssumption == None \notin Identity

-----------------------------------------------------------------------------
Ciphertext == [val: Nat, key: Nat]
Ttl        == {"session", "minusOne", "dated", "expired", "lapsed"}
Past       == {"minusOne", "lapsed"}      \* expires < cutoff
Outdated   == {"expired", "lapsed"}       \* what a browser finds past
Reason     == {"none", "dead", "rejected"}
Row        == [enc: Ciphertext, ttl: Ttl, reason: Reason, streak: Nat]
Table      == [Identity -> Row \cup {None}]

ASSUME NoneIsNoRow == None \notin Row

EmptyTable == [id \in Identity |-> None]

Stored(tbl) == {id \in Identity : tbl[id] # None}

\* mutant: the filter on quarantined_at is forgotten
ActiveIdsUnfiltered(tbl) == Stored(tbl)

\* all_rows(include_quarantined=False)
ActiveIds(tbl) == {id \in Stored(tbl) : tbl[id].reason = "none"}

\* the WHERE clause of delete(name, domain, path)
Selected(sel) ==
    {id \in Identity : /\ sel.name = id.name
                       /\ sel.domain \in {Any, id.domain}
                       /\ sel.path   \in {Any, id.path}}

-----------------------------------------------------------------------------
\* mutant: ON CONFLICT DO NOTHING
UpsertKeepsOld(tbl, id, enc, ttl) ==
    IF tbl[id] # None THEN tbl
    ELSE [tbl EXCEPT ![id] = [enc |-> enc, ttl |-> ttl, reason |-> "none", streak |-> 0]]

\* upsert: INSERT ... ON CONFLICT DO UPDATE; a conflict clears the quarantine
\* and the streak together with the new value.
Upsert(tbl, id, enc, ttl) ==
    [tbl EXCEPT ![id] = [enc |-> enc, ttl |-> ttl, reason |-> "none", streak |-> 0]]

\* delete and delete_all: the SELECT decides only what is returned, since the
\* DELETE repeats its WHERE clause.
Remove(tbl, ids) == [id \in Identity |-> IF id \in ids THEN None ELSE tbl[id]]

\* quarantine: an UPDATE, so a row that is gone stays gone.
SetQuarantine(tbl, id, reason) ==
    IF tbl[id] = None THEN tbl ELSE [tbl EXCEPT ![id].reason = reason]

\* mutant: the quarantine is reset beside the streak, as an upsert does
BumpFailStreakLifts(tbl, id) ==
    IF tbl[id] = None THEN tbl ELSE [tbl EXCEPT ![id].streak = @ + 1, ![id].reason = "none"]

\* bump_fail_streak is an UPDATE and then a SELECT of what the row holds now.
BumpFailStreak(tbl, id) ==
    IF tbl[id] = None THEN tbl ELSE [tbl EXCEPT ![id].streak = @ + 1]

FailStreak(tbl, id) == IF tbl[id] = None THEN 0 ELSE tbl[id].streak

\* mutant: a NULL expires passes for long ago
DeleteExpiredOrSession(tbl) == Remove(tbl, {id \in Stored(tbl) : tbl[id].ttl # "dated"})

\* delete_expired sweeps the whole table, quarantined rows included.
DeleteExpired(tbl) == Remove(tbl, {id \in Stored(tbl) : tbl[id].ttl \in Past})
=============================================================================
