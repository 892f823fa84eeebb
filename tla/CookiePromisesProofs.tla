------------------------ MODULE CookiePromisesProofs ------------------------
(***************************************************************************)
(* What the pipeline promises: what a step of the pass may do to the store,*)
(* what a sync and a clear have done by the time they turn to the browsers,*)
(* and that all of it implements CookieLedger - for every set of cookies   *)
(* and targets and all bounds.                                             *)
(***************************************************************************)
EXTENDS CookieReconcileProofs, CookieReconcileHistory

-----------------------------------------------------------------------------
(* The pass.                                                               *)

\* While the pass keeps its books, or finds a row dead, the row is active if it
\* is there at all.
LEMMA VerdictIsOnActive ==
    ASSUME IInv, NEW id \in Identity,
           id \in Pending \/ (id = pass.cur /\ pass.at \in {"bump", "streak", "quarantine"})
    PROVE  table[id] # None => table[id].reason = "none"
  BY DEF IInv, Bookkeeping, BooksAreAboutPending, NoQuarantinedPending

\* What the pass has under its hands is a cookie.
LEMMA CurIsIdentity ==
    ASSUME IInv, pass.at \in {"bump", "streak", "quarantine"}
    PROVE  pass.cur \in Identity
  BY DEF IInv, Bookkeeping, BooksAreAboutPending, Pending

\* Judging a row touches no other, and leaves it there with its value.
LEMMA QuarantineEffect ==
    ASSUME TypeOK, NEW id \in Identity, NEW j \in Identity, NEW reason \in Reason
    PROVE  /\ SetQuarantine(table, id, reason)[j] =
                IF j = id /\ table[id] # None THEN [table[id] EXCEPT !.reason = reason]
                                             ELSE table[j]
           /\ table[id] # None => [table[id] EXCEPT !.reason = reason] # None
<1>1. CASE table[id] = None
  BY <1>1 DEF SetQuarantine
<1>2. CASE table[id] # None
  <2>1. table[id] \in Row /\ table \in Table
    BY <1>2 DEF TypeOK, Table
  <2>2. [table[id] EXCEPT !.reason = reason] \in Row
    BY <2>1 DEF Row
  <2>3. SetQuarantine(table, id, reason)
           = [table EXCEPT ![id] = [table[id] EXCEPT !.reason = reason]]
    BY <1>2, <2>1 DEF SetQuarantine, Table
  <2>4. QED
    BY <1>2, <2>1, <2>2, <2>3, NoneIsNoRow DEF Table
<1>3. QED
  BY <1>1, <1>2

\* So does counting a rejection.
LEMMA BumpEffect ==
    ASSUME TypeOK, NEW id \in Identity, NEW j \in Identity
    PROVE  /\ BumpFailStreak(table, id)[j] =
                IF j = id /\ table[id] # None THEN [table[id] EXCEPT !.streak = @ + 1]
                                             ELSE table[j]
           /\ table[id] # None => [table[id] EXCEPT !.streak = @ + 1] # None
<1>1. CASE table[id] = None
  BY <1>1 DEF BumpFailStreak
<1>2. CASE table[id] # None
  <2>1. table[id] \in Row /\ table \in Table
    BY <1>2 DEF TypeOK, Table
  <2>2. [table[id] EXCEPT !.streak = @ + 1] \in Row
    BY <2>1 DEF Row
  <2>3. BumpFailStreak(table, id)
           = [table EXCEPT ![id] = [table[id] EXCEPT !.streak = @ + 1]]
    BY <1>2, <2>1 DEF BumpFailStreak, Table
  <2>4. QED
    BY <1>2, <2>1, <2>2, <2>3, NoneIsNoRow DEF Table
<1>3. QED
  BY <1>1, <1>2

\* The verdict or the strike is about a row that is active, or gone.
LEMMA VerdictKeeps ==
    ASSUME IInv, NEW j \in Identity, NEW id \in Identity,
           table[j] # None => table[j].reason = "none",
           \/ \E reason \in Reason : table' = SetQuarantine(table, j, reason)
           \/ table' = BumpFailStreak(table, j)
    PROVE  PassKeeps(id)
<1>1. TypeOK /\ (table[j] # None => table[j] \in Row)
  BY DEF IInv, TypeOK, Table
<1>2. \/ table'[id] = table[id]
      \/ /\ id = j /\ table[j] # None /\ table'[j] # None
         /\ \/ \E reason \in Reason : table'[j] = [table[j] EXCEPT !.reason = reason]
            \/ table'[j] = [table[j] EXCEPT !.streak = @ + 1]
  <2>1. CASE \E reason \in Reason : table' = SetQuarantine(table, j, reason)
    <3>1. PICK reason \in Reason : table' = SetQuarantine(table, j, reason)
      BY <2>1
    <3>2. CASE table[j] = None
      BY <3>1, <3>2 DEF SetQuarantine
    <3>3. CASE table[j] # None
      <4>1. SetQuarantine(table, j, reason)[j] = [table[j] EXCEPT !.reason = reason]
        BY <1>1, <3>3, QuarantineEffect
      <4>2. id # j => SetQuarantine(table, j, reason)[id] = table[id]
        BY <1>1, QuarantineEffect
      <4>3. [table[j] EXCEPT !.reason = reason] # None
        BY <1>1, <3>3, QuarantineEffect
      <4>4. QED
        BY <3>1, <3>3, <4>1, <4>2, <4>3
    <3>4. QED
      BY <3>2, <3>3
  <2>2. CASE table' = BumpFailStreak(table, j)
    BY <1>1, <2>2, BumpEffect
  <2>3. QED
    BY <2>1, <2>2
<1>3. QED
  BY <1>1, <1>2 DEF PassKeeps, Row

\* The effect of a step of the pass on a row.
LEMMA PassTouches ==
    ASSUME IInv, BooksArePrimary, PassStep, NEW id \in Identity
    PROVE  PassKeeps(id) /\ (pass.target # Primary => table'[id] = table[id])
<1>1. CASE UNCHANGED table
  BY <1>1 DEF PassKeeps
<1>2. CASE PassPurges
  <2>1. pass.target = Primary
    BY <1>2 DEF PassPurges, BooksArePrimary, IsPrimary
  <2>2. table'[id] = IF id \in Stored(table) /\ table[id].ttl \in Past THEN None ELSE table[id]
    BY <1>2 DEF PassPurges, DeleteExpired, Remove
  <2>3. QED
    BY <2>1, <2>2 DEF PassKeeps, Stored
<1>3. ASSUME NEW j \in Identity, PassFindsDead(j)
      PROVE  PassKeeps(id) /\ (pass.target # Primary => table'[id] = table[id])
  <2>1. CASE pass.target # Primary
    BY <1>3, <2>1, <1>1 DEF PassFindsDead, IsPrimary
  <2>2. CASE pass.target = Primary
    <3>1. table[j] # None => table[j].reason = "none"
      BY <1>3, VerdictIsOnActive DEF PassFindsDead
    <3>2. table' = SetQuarantine(table, j, "dead")
      BY <1>3, <2>2 DEF PassFindsDead, IsPrimary
    <3>3. QED
      BY <2>2, <3>1, <3>2, VerdictKeeps DEF Reason
  <2>3. QED
    BY <2>1, <2>2
<1>4. CASE PassBumps \/ PassQuarantines
  <2>1. pass.at \in {"bump", "quarantine"} /\ pass.target = Primary
    BY <1>4 DEF PassBumps, PassQuarantines, BooksArePrimary, IsPrimary
  <2>2. pass.cur \in Identity /\ (table[pass.cur] # None => table[pass.cur].reason = "none")
    BY <2>1, VerdictIsOnActive, CurIsIdentity
  <2>3. \/ \E reason \in Reason : table' = SetQuarantine(table, pass.cur, reason)
        \/ table' = BumpFailStreak(table, pass.cur)
    BY <1>4 DEF PassBumps, PassQuarantines, Reason
  <2>4. QED
    BY <2>1, <2>2, <2>3, VerdictKeeps
<1>5. QED
  BY <1>1, <1>2, <1>3, <1>4
  DEF PassStep, PassReads, PassConnects, PassAccepted, PassUnanswered, PassRejected,
      PassReadsStreak, PassBreaks

\* The stages of a pass that only the primary's has are entered from one another.
LEMMA BooksArePrimaryInv ==
    ASSUME IInv, BooksArePrimary, [Next]_vars
    PROVE  BooksArePrimary'
<1> USE DEF BooksArePrimary, IInv, TypeOK, PassRecord
<1>1. CASE UNCHANGED pass
  BY <1>1 DEF IsPrimary
<1>2. CASE LoopStep
  <2>1. CASE LoopSpawnsPass
    BY <2>1 DEF LoopSpawnsPass, IdlePass, IsPrimary
  <2>2. CASE LoopCollectsPass
    BY <2>2 DEF LoopCollectsPass, IdlePass
  <2>3. QED
    BY <1>1, <1>2, <2>1, <2>2 DEF LoopStep, LoopWake, LoopPassesBy
<1>3. ASSUME NEW id \in Identity, Advance(id) PROVE BooksArePrimary'
  BY <1>3, AdvanceEffect
<1>4. ASSUME NEW how \in {"done", "failed"}, PassEnds(how) PROVE BooksArePrimary'
  BY <1>4 DEF PassEnds, IdlePass
<1>5. CASE PassStep
  <2>1. CASE PassPurges \/ PassReads \/ PassConnects \/ PassBreaks
    BY <2>1, <1>4 DEF PassPurges, PassReads, PassConnects, PassBreaks
  <2>2. ASSUME NEW id \in Identity,
               PassFindsDead(id) \/ PassAccepted(id) \/ PassUnanswered(id) \/ PassRejected(id)
        PROVE  BooksArePrimary'
    BY <2>2, <1>3 DEF PassFindsDead, PassAccepted, PassUnanswered, PassRejected, IsPrimary
  <2>3. CASE PassBumps \/ PassReadsStreak \/ PassQuarantines
    BY <2>3, <1>3, CurIsIdentity DEF PassBumps, PassReadsStreak, PassQuarantines, IsPrimary
  <2>4. QED
    BY <1>5, <2>1, <2>2, <2>3 DEF PassStep
<1>6. CASE HandlerRequest \/ HandlerStep
  BY <1>1, <1>6
  DEF HandlerRequest, SyncRequest, PersistRequest, ClearRequest, Forget, HandlerStep,
      HandlerUpserts, HandlerDeletes, HandlerStored, HandlerDials, HandlerSends, HandlerLeaves
<1>7. CASE Outside
  BY <1>1, <1>4, <1>7
  DEF Outside, BrowserStops, BrowserStarts, JarDrifts, CookieAges, KeyRotates, PassFails,
      HandlerFails, Crash, IdlePass
<1>8. CASE UNCHANGED vars
  BY <1>1, <1>8 DEF vars
<1>9. QED
  BY <1>2, <1>5, <1>6, <1>7, <1>8 DEF Next

-----------------------------------------------------------------------------
(* What is stored lasts.                                                   *)

\* A row is kept with its value, or its expiry has passed.
Lasts(id) ==
    /\ table[id] = None => table'[id] = None
    /\ table[id] # None =>
        \/ table'[id] = None /\ table[id].ttl \in Past
        \/ /\ table'[id] # None /\ table'[id].enc = table[id].enc
           /\ \/ table'[id].ttl = table[id].ttl
              \/ table[id].ttl \in {"dated", "expired"} /\ table'[id].ttl \in Outdated

\* A row whose expiry passes stays, and so it does when a day has passed since.
LEMMA AgeLasts ==
    ASSUME TypeOK, CookieAges, NEW id \in Identity
    PROVE  Lasts(id)
<1>1. PICK j \in Stored(table), later \in Outdated :
        /\ table[j].ttl \in {"dated", "expired"}
        /\ table' = [table EXCEPT ![j].ttl = later]
  BY DEF CookieAges, Outdated
<1>2. j \in Identity /\ table[j] \in Row /\ table[j] # None /\ table \in Table
  BY <1>1 DEF Stored, TypeOK, Table
<1>3. [table[j] EXCEPT !.ttl = later] \in Row
  BY <1>2 DEF Row, Ttl, Outdated
<1>4. table'[id] = IF id = j THEN [table[j] EXCEPT !.ttl = later] ELSE table[id]
  BY <1>1, <1>2 DEF Table
<1>5. QED
  BY <1>1, <1>2, <1>3, <1>4, NoneIsNoRow DEF Lasts, Row

\* Only a request replaces a value or takes one out.
LEMMA StoreLasts ==
    ASSUME IInv, BooksArePrimary, [Next]_vars, NEW id \in Identity
    PROVE  Lasts(id) \/ Forget \/ HandlerDeletes \/ \E j \in Identity : HandlerUpserts(j)
<1>1. CASE UNCHANGED table
  BY <1>1 DEF Lasts
<1>2. CASE PassStep
  BY <1>2, PassTouches DEF PassKeeps, Lasts
<1>3. CASE CookieAges
  BY <1>3, AgeLasts DEF IInv
<1>4. QED
  BY <1>1, <1>2, <1>3
  DEF Next, vars, LoopStep, LoopWake, LoopPassesBy, LoopSpawnsPass, LoopCollectsPass,
      HandlerRequest, SyncRequest, PersistRequest, ClearRequest, HandlerStep,
      HandlerStored, HandlerDials, HandlerSends, HandlerLeaves, Outside, BrowserStops,
      BrowserStarts, JarDrifts, KeyRotates, PassFails, HandlerFails, Crash

\* A request that upserts puts its value, under the key in use; a delete puts
\* nothing.
LEMMA RequestStores ==
    ASSUME TypeOK, NEW id \in Identity
    PROVE  /\ \A j \in Identity : HandlerUpserts(j) =>
                table'[id] = IF id = j
                             THEN [enc |-> Encrypt(handler.incoming[j].val),
                                   ttl |-> handler.incoming[j].ttl,
                                   reason |-> "none", streak |-> 0]
                             ELSE table[id]
           /\ Forget \/ HandlerDeletes => table'[id] \in {table[id], None}
<1>1. table \in Table
  BY DEF TypeOK
<1>2. QED
  BY <1>1 DEF HandlerUpserts, Upsert, Forget, HandlerDeletes, Remove, Table

\* A pass never holds a ciphertext but of its snapshot.
LEMMA PassRows ==
    ASSUME IInv, [Next]_vars, NEW id \in Identity
    PROVE  \/ pass'.rows[id] \in {None, pass.rows[id]}
           \/ table[id] # None /\ pass'.rows[id] = AsPushed(table[id])
<1> USE DEF IInv, TypeOK, PassRecord
<1>1. CASE UNCHANGED pass
  BY <1>1
<1>2. ASSUME NEW j \in Identity, Advance(j) PROVE pass'.rows[id] \in {None, pass.rows[id]}
  BY <1>2, AdvanceEffect
<1>3. ASSUME NEW how \in {"done", "failed"}, PassEnds(how) PROVE pass'.rows[id] = None
  BY <1>3 DEF PassEnds, IdlePass, NoRows
<1>4. CASE PassReads
  <2>1. CASE ActiveIds(table) = {}
    BY <1>3, <1>4, <2>1 DEF PassReads
  <2>2. CASE ActiveIds(table) # {}
    <3>1. pass'.rows = Snapshot
      BY <1>4, <2>2 DEF PassReads
    <3>2. QED
      BY <3>1 DEF Snapshot, ActiveIds, Stored
  <2>3. QED
    BY <2>1, <2>2
<1>5. CASE PassPurges \/ PassConnects \/ PassBreaks
  BY <1>3, <1>5 DEF PassPurges, PassConnects, PassBreaks
<1>6. ASSUME NEW j \in Identity,
             PassFindsDead(j) \/ PassAccepted(j) \/ PassUnanswered(j) \/ PassRejected(j)
      PROVE  pass'.rows[id] \in {None, pass.rows[id]}
  BY <1>2, <1>6 DEF PassFindsDead, PassAccepted, PassUnanswered, PassRejected
<1>7. CASE PassBumps \/ PassReadsStreak \/ PassQuarantines
  BY <1>2, <1>7, CurIsIdentity DEF PassBumps, PassReadsStreak, PassQuarantines
<1>8. CASE LoopStep
  <2>1. CASE LoopSpawnsPass \/ LoopCollectsPass
    <3>1. LoopSpawnsPass => pass'.rows = NoRows
      BY DEF LoopSpawnsPass, IdlePass
    <3>2. LoopCollectsPass => pass'.rows = NoRows
      BY DEF LoopCollectsPass, IdlePass
    <3>3. QED
      BY <2>1, <3>1, <3>2 DEF NoRows
  <2>2. QED
    BY <1>1, <1>8, <2>1 DEF LoopStep, LoopWake, LoopPassesBy
<1>9. CASE HandlerRequest \/ HandlerStep
  BY <1>1, <1>9
  DEF HandlerRequest, SyncRequest, PersistRequest, ClearRequest, Forget, HandlerStep,
      HandlerUpserts, HandlerDeletes, HandlerStored, HandlerDials, HandlerSends, HandlerLeaves
<1>10. CASE Outside
  BY <1>1, <1>3, <1>10
  DEF Outside, BrowserStops, BrowserStarts, JarDrifts, CookieAges, KeyRotates, PassFails,
      HandlerFails, Crash, IdlePass, NoRows
<1>11. QED
  BY <1>1, <1>4, <1>5, <1>6, <1>7, <1>8, <1>9, <1>10 DEF Next, vars, PassStep

\* No ciphertext is under a key that is still to come.
LEMMA KeysKnownInv ==
    ASSUME IInv, BooksArePrimary, KeysKnown, [Next]_vars
    PROVE  KeysKnown'
<1>1. secret \in Nat /\ secret' \in {secret, secret + 1}
  BY DEF IInv, TypeOK, Next, vars, LoopStep, LoopWake, LoopPassesBy, LoopSpawnsPass,
      LoopCollectsPass, PassStep, PassPurges, PassReads, PassConnects, PassFindsDead,
      PassAccepted, PassUnanswered, PassRejected, PassBumps, PassReadsStreak,
      PassQuarantines, PassBreaks, HandlerRequest, SyncRequest, PersistRequest,
      ClearRequest, Forget, Tick, HandlerStep, HandlerUpserts, HandlerDeletes,
      HandlerStored, HandlerDials, HandlerSends, HandlerLeaves, Outside, BrowserStops,
      BrowserStarts, JarDrifts, CookieAges, KeyRotates, PassFails, HandlerFails, Crash,
      envVars
<1>2. ASSUME NEW enc, enc \in Ciphertext, enc.key <= secret PROVE enc.key <= secret'
  BY <1>1, <1>2 DEF Ciphertext
<1>3. ASSUME NEW id \in Identity, table[id] # None
      PROVE  table[id].enc \in Ciphertext /\ table[id].enc.key <= secret'
  <2>1. table[id].enc \in Ciphertext
    BY <1>3 DEF IInv, TypeOK, Table, Row
  <2>2. QED
    BY <1>2, <1>3, <2>1 DEF KeysKnown
<1>4. ASSUME NEW id \in Identity, table'[id] # None PROVE table'[id].enc.key <= secret'
  <2>1. CASE \E j \in Identity : HandlerUpserts(j)
    <3>1. PICK j \in Identity : HandlerUpserts(j)
      BY <2>1
    <3>2. table'[id] = IF id = j
                       THEN [enc |-> Encrypt(handler.incoming[j].val),
                             ttl |-> handler.incoming[j].ttl,
                             reason |-> "none", streak |-> 0]
                       ELSE table[id]
      BY <3>1, RequestStores DEF IInv
    <3>3. CASE id = j
      BY <1>1, <3>2, <3>3 DEF Encrypt
    <3>4. CASE id # j
      BY <1>3, <1>4, <3>2, <3>4
    <3>5. QED
      BY <3>3, <3>4
  <2>2. CASE Forget \/ HandlerDeletes
    <3>1. table'[id] = table[id]
      BY <1>4, <2>2, RequestStores DEF IInv
    <3>2. QED
      BY <1>3, <1>4, <3>1
  <2>3. CASE Lasts(id)
    BY <1>3, <1>4, <2>3 DEF Lasts
  <2>4. QED
    BY <2>1, <2>2, <2>3, StoreLasts
<1>5. ASSUME NEW id \in Identity, pass'.rows[id] # None PROVE pass'.rows[id].key <= secret'
  <2>1. CASE pass'.rows[id] = pass.rows[id]
    <3>1. pass.rows[id] \in Ciphertext
      BY <1>5, <2>1 DEF IInv, TypeOK, PassRecord
    <3>2. pass.rows[id].key <= secret
      BY <1>5, <2>1 DEF KeysKnown
    <3>3. QED
      BY <1>2, <2>1, <3>1, <3>2
  <2>2. CASE table[id] # None /\ pass'.rows[id] = AsPushed(table[id])
    <3>1. AsPushed(table[id]).key = table[id].enc.key
      BY <1>3, <2>2 DEF AsPushed, Ciphertext
    <3>2. QED
      BY <1>3, <2>2, <3>1
  <2>3. QED
    BY <1>5, <2>1, <2>2, PassRows
<1>6. QED
  BY <1>4, <1>5 DEF KeysKnown

-----------------------------------------------------------------------------
(* A sync or a clear on its way.                                           *)

\* Who moves the handler.
LEMMA HandlerMoves ==
    ASSUME [Next]_vars
    PROVE  \/ handler' = handler \/ handler'.op = "none"
           \/ SyncRequest \/ PersistRequest \/ ClearRequest \/ HandlerStep
<1>1. LoopStep \/ UNCHANGED vars => handler' = handler
  BY DEF LoopStep, LoopWake, LoopPassesBy, LoopSpawnsPass, LoopCollectsPass, vars
<1>2. PassStep => handler' = handler
  BY DEF PassStep, PassPurges, PassReads, PassConnects, PassFindsDead, PassAccepted,
         PassUnanswered, PassRejected, PassBumps, PassReadsStreak, PassQuarantines, PassBreaks
<1>3. HandlerFails \/ Crash => handler'.op = "none"
  BY DEF HandlerFails, Crash, IdleHandler
<1>4. Outside => handler' = handler \/ HandlerFails \/ Crash
  BY DEF Outside, BrowserStops, BrowserStarts, JarDrifts, CookieAges, KeyRotates, PassFails
<1>5. Forget => handler' = handler
  BY DEF Forget
<1>6. QED
  BY <1>1, <1>2, <1>3, <1>4, <1>5 DEF Next, HandlerRequest

\* From the last statement on, a request keeps its purpose and its values.
LEMMA HandlerGoesOn ==
    ASSUME TypeOK, HandlerStored \/ HandlerDials \/ HandlerSends \/ HandlerLeaves
    PROVE  /\ UNCHANGED table
           /\ \/ handler'.op = "none"
              \/ /\ handler'.op = handler.op /\ handler'.purge = handler.purge
                 /\ handler'.incoming = handler.incoming
                 /\ handler'.at # "store"
                 /\ handler.at # "store" \/ handler.todo = {}
<1> USE DEF TypeOK, HandlerRecord
<1>1. NextHop => \/ handler'.op = "none"
                 \/ /\ handler'.op = handler.op /\ handler'.purge = handler.purge
                    /\ handler'.incoming = handler.incoming /\ handler'.at = "dial"
  BY DEF NextHop, IdleHandler
<1>2. CASE HandlerStored
  <2>1. IdleHandler.op = "none"
    BY DEF IdleHandler
  <2>2. UNCHANGED table /\ handler.todo = {}
    BY <1>2 DEF HandlerStored
  <2>3. \/ handler' = IdleHandler
        \/ handler' = [handler EXCEPT !.at = "dial"]
    BY <1>2 DEF HandlerStored
  <2>4. QED
    BY <2>1, <2>2, <2>3
<1>3. CASE HandlerDials
  <2>1. UNCHANGED table /\ handler.at = "dial"
    BY <1>3 DEF HandlerDials
  <2>2. NextHop \/ handler' = [handler EXCEPT !.at = "send", !.todo = handler.live]
    BY <1>3 DEF HandlerDials
  <2>3. QED
    BY <1>1, <2>1, <2>2
<1>4. CASE HandlerSends
  BY <1>4 DEF HandlerSends
<1>5. CASE HandlerLeaves
  BY <1>1, <1>5 DEF HandlerLeaves
<1>6. QED
  BY <1>2, <1>3, <1>4, <1>5

\* A sync, from its first statement on, keeps what it has stored.
LEMMA SyncUnderWayInv ==
    ASSUME IInv, BooksArePrimary, SyncUnderWay, [Next]_vars
    PROVE  SyncUnderWay'
<1> USE DEF IInv, TypeOK, HandlerRecord
<1>1. CASE handler' = handler
  <2>1. SUFFICES ASSUME handler.op = "sync", NEW id \in Identity,
                        handler.incoming[id].val # 0
                 PROVE  /\ handler.incoming[id].ttl # "minusOne"
                        /\ \/ handler.at = "store" /\ {id} \in handler.todo
                           \/ KeptSince(id, handler.incoming[id])'
    BY <1>1 DEF SyncUnderWay
  <2>2. /\ handler.incoming[id] \in Incoming /\ handler.incoming[id].ttl # "minusOne"
        /\ \/ handler.at = "store" /\ {id} \in handler.todo
           \/ KeptSince(id, handler.incoming[id])
    BY <2>1 DEF SyncUnderWay
  <2>3. ~Forget /\ ~HandlerDeletes
    BY <2>1 DEF Forget, Serving, EventLoopFree, HandlerDeletes
  <2>4. \A j \in Identity : ~HandlerUpserts(j)
    BY <1>1 DEF HandlerUpserts
  <2>5. Lasts(id)
    BY <2>3, <2>4, StoreLasts
  <2>6. DEFINE c == handler.incoming[id]
  <2>7. KeptSince(id, c) => KeptSince(id, c)'
    BY <1>1, <2>2, <2>5 DEF KeptSince, Lasts, Incoming, Past, Outdated
  <2>8. QED
    BY <2>2, <2>7
<1>2. CASE handler'.op = "none" \/ PersistRequest \/ ClearRequest
  <2>1. PersistRequest => handler'.op = "persist"
    BY DEF PersistRequest
  <2>2. ClearRequest => handler'.op = "clear"
    BY DEF ClearRequest, IdleHandler
  <2>3. QED
    BY <1>2, <2>1, <2>2 DEF SyncUnderWay
<1>3. CASE SyncRequest
  <2>1. PICK body \in SyncBodies, ttl \in [Identity -> {"session", "dated"}] :
          handler' = [op |-> "sync", at |-> "store", todo |-> Units(body),
                      purge |-> {}, live |-> Units(body), hop |-> 1,
                      incoming |-> [id \in Identity |->
                         [val |-> IF id \in body THEN clock + 1 ELSE 0, ttl |-> ttl[id]]]]
    BY <1>3 DEF SyncRequest
  <2>2. ASSUME NEW id \in Identity, handler'.incoming[id].val # 0
        PROVE  handler'.incoming[id].ttl # "minusOne" /\ {id} \in handler'.todo
    BY <2>1, <2>2 DEF Units
  <2>3. QED
    BY <2>1, <2>2 DEF SyncUnderWay
<1>4. ASSUME NEW j \in Identity, HandlerUpserts(j) PROVE SyncUnderWay'
  <2>1. /\ handler'.op = handler.op /\ handler'.at = handler.at
        /\ handler'.incoming = handler.incoming /\ handler'.todo = handler.todo \ {{j}}
        /\ handler.at = "store"
    BY <1>4 DEF HandlerUpserts
  <2>2. SUFFICES ASSUME handler.op = "sync", NEW id \in Identity,
                        handler.incoming[id].val # 0
                 PROVE  /\ handler.incoming[id].ttl # "minusOne"
                        /\ \/ {id} \in handler'.todo
                           \/ KeptSince(id, handler.incoming[id])'
    BY <2>1 DEF SyncUnderWay
  <2>3. /\ handler.incoming[id].ttl # "minusOne"
        /\ {id} \in handler.todo \/ KeptSince(id, handler.incoming[id])
    BY <2>2 DEF SyncUnderWay
  <2>4. table'[id] = IF id = j
                     THEN [enc |-> Encrypt(handler.incoming[j].val),
                           ttl |-> handler.incoming[j].ttl,
                           reason |-> "none", streak |-> 0]
                     ELSE table[id]
    BY <1>4, RequestStores
  <2>5. CASE id = j
    <3>1. table'[id] \in Row
      BY <2>4, <2>5, NextInv DEF Row, Encrypt, Ciphertext, Incoming, Ttl, Reason
    <3>2. QED
      BY <2>1, <2>3, <2>4, <2>5, <3>1, NoneIsNoRow DEF KeptSince, Encrypt
  <2>6. CASE id # j
    <3>1. {id} # {j}
      BY <2>6
    <3>2. KeptSince(id, handler.incoming[id]) => KeptSince(id, handler.incoming[id])'
      BY <2>1, <2>4, <2>6 DEF KeptSince
    <3>3. QED
      BY <2>1, <2>3, <3>1, <3>2
  <2>7. QED
    BY <2>5, <2>6
<1>5. CASE HandlerDeletes
  BY <1>5 DEF HandlerDeletes, SyncUnderWay
<1>6. CASE HandlerStored \/ HandlerDials \/ HandlerSends \/ HandlerLeaves
  <2>1. SUFFICES ASSUME handler'.op = "sync", NEW id \in Identity,
                        handler'.incoming[id].val # 0
                 PROVE  /\ handler'.incoming[id].ttl # "minusOne"
                        /\ KeptSince(id, handler.incoming[id])'
    BY <1>6, HandlerGoesOn DEF SyncUnderWay
  <2>2. /\ UNCHANGED table /\ handler.op = "sync"
        /\ handler'.incoming = handler.incoming
        /\ handler.at # "store" \/ handler.todo = {}
    BY <1>6, <2>1, HandlerGoesOn
  <2>3. handler.incoming[id].ttl # "minusOne" /\ KeptSince(id, handler.incoming[id])
    BY <2>1, <2>2 DEF SyncUnderWay
  <2>4. QED
    BY <2>2, <2>3 DEF KeptSince
<1>7. QED
  BY <1>1, <1>2, <1>3, <1>4, <1>5, <1>6, HandlerMoves DEF HandlerStep

\* A clear keeps purged what it has purged, and its list is what is left.
LEMMA ClearUnderWayInv ==
    ASSUME IInv, BooksArePrimary, ClearUnderWay, [Next]_vars
    PROVE  ClearUnderWay'
<1> USE DEF IInv, TypeOK, HandlerRecord
<1>1. CASE handler' = handler
  <2>1. SUFFICES ASSUME handler.op = "clear", NEW unit \in handler.purge,
                        NEW id \in unit \cap Stored(table)'
                 PROVE  handler.at = "store" /\ id \in UNION handler.todo
    BY <1>1 DEF ClearUnderWay
  <2>2. id \in Identity /\ table'[id] # None
    BY <2>1 DEF Stored
  <2>3. ~Forget /\ ~HandlerDeletes
    <3>1. HandlerDeletes => \E u \in handler.todo : handler'.todo = handler.todo \ {u}
      BY DEF HandlerDeletes
    <3>2. QED
      BY <1>1, <2>1, <3>1 DEF Forget, Serving, EventLoopFree
  <2>4. \A j \in Identity : ~HandlerUpserts(j)
    BY <2>1 DEF HandlerUpserts
  <2>5. id \in Stored(table)
    BY <2>2, <2>3, <2>4, StoreLasts DEF Lasts, Stored
  <2>6. QED
    BY <2>1, <2>5 DEF ClearUnderWay
<1>2. CASE handler'.op = "none" \/ SyncRequest \/ PersistRequest
  <2>1. SyncRequest => handler'.op = "sync"
    BY DEF SyncRequest
  <2>2. PersistRequest => handler'.op = "persist"
    BY DEF PersistRequest
  <2>3. QED
    BY <1>2, <2>1, <2>2 DEF ClearUnderWay
<1>3. CASE ClearRequest
  <2>1. PICK of : handler' = [IdleHandler EXCEPT !.op = "clear", !.todo = of[1],
                                                 !.purge = of[1], !.live = of[2]]
    BY <1>3 DEF ClearRequest
  <2>2. handler'.at = "store" /\ handler'.todo = handler'.purge
    BY <2>1 DEF IdleHandler
  <2>3. QED
    BY <2>2 DEF ClearUnderWay
<1>4. ASSUME NEW j \in Identity, HandlerUpserts(j) PROVE ClearUnderWay'
  BY <1>4 DEF HandlerUpserts, ClearUnderWay
<1>5. CASE HandlerDeletes
  <2>1. PICK done \in handler.todo : /\ table' = Remove(table, done)
                                     /\ handler' = [handler EXCEPT !.todo = @ \ {done}]
    BY <1>5 DEF HandlerDeletes
  <2>2. /\ handler'.op = handler.op /\ handler'.at = "store" /\ handler'.purge = handler.purge
        /\ handler'.todo = handler.todo \ {done}
    BY <1>5, <2>1 DEF HandlerDeletes
  <2>3. SUFFICES ASSUME handler.op = "clear", NEW unit \in handler.purge,
                        NEW id \in unit \cap Stored(table)'
                 PROVE  id \in UNION handler'.todo
    BY <2>2 DEF ClearUnderWay
  <2>4. id \in Stored(table) /\ id \notin done
    BY <2>1, <2>3 DEF Stored, Remove
  <2>5. id \in UNION handler.todo
    BY <2>3, <2>4 DEF ClearUnderWay
  <2>6. QED
    BY <2>2, <2>4, <2>5
<1>6. CASE HandlerStored \/ HandlerDials \/ HandlerSends \/ HandlerLeaves
  <2>1. UNCHANGED table /\ Stored(table)' = Stored(table)
    BY <1>6, HandlerGoesOn DEF Stored
  <2>2. SUFFICES ASSUME handler'.op = "clear", NEW unit \in handler'.purge,
                        NEW id \in unit \cap Stored(table)
                 PROVE  FALSE
    BY <2>1 DEF ClearUnderWay
  <2>3. /\ handler.op = "clear" /\ unit \in handler.purge
        /\ handler.at # "store" \/ handler.todo = {}
    BY <1>6, <2>2, HandlerGoesOn
  <2>4. QED
    BY <2>2, <2>3 DEF ClearUnderWay
<1>7. QED
  BY <1>1, <1>2, <1>3, <1>4, <1>5, <1>6, HandlerMoves DEF HandlerStep

-----------------------------------------------------------------------------
(* The promises.                                                           *)

\* The strengthening that the promises about requests rest on holds in every
\* behaviour.
THEOREM PromisesCorrect == Spec => []PromisesInv
<1>1. Init => PromisesInv
  <2>1. ASSUME Init PROVE PromisesInv
    <3>1. IInv
      BY <2>1, InitInv
    <3>2. KeysKnown
      BY <2>1 DEF Init, KeysKnown, EmptyTable, IdlePass, NoRows
    <3>3. BooksArePrimary /\ SyncUnderWay /\ ClearUnderWay
      BY <2>1 DEF Init, BooksArePrimary, SyncUnderWay, ClearUnderWay, IdlePass, IdleHandler
    <3>4. QED
      BY <3>1, <3>2, <3>3 DEF PromisesInv
  <2>2. QED
    BY <2>1
<1>2. PromisesInv /\ [Next]_vars => PromisesInv'
  BY NextInv, BooksArePrimaryInv, KeysKnownInv, SyncUnderWayInv, ClearUnderWayInv
  DEF PromisesInv
<1>3. QED
  BY <1>1, <1>2, PTL DEF Spec

\* Once a sync has turned to the browsers, what it carried is in the store, or
\* its expiry has passed.
THEOREM SyncCorrect == Spec => []SyncedIsStored
<1>1. PromisesInv => SyncedIsStored
  BY DEF PromisesInv, SyncedIsStored, SyncUnderWay, KeptSince
<1>2. QED
  BY <1>1, PromisesCorrect, PTL

\* Once a clear has turned to the browsers, no row it selected, of whatever path,
\* is in the store.
THEOREM ClearCorrect == Spec => []ClearedIsPurged
<1>1. PromisesInv => ClearedIsPurged
  BY DEF PromisesInv, ClearedIsPurged, ClearUnderWay
<1>2. QED
  BY <1>1, PromisesCorrect, PTL

\* The pass's thread never adds a row, changes a value, lifts a quarantine or
\* takes out a row that is not expired; on a secondary target it writes nothing.
THEOREM PassKeepsCorrect == Spec => PassKeepsStore
<1>1. ASSUME PromisesInv, [Next]_vars, pass' # pass, handler' = handler, NEW id \in Identity
      PROVE  PassKeeps(id) /\ (pass.target # Primary => table'[id] = table[id])
  <2>1. CASE UNCHANGED table
    BY <2>1 DEF PassKeeps
  <2>2. CASE PassStep
    BY <1>1, <2>2, PassTouches DEF PromisesInv
  <2>3. QED
    BY <1>1, <2>1, <2>2
    DEF Next, vars, LoopStep, LoopWake, LoopPassesBy, LoopSpawnsPass, LoopCollectsPass,
        HandlerRequest, SyncRequest, PersistRequest, ClearRequest, Forget, HandlerStep,
        HandlerUpserts, HandlerDeletes, HandlerStored, HandlerDials, HandlerSends,
        HandlerLeaves, Outside, BrowserStops, BrowserStarts, JarDrifts, CookieAges,
        KeyRotates, PassFails, HandlerFails, Crash
<1>2. PromisesInv /\ [Next]_vars =>
        [pass' # pass /\ handler' = handler =>
            \A id \in Identity : PassKeeps(id)
                                 /\ (pass.target # Primary => table'[id] = table[id])]_vars
  BY <1>1
<1>3. QED
  BY <1>2, PromisesCorrect, PTL DEF Spec, PassKeepsStore

-----------------------------------------------------------------------------
(* The pipeline implements CookieLedger: every step of a pass, a request,  *)
(* the loop or the environment is a step of the ledger, or none.           *)

Entries  == [id \in Identity |-> AsEntry(table[id])]
Charged  == IF pass.at = "quarantine" THEN pass.cur ELSE None
LedgerStep == [Ledger!LedgerNext]_(Ledger!lvars)

\* An entry is there where a row is, and shows its value, verdict and strikes.
LEMMA EntryOf ==
    ASSUME TypeOK, NEW id \in Identity
    PROVE  /\ Entries[id] = AsEntry(table[id])
           /\ table[id] = None => Entries[id] = None
           /\ table[id] # None =>
                /\ Entries[id] # None
                /\ Entries[id] = [val |-> table[id].enc.val, verdict |-> table[id].reason,
                                  strikes |-> table[id].streak]
                /\ Entries[id].verdict = table[id].reason
                /\ Entries[id].strikes = table[id].streak
<1>1. Entries[id] = AsEntry(table[id])
  BY DEF Entries
<1>2. CASE table[id] = None
  BY <1>1, <1>2 DEF AsEntry
<1>3. CASE table[id] # None
  <2>1. table[id] \in Row
    BY <1>3 DEF TypeOK, Table
  <2>2. [val |-> table[id].enc.val, verdict |-> table[id].reason, strikes |-> table[id].streak]
           \in [val: Nat, verdict: Reason, strikes: Nat]
    BY <2>1 DEF Row, Ciphertext
  <2>3. QED
    BY <1>1, <1>3, <2>2, NoneIsNoEntry DEF AsEntry
<1>4. QED
  BY <1>2, <1>3, <1>1

\* An entry is active where the row is.
LEMMA ActiveOf ==
    ASSUME TypeOK, NEW id \in Identity
    PROVE  Ledger!Active(id) <=> table[id] # None /\ table[id].reason = "none"
<1>1. Ledger!Active(id) <=> Entries[id] # None /\ Entries[id].verdict = "none"
  BY DEF Ledger!Active, Entries
<1>2. CASE table[id] = None
  BY <1>1, <1>2, EntryOf
<1>3. CASE table[id] # None
  <2>1. Entries[id] # None /\ Entries[id].verdict = table[id].reason
    BY <1>3, EntryOf
  <2>2. QED
    BY <1>1, <1>3, <2>1
<1>4. QED
  BY <1>2, <1>3

\* A step that keeps entries, charge and key is none of the ledger's.
LEMMA Stutters ==
    ASSUME UNCHANGED <<Entries, Charged>>, UNCHANGED (secret # 0)
    PROVE  LedgerStep
  BY DEF LedgerStep, Ledger!lvars, Entries, Charged

\* Entries follow the table.
LEMMA SameEntries ==
    ASSUME \A id \in Identity : AsEntry(table'[id]) = AsEntry(table[id])
    PROVE  UNCHANGED Entries
  BY DEF Entries

\* A verdict on a row is a verdict on its entry.
LEMMA VerdictOfEntry ==
    ASSUME TypeOK, NEW j \in Identity, NEW reason \in Reason, table[j] # None,
           table' = SetQuarantine(table, j, reason)
    PROVE  Entries' = [Entries EXCEPT ![j].verdict = reason]
<1>1. table[j] \in Row
  BY DEF TypeOK, Table
<1>2. table'[j] = [table[j] EXCEPT !.reason = reason] /\ table'[j] # None
  BY QuarantineEffect
<1>3. \A i \in Identity \ {j} : table'[i] = table[i]
  BY QuarantineEffect
<1>4. Entries[j] = [val |-> table[j].enc.val, verdict |-> table[j].reason,
                    strikes |-> table[j].streak]
  BY EntryOf
<1>5. AsEntry(table'[j]) = [Entries[j] EXCEPT !.verdict = reason]
  BY <1>1, <1>2, <1>4 DEF AsEntry, Row
<1>6. QED
  BY <1>3, <1>5 DEF Entries

\* A strike on a row is a strike on its entry.
LEMMA StrikeOfEntry ==
    ASSUME TypeOK, NEW j \in Identity, table[j] # None, table' = BumpFailStreak(table, j)
    PROVE  Entries' = [Entries EXCEPT ![j].strikes = @ + 1]
<1>1. table[j] \in Row
  BY DEF TypeOK, Table
<1>2. table'[j] = [table[j] EXCEPT !.streak = @ + 1] /\ table'[j] # None
  BY BumpEffect
<1>3. \A i \in Identity \ {j} : table'[i] = table[i]
  BY BumpEffect
<1>4. Entries[j] = [val |-> table[j].enc.val, verdict |-> table[j].reason,
                    strikes |-> table[j].streak]
  BY EntryOf
<1>5. AsEntry(table'[j]) = [Entries[j] EXCEPT !.strikes = @ + 1]
  BY <1>1, <1>2, <1>4 DEF AsEntry, Row
<1>6. QED
  BY <1>3, <1>5 DEF Entries

\* Rows that go are entries that go.
LEMMA DropsEntries ==
    ASSUME NEW ids \in SUBSET Identity, table' = Remove(table, ids),
           UNCHANGED Charged, UNCHANGED (secret # 0)
    PROVE  Ledger!DropEntries
<1>1. Entries' = [id \in Identity |-> IF id \in ids THEN None ELSE Entries[id]]
  <2>1. \A id \in Identity : AsEntry(table'[id]) = IF id \in ids THEN None ELSE AsEntry(table[id])
    BY DEF Remove, AsEntry
  <2>2. QED
    BY <2>1 DEF Entries
<1>2. QED
  BY <1>1 DEF Ledger!DropEntries, Entries, Charged

\* An upsert puts an entry.
LEMMA PutsEntry ==
    ASSUME TypeOK, NEW j \in Identity, HandlerUpserts(j)
    PROVE  Ledger!PutEntry(j)
<1>1. UNCHANGED Charged /\ UNCHANGED (secret # 0)
  BY DEF HandlerUpserts, Charged, envVars
<1>2. \A i \in Identity :
        table'[i] = IF i = j THEN [enc |-> Encrypt(handler.incoming[j].val),
                                   ttl |-> handler.incoming[j].ttl,
                                   reason |-> "none", streak |-> 0]
                             ELSE table[i]
  BY RequestStores
<1>3. [enc |-> Encrypt(handler.incoming[j].val), ttl |-> handler.incoming[j].ttl,
       reason |-> "none", streak |-> 0] \in Row
  BY DEF TypeOK, HandlerRecord, Incoming, Encrypt, Ciphertext, Row, Ttl, Reason
<1>4. [val |-> handler.incoming[j].val, verdict |-> "none", strikes |-> 0]
         \in [val: Nat, verdict: Reason, strikes: Nat]
  BY DEF TypeOK, HandlerRecord, Incoming, Reason
<1>5. AsEntry(table'[j]) = [val |-> handler.incoming[j].val, verdict |-> "none", strikes |-> 0]
  BY <1>2, <1>3, NoneIsNoRow DEF AsEntry, Encrypt
<1>6. /\ Entries'[j] = AsEntry(table'[j])
      /\ \A i \in Identity \ {j} : Entries'[i] = Entries[i]
  BY <1>2 DEF Entries
<1>7. /\ Entries'[j] # None /\ Entries'[j].verdict = "none" /\ Entries'[j].strikes = 0
  BY <1>4, <1>5, <1>6, NoneIsNoEntry
<1>8. QED
  BY <1>1, <1>6, <1>7 DEF Ledger!PutEntry, Entries, Charged

-----------------------------------------------------------------------------
(* The steps of a pass.                                                    *)

\* Leaving a row behind, or ending, leaves no charge.
LEMMA NoChargeAfter ==
    ASSUME TypeOK
    PROVE  /\ \A id \in Identity : Advance(id) => Charged' = None
           /\ \A how \in {"done", "failed"} : PassEnds(how) => Charged' = None
<1>1. ASSUME NEW id \in Identity, Advance(id) PROVE Charged' = None
  BY <1>1, AdvanceEffect DEF Charged
<1>2. ASSUME NEW how \in {"done", "failed"}, PassEnds(how) PROVE Charged' = None
  <2>1. pass'.at = how
    BY <1>2 DEF PassEnds, IdlePass
  <2>2. QED
    BY <2>1 DEF Charged
<1>3. QED
  BY <1>1, <1>2

\* What a pass finds dead is condemned, and a key has been lost.
LEMMA FindsDeadStep ==
    ASSUME PromisesInv, NEW j \in Identity, PassFindsDead(j)
    PROVE  LedgerStep
<1> USE DEF PromisesInv, IInv
<1>1. Charged = None /\ Charged' = None /\ UNCHANGED secret
  BY NoChargeAfter DEF PassFindsDead, Charged, envVars
<1>2. CASE table' = table
  BY <1>1, <1>2, Stutters, SameEntries
<1>3. CASE table' = SetQuarantine(table, j, "dead") /\ table[j] # None
  <2>1. Ledger!Active(j)
    BY <1>3, ActiveOf, VerdictIsOnActive DEF PassFindsDead
  <2>2. secret # 0
    <3>1. pass.rows[j] \in Ciphertext
      BY DEF PassFindsDead, Pending, TypeOK, PassRecord
    <3>2. pass.rows[j].key <= secret /\ pass.rows[j].key # secret
      BY DEF PassFindsDead, Pending, KeysKnown, Decrypts
    <3>3. secret \in Nat /\ pass.rows[j].key \in Nat
      BY <3>1 DEF TypeOK, Ciphertext
    <3>4. QED
      BY <3>2, <3>3
  <2>3. Entries' = [Entries EXCEPT ![j].verdict = "dead"]
    BY <1>3, VerdictOfEntry DEF Reason
  <2>4. Ledger!Condemn(j)
    BY <1>1, <2>1, <2>2, <2>3 DEF Ledger!Condemn, Entries, Charged
  <2>5. QED
    BY <2>4 DEF LedgerStep, Ledger!LedgerNext
<1>4. QED
  BY <1>2, <1>3 DEF PassFindsDead, SetQuarantine

\* A rejection counted is a strike.
LEMMA BumpStep ==
    ASSUME PromisesInv, PassBumps
    PROVE  LedgerStep
<1> USE DEF PromisesInv, IInv
<1>1. Charged = None /\ Charged' = None /\ UNCHANGED secret
  <2>1. pass'.at = "streak"
    BY DEF PassBumps, TypeOK, PassRecord
  <2>2. QED
    BY <2>1 DEF PassBumps, Charged, envVars
<1>2. pass.cur \in Identity /\ (table[pass.cur] # None => table[pass.cur].reason = "none")
  BY CurIsIdentity, VerdictIsOnActive DEF PassBumps
<1>3. CASE table[pass.cur] = None
  <2>1. UNCHANGED table
    BY <1>3 DEF PassBumps, BumpFailStreak
  <2>2. QED
    BY <1>1, <2>1, Stutters, SameEntries
<1>4. CASE table[pass.cur] # None
  <2>1. Ledger!Active(pass.cur)
    BY <1>2, <1>4, ActiveOf
  <2>2. Entries' = [Entries EXCEPT ![pass.cur].strikes = @ + 1]
    BY <1>2, <1>4, StrikeOfEntry DEF PassBumps
  <2>3. Ledger!Strike(pass.cur)
    BY <1>1, <2>1, <2>2 DEF Ledger!Strike, Entries, Charged
  <2>4. QED
    BY <1>2, <2>3 DEF LedgerStep, Ledger!LedgerNext
<1>5. QED
  BY <1>3, <1>4

\* A streak read at the threshold is a charge.
LEMMA ChargeStep ==
    ASSUME PromisesInv, PassReadsStreak
    PROVE  LedgerStep
<1> USE DEF PromisesInv, IInv
<1>1. Charged = None /\ UNCHANGED <<secret, table>>
  BY DEF PassReadsStreak, Charged, envVars
<1>2. UNCHANGED Entries
  BY <1>1, SameEntries
<1>3. pass.cur \in Identity /\ (table[pass.cur] # None => table[pass.cur].reason = "none")
  BY CurIsIdentity, VerdictIsOnActive DEF PassReadsStreak
<1>4. CASE QuarantineDue(FailStreak(table, pass.cur))
  <2>1. Charged' = pass.cur
    <3>1. pass'.at = "quarantine" /\ pass'.cur = pass.cur
      BY <1>4 DEF PassReadsStreak, TypeOK, PassRecord
    <3>2. QED
      BY <3>1 DEF Charged
  <2>2. table[pass.cur] # None /\ table[pass.cur].streak >= Threshold
    BY <1>4 DEF QuarantineDue, FailStreak, Threshold
  <2>3. Ledger!Active(pass.cur) /\ Entries[pass.cur].strikes >= Threshold
    BY <1>3, <2>2, ActiveOf, EntryOf
  <2>4. Ledger!Charge(pass.cur)
    BY <1>1, <1>2, <2>1, <2>3 DEF Ledger!Charge, Entries, Charged
  <2>5. QED
    BY <1>3, <2>4 DEF LedgerStep, Ledger!LedgerNext
<1>5. CASE ~QuarantineDue(FailStreak(table, pass.cur))
  <2>1. Charged' = None
    BY <1>3, <1>5, NoChargeAfter DEF PassReadsStreak
  <2>2. QED
    BY <1>1, <1>2, <2>1, Stutters
<1>6. QED
  BY <1>4, <1>5

\* The quarantine is the verdict on the charge; the row may be gone.
LEMMA RejectStep ==
    ASSUME PromisesInv, PassQuarantines
    PROVE  LedgerStep
<1> USE DEF PromisesInv, IInv
<1>1. pass.cur \in Identity /\ (table[pass.cur] # None => table[pass.cur].reason = "none")
  BY CurIsIdentity, VerdictIsOnActive DEF PassQuarantines
<1>2. Charged = pass.cur /\ Charged # None /\ Charged' = None /\ UNCHANGED secret
  BY <1>1, NoChargeAfter, NoneAssumption DEF PassQuarantines, Charged, envVars
<1>3. Entries' = IF Ledger!Active(Charged) THEN [Entries EXCEPT ![Charged].verdict = "rejected"]
                                           ELSE Entries
  <2>1. CASE table[pass.cur] = None
    <3>1. UNCHANGED table /\ ~Ledger!Active(Charged)
      BY <1>1, <1>2, <2>1, ActiveOf DEF PassQuarantines, SetQuarantine
    <3>2. QED
      BY <3>1, SameEntries
  <2>2. CASE table[pass.cur] # None
    <3>1. Ledger!Active(Charged)
      BY <1>1, <1>2, <2>2, ActiveOf
    <3>2. Entries' = [Entries EXCEPT ![pass.cur].verdict = "rejected"]
      BY <1>1, <2>2, VerdictOfEntry DEF PassQuarantines, Reason
    <3>3. QED
      BY <1>2, <3>1, <3>2
  <2>3. QED
    BY <2>1, <2>2
<1>4. Ledger!Reject
  BY <1>2, <1>3 DEF Ledger!Reject, Entries, Charged
<1>5. QED
  BY <1>4 DEF LedgerStep, Ledger!LedgerNext

\* Every step of the pass's thread is a step of the ledger, or none.
LEMMA PassLedgerStep ==
    ASSUME PromisesInv, PassStep
    PROVE  LedgerStep
<1> USE DEF PromisesInv, IInv
<1>1. CASE PassPurges
  <2>1. Charged = None /\ Charged' = None /\ UNCHANGED secret
    <3>1. pass'.at = "read"
      BY <1>1 DEF PassPurges, TypeOK, PassRecord
    <3>2. QED
      BY <1>1, <3>1 DEF PassPurges, Charged, envVars
  <2>2. Ledger!DropEntries
    BY <1>1, <2>1, DropsEntries DEF PassPurges, DeleteExpired, Stored
  <2>3. QED
    BY <2>2 DEF LedgerStep, Ledger!LedgerNext
<1>2. ASSUME UNCHANGED <<table, secret>>, Charged = None, Charged' = None
      PROVE  LedgerStep
  BY <1>2, Stutters, SameEntries
<1>3. CASE PassReads \/ PassConnects \/ PassBreaks
  <2>1. UNCHANGED <<table, secret>> /\ Charged = None
    BY <1>3 DEF PassReads, PassConnects, PassBreaks, envVars, Charged
  <2>2. \/ \E how \in {"done", "failed"} : PassEnds(how)
        \/ pass'.at \in {"connect", "row"}
    BY <1>3 DEF PassReads, PassConnects, PassBreaks, TypeOK, PassRecord
  <2>3. Charged' = None
    BY <2>2, NoChargeAfter DEF Charged
  <2>4. QED
    BY <1>2, <2>1, <2>3
<1>4. ASSUME NEW j \in Identity, PassAccepted(j) \/ PassUnanswered(j) \/ PassRejected(j)
      PROVE  LedgerStep
  <2>1. UNCHANGED <<table, secret>> /\ Charged = None
    BY <1>4 DEF PassAccepted, PassUnanswered, PassRejected, Sends, envVars, Charged
  <2>2. Advance(j) \/ pass'.at = "bump"
    BY <1>4 DEF PassAccepted, PassUnanswered, PassRejected, TypeOK, PassRecord
  <2>3. Charged' = None
    BY <2>2, NoChargeAfter DEF Charged
  <2>4. QED
    BY <1>2, <2>1, <2>3
<1>5. QED
  BY <1>1, <1>3, <1>4, FindsDeadStep, BumpStep, ChargeStep, RejectStep DEF PassStep

-----------------------------------------------------------------------------
(* Everything else.                                                        *)

\* The loop moves no entry and, the pass being idle or over, no charge.
LEMMA LoopLedgerStep ==
    ASSUME PromisesInv, LoopStep
    PROVE  LedgerStep
<1>1. UNCHANGED <<table, secret>>
  BY DEF LoopStep, LoopWake, LoopPassesBy, LoopSpawnsPass, LoopCollectsPass, envVars
<1>2. UNCHANGED Charged
  <2>1. LoopWake \/ LoopPassesBy => UNCHANGED pass
    BY DEF LoopWake, LoopPassesBy
  <2>2. LoopSpawnsPass => pass.at = "idle" /\ pass'.at \in {"purge", "read"}
    <3>1. LoopSpawnsPass => pass.at = "idle"
      BY DEF LoopSpawnsPass, PromisesInv, IInv, OnePassAtATime
    <3>2. LoopSpawnsPass => pass'.at = IF IsPrimary(Targets[loop.i]) THEN "purge" ELSE "read"
      BY DEF LoopSpawnsPass, IdlePass
    <3>3. QED
      BY <3>1, <3>2
  <2>3. LoopCollectsPass => pass.at \in {"done", "failed"} /\ pass'.at = "idle"
    BY DEF LoopCollectsPass, IdlePass
  <2>4. QED
    BY <2>1, <2>2, <2>3 DEF LoopStep, Charged
<1>3. QED
  BY <1>1, <1>2, Stutters, SameEntries

\* A request puts or drops entries, statement by statement.
LEMMA HandlerLedgerStep ==
    ASSUME PromisesInv, HandlerRequest \/ HandlerStep
    PROVE  LedgerStep
<1> USE DEF PromisesInv, IInv
<1>1. UNCHANGED <<pass, secret>>
  BY DEF HandlerRequest, SyncRequest, PersistRequest, ClearRequest, Forget, Tick, HandlerStep,
         HandlerUpserts, HandlerDeletes, HandlerStored, HandlerDials, HandlerSends,
         HandlerLeaves, envVars
<1>2. UNCHANGED Charged /\ UNCHANGED (secret # 0)
  BY <1>1 DEF Charged
<1>3. ASSUME NEW j \in Identity, HandlerUpserts(j) PROVE LedgerStep
  BY <1>3, PutsEntry DEF LedgerStep, Ledger!LedgerNext
<1>4. CASE Forget \/ HandlerDeletes
  <2>1. \E ids : table' = Remove(table, ids)
    BY <1>4 DEF Forget, HandlerDeletes
  <2>2. PICK ids : table' = Remove(table, ids)
    BY <2>1
  <2>3. table' = Remove(table, ids \cap Identity)
    BY <2>2 DEF Remove
  <2>4. Ledger!DropEntries
    BY <1>2, <2>3, DropsEntries
  <2>5. QED
    BY <2>4 DEF LedgerStep, Ledger!LedgerNext
<1>5. CASE UNCHANGED table
  BY <1>2, <1>5, Stutters, SameEntries
<1>6. QED
  BY <1>3, <1>4, <1>5
  DEF HandlerRequest, SyncRequest, PersistRequest, ClearRequest, HandlerStep,
      HandlerStored, HandlerDials, HandlerSends, HandlerLeaves

\* A date that passes is not seen; a lost key and an interrupted judgement are.
LEMMA OutsideLedgerStep ==
    ASSUME PromisesInv, Outside
    PROVE  LedgerStep
<1> USE DEF PromisesInv, IInv
<1>1. CASE CookieAges
  <2>1. UNCHANGED Charged /\ UNCHANGED (secret # 0)
    BY <1>1 DEF CookieAges, Charged, envVars
  <2>2. \A id \in Identity : AsEntry(table'[id]) = AsEntry(table[id])
    <3>1. PICK j \in Stored(table), later \in Outdated :
            table' = [table EXCEPT ![j].ttl = later]
      BY <1>1 DEF CookieAges, Outdated
    <3>2. j \in Identity /\ table[j] \in Row /\ table[j] # None /\ table \in Table
      BY <3>1 DEF Stored, TypeOK, Table
    <3>3. [table[j] EXCEPT !.ttl = later] \in Row
      BY <3>2 DEF Row, Ttl, Outdated
    <3>4. \A id \in Identity :
            table'[id] = IF id = j THEN [table[j] EXCEPT !.ttl = later] ELSE table[id]
      BY <3>1, <3>2 DEF Table
    <3>5. QED
      BY <3>2, <3>3, <3>4, NoneIsNoRow DEF AsEntry, Row
  <2>3. QED
    BY <2>1, <2>2, Stutters, SameEntries
<1>2. CASE KeyRotates
  <2>1. secret' # 0 /\ UNCHANGED <<table, pass>>
    BY <1>2 DEF KeyRotates, TypeOK
  <2>2. UNCHANGED Entries /\ UNCHANGED Charged
    BY <2>1, SameEntries DEF Charged
  <2>3. Ledger!LoseKey
    BY <2>1, <2>2 DEF Ledger!LoseKey, Entries, Charged
  <2>4. QED
    BY <2>3 DEF LedgerStep, Ledger!LedgerNext
<1>3. CASE PassFails \/ Crash
  <2>1. UNCHANGED <<table, secret>>
    BY <1>3 DEF PassFails, Crash
  <2>2. Charged' = None
    <3>1. PassEnds("failed") => Charged' = None
      BY NoChargeAfter
    <3>2. pass' = IdlePass => Charged' = None
      BY DEF IdlePass, Charged
    <3>3. QED
      BY <1>3, <3>1, <3>2 DEF PassFails, Crash
  <2>3. UNCHANGED Entries
    BY <2>1, SameEntries
  <2>4. CASE Charged = None
    BY <2>1, <2>2, <2>3, <2>4, Stutters
  <2>5. CASE Charged # None
    <3>1. Ledger!Acquit
      BY <2>1, <2>2, <2>3, <2>5 DEF Ledger!Acquit, Entries, Charged
    <3>2. QED
      BY <3>1 DEF LedgerStep, Ledger!LedgerNext
  <2>6. QED
    BY <2>4, <2>5
<1>4. CASE UNCHANGED <<table, pass, secret>>
  <2>1. UNCHANGED Charged
    BY <1>4 DEF Charged
  <2>2. QED
    BY <1>4, <2>1, Stutters, SameEntries
<1>5. QED
  BY <1>1, <1>2, <1>3, <1>4 DEF Outside, BrowserStops, BrowserStarts, JarDrifts, HandlerFails

-----------------------------------------------------------------------------

\* The pipeline, with its passes, requests, crashes and lost keys, implements
\* the ledger: a verdict is on evidence and for good, and an entry comes from a
\* request alone.
THEOREM LedgerImplemented == Spec => ImplementsLedger
<1>1. Init => Ledger!LedgerInit
  <2>1. ASSUME Init PROVE Ledger!LedgerInit
    <3>1. table = EmptyTable /\ pass.at = "idle" /\ secret = 0
      BY <2>1 DEF Init, IdlePass
    <3>2. \A id \in Identity : AsEntry(table[id]) = None
      BY <3>1 DEF EmptyTable, AsEntry
    <3>3. QED
      BY <3>1, <3>2 DEF Ledger!LedgerInit
  <2>2. QED
    BY <2>1
<1>2. PromisesInv /\ [Next]_vars => [Ledger!LedgerNext]_(Ledger!lvars)
  <2>1. ASSUME PromisesInv, Next PROVE LedgerStep
    BY <2>1, LoopLedgerStep, PassLedgerStep, HandlerLedgerStep, OutsideLedgerStep DEF Next
  <2>2. ASSUME UNCHANGED vars PROVE LedgerStep
    <3>1. UNCHANGED <<table, pass, secret>>
      BY <2>2 DEF vars
    <3>2. UNCHANGED Charged
      BY <3>1 DEF Charged
    <3>3. QED
      BY <3>1, <3>2, Stutters, SameEntries
  <2>3. QED
    BY <2>1, <2>2 DEF LedgerStep
<1>3. QED
  BY <1>1, <1>2, PromisesCorrect, PTL DEF Spec, ImplementsLedger, Ledger!LedgerSpec

-----------------------------------------------------------------------------
(* One tick counts a row once, for every list of targets that names the    *)
(* primary once.                                                           *)

\* A row counted in this step.
Raised(id) == table[id] # None /\ table'[id] # None /\ table'[id].streak > table[id].streak

\* Only the primary's pass raises a streak, and only of a row it may still count
\* and is then judging.
LEMMA RaisedByPrimary ==
    ASSUME PromisesInv, [Next]_vars, NEW id \in Identity, Raised(id)
    PROVE  PassStep /\ pass.target = Primary /\ MayCount(id) /\ Judging(id)'
<1> USE DEF PromisesInv, IInv
<1>1. table \in Table /\ table[id].streak \in Nat
  BY DEF TypeOK, Table, Row, Raised
<1>2. ~ UNCHANGED table
  BY <1>1 DEF Raised
<1>3. ~ RowStays(id)
  BY <1>1 DEF RowStays, Raised
<1>4. PassStep
  BY <1>2, <1>3, LoopMove, HandlerMove, OutsideMove DEF Next, vars
<1>5. PassMoves(id)
  BY <1>4, PassMove DEF Bookkeeping
<1>6. MayCount(id) /\ Judging(id)'
  BY <1>1, <1>5 DEF PassMoves, Raised
<1>7. pass.target = Primary
  BY <1>1, <1>4, PassTouches DEF Raised
<1> QED
  BY <1>4, <1>6, <1>7

\* A pass stays with its target.
LEMMA PassKeepsTarget ==
    ASSUME TypeOK, PassStep \/ (\E how \in {"done", "failed"} : PassEnds(how))
    PROVE  pass'.target = pass.target
<1>1. \A how \in {"done", "failed"} : PassEnds(how) => pass'.target = pass.target
  BY DEF PassEnds, IdlePass
<1>2. \A id \in Identity : Advance(id) => pass'.target = pass.target
  BY <1>1 DEF Advance, TypeOK, PassRecord
<1>3. CASE PassPurges \/ PassReads \/ PassConnects \/ PassBumps \/ PassBreaks
  BY <1>1, <1>3 DEF PassPurges, PassReads, PassConnects, PassBumps, PassBreaks, TypeOK, PassRecord
<1>4. ASSUME NEW id \in Identity,
             PassFindsDead(id) \/ PassAccepted(id) \/ PassUnanswered(id) \/ PassRejected(id)
      PROVE  pass'.target = pass.target
  BY <1>2, <1>4
  DEF PassFindsDead, PassAccepted, PassUnanswered, PassRejected, TypeOK, PassRecord
<1>5. CASE PassReadsStreak \/ PassQuarantines
  <2>1. \A id : Advance(id) => pass'.target = pass.target
    BY <1>1 DEF Advance, TypeOK, PassRecord
  <2> QED
    BY <1>5, <2>1 DEF PassReadsStreak, PassQuarantines, TypeOK, PassRecord
<1> QED
  BY <1>1, <1>3, <1>4, <1>5 DEF PassStep

\* What the tick has counted: nothing once the loop sleeps, and nothing new but
\* what is raised.
LEMMA CountedInTick ==
    ASSUME RecordBumps
    PROVE  /\ loop'.at = "sleep" => bumped' = {}
           /\ \A id \in bumped' : id \in bumped \/ (id \in Identity /\ Raised(id))
           /\ (\A id \in Identity : ~Raised(id)) => bumped' = {} \/ bumped' = bumped
  BY DEF RecordBumps, Raised, Stored

\* The loop goes to sleep at the head of the list, and on beyond it.
LEMMA NextTargetTurns ==
    ASSUME TypeOK
    PROVE  \/ NextTarget.at = "sleep" /\ NextTarget.i = 1
           \/ NextTarget.at = "probe" /\ NextTarget.i # 1
<1>1. loop.i \in 1..Len(Targets) /\ Len(Targets) \in Nat
  BY TargetsAssumption DEF TypeOK
<1>2. loop.i + 1 # 1
  BY <1>1
<1> QED
  BY <1>2 DEF NextTarget

\* Every step keeps the tick's books.
LEMMA TickStep ==
    ASSUME PromisesInv, TickInv, [HNext]_hvars
    PROVE  TickInv'
<1> USE DEF PromisesInv, IInv
<1>t. pass \in PassRecord /\ loop \in [at: LoopStage, i: 1..Len(Targets)] /\ Len(Targets) \in Nat
  BY TargetsAssumption DEF TypeOK
<1>1. CASE UNCHANGED hvars
  BY <1>1 DEF hvars, vars, TickInv, MayCount, Judging, Pending
<1> SUFFICES ASSUME Next, RecordBumps PROVE TickInv'
  BY <1>1 DEF HNext
<1> USE CountedInTick
<1>3. CASE LoopStep
  <2>1. \A id \in Identity : ~Raised(id)
    BY <1>3, LoopMove DEF Raised, TypeOK, Table, Row
  <2>2. bumped' = {} \/ bumped' = bumped
    BY <2>1
  <2>3. CASE LoopWake
    <3>1. loop'.at = "probe" /\ loop'.i = 1 /\ bumped = {} /\ pass'.at = "idle"
      BY <2>3, <1>t DEF LoopWake, TickInv, OnePassAtATime
    <3> QED
      BY <3>1, <2>2 DEF TickInv
  <2>4. CASE LoopPassesBy \/ LoopCollectsPass
    <3>1. loop' = NextTarget /\ pass'.at = "idle"
      BY <2>4 DEF LoopPassesBy, LoopCollectsPass, OnePassAtATime, IdlePass
    <3> QED
      BY <3>1, NextTargetTurns DEF TickInv
  <2>5. CASE LoopSpawnsPass
    <3>1. loop'.at = "await" /\ loop'.i = loop.i /\ pass'.target = Targets[loop.i]
      BY <2>5, <1>t DEF LoopSpawnsPass, IdlePass
    <3>2. loop.i = 1 => bumped' = {}
      BY <2>2, <2>5 DEF LoopSpawnsPass, TickInv
    <3> QED
      BY <3>1, <3>2 DEF TickInv
  <2> QED
    BY <1>3, <2>3, <2>4, <2>5 DEF LoopStep
<1>4. CASE PassStep
  <2>1. UNCHANGED loop /\ loop.at = "await" /\ pass.target = Targets[loop.i]
        /\ pass'.target = pass.target
    <3>1. UNCHANGED loop
      BY <1>4 DEF PassStep, PassPurges, PassReads, PassConnects, PassFindsDead, PassAccepted,
                  PassUnanswered, PassRejected, PassBumps, PassReadsStreak, PassQuarantines,
                  PassBreaks, loopVars
    <3> QED
      BY <1>4, <3>1, PassMove, PassKeepsTarget DEF Bookkeeping, OnePassAtATime, TickInv
  <2>2. ASSUME loop.i = 1, pass'.at \in {"purge", "read"} PROVE bumped' = {}
    <3>1. bumped = {}
      BY <1>4, <2>1, <2>2, PassMove DEF Bookkeeping, TickInv
    <3>2. \A id \in Identity : ~Raised(id)
      BY <2>2, RaisedByPrimary DEF Judging
    <3> QED
      BY <3>1, <3>2
  <2>3. ASSUME loop.i = 1, NEW id \in bumped', MayCount(id)' PROVE FALSE
    <3>1. id \in Identity
      BY <2>3 DEF MayCount, Pending
    <3>2. CASE id \in bumped
      <4>1. pass.at # "read" /\ ~MayCount(id)
        BY <2>3, <3>2 DEF TickInv
      <4> QED
        BY <1>4, <2>3, <3>1, <4>1, PassMove DEF Bookkeeping, PassMoves
    <3>3. CASE Raised(id)
      BY <2>3, <3>1, <3>3, RaisedByPrimary DEF MayCount
    <3> QED
      BY <2>3, <3>2, <3>3
  <2> QED
    BY <2>1, <2>2, <2>3 DEF TickInv
<1>5. CASE HandlerRequest \/ HandlerStep
  <2>1. UNCHANGED loop
    BY <1>5 DEF HandlerRequest, SyncRequest, PersistRequest, ClearRequest, Forget, HandlerStep,
                HandlerUpserts, HandlerDeletes, HandlerStored, HandlerDials, HandlerSends,
                HandlerLeaves, loopVars
  <2>2. UNCHANGED pass
    BY <1>5, HandlerMove
  <2>3. bumped' = {} \/ bumped' = bumped
    <3>1. \A id \in Identity : ~Raised(id)
      BY <1>5, HandlerMove DEF Raised, RowStays, TypeOK, Table, Row
    <3> QED
      BY <3>1
  <2> QED
    BY <2>1, <2>2, <2>3 DEF TickInv, MayCount, Judging, Pending
<1>6. CASE Outside
  <2>1. CASE Crash
    BY <2>1 DEF Crash, TickInv, IdlePass
  <2>2. CASE ~Crash
    <3>1. UNCHANGED loop
      BY <1>6, <2>2 DEF Outside, BrowserStops, BrowserStarts, JarDrifts, CookieAges, KeyRotates,
                  PassFails, HandlerFails, loopVars
    <3>2. bumped' = {} \/ bumped' = bumped
      <4>1. \A id \in Identity : ~Raised(id)
        BY <1>6, OutsideMove DEF Raised, RowStays, TypeOK, Table, Row
      <4> QED
        BY <4>1
    <3>3. CASE UNCHANGED pass
      BY <3>1, <3>2, <3>3 DEF TickInv, MayCount, Judging, Pending
    <3>4. CASE PassFails
      <4>1. pass'.target = pass.target
        BY <3>4, PassKeepsTarget DEF PassFails
      <4>2. pass'.at = "failed" /\ pass'.rows = NoRows /\ pass.at # "idle"
        BY <3>4 DEF PassFails, PassEnds, IdlePass
      <4> QED
        BY <3>1, <4>1, <4>2, <3>2 DEF TickInv, MayCount, Pending, NoRows, OnePassAtATime
    <3> QED
      BY <1>6, <2>2, <3>3, <3>4 DEF Outside, BrowserStops, BrowserStarts, JarDrifts,
                  CookieAges, KeyRotates, HandlerFails, loopVars
  <2> QED
    BY <2>1, <2>2
<1> QED
  BY <1>3, <1>4, <1>5, <1>6 DEF Next

\* No step of a tick counts a row twice.
LEMMA CountsOnce ==
    ASSUME PrimaryListedOnce, PromisesInv, TickInv, [Next]_vars,
           NEW id \in bumped \cap Stored(table), table'[id] # None
    PROVE  table'[id].streak <= table[id].streak
<1> USE DEF PromisesInv, IInv
<1>1. id \in Identity /\ table[id] # None
  BY DEF Stored
<1>2. ASSUME Raised(id) PROVE FALSE
  <2>1. PassStep /\ pass.target = Primary /\ MayCount(id)
    BY <1>1, <1>2, RaisedByPrimary
  <2>2. pass.target = Targets[loop.i]
    BY <2>1, PassMove DEF Bookkeeping, TickInv
  <2>3. loop.i = 1
    BY <2>1, <2>2, TargetsAssumption DEF PrimaryListedOnce, TypeOK
  <2> QED
    BY <2>1, <2>3 DEF TickInv
<1>3. table[id].streak \in Nat /\ table'[id].streak \in Nat
  <2>1. TypeOK'
    BY NextInv
  <2> QED
    BY <1>1, <2>1 DEF TypeOK, Table, Row
<1> QED
  BY <1>1, <1>2, <1>3 DEF Raised

\* The tick starts with nothing counted.
LEMMA TickInit == ASSUME HInit PROVE TickInv
  BY DEF HInit, Init, IdlePass, TickInv

\* However the passes interleave with requests, faults and crashes, one tick
\* counts at most one rejection of a row - provided the primary is listed once.
THEOREM OneBumpCorrect == ASSUME PrimaryListedOnce PROVE HSpec => OneBumpPerTick
<1>1. HSpec => Spec
  <2>1. HInit => Init
    BY DEF HInit
  <2>2. [HNext]_hvars => [Next]_vars
    BY DEF HNext, hvars
  <2> QED
    BY <2>1, <2>2, PTL DEF HSpec, Spec
<1>2. HSpec => []TickInv
  <2>1. HInit => TickInv
    BY TickInit
  <2>2. PromisesInv /\ TickInv /\ [HNext]_hvars => TickInv'
    BY TickStep
  <2> QED
    BY <1>1, <2>1, <2>2, PromisesCorrect, PTL DEF HSpec
<1>3. PromisesInv /\ TickInv /\ [HNext]_hvars =>
        [\A id \in bumped \cap Stored(table) :
            table'[id] # None => table'[id].streak <= table[id].streak]_hvars
  BY CountsOnce DEF HNext
<1> QED
  BY <1>1, <1>2, <1>3, PromisesCorrect, PTL DEF HSpec, OneBumpPerTick
=============================================================================
