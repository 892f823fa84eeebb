----------------------- MODULE CookieReconcileProofs -----------------------
(***************************************************************************)
(* Theorems about CookieReconcile, for every set of cookies and targets    *)
(* and all bounds.                                                         *)
(***************************************************************************)
EXTENDS CookieReconcile, TLAPS

-----------------------------------------------------------------------------
(* The statements keep a table a table.                                    *)

\* Every statement of cookie_store.py about one row maps a table to a table.
LEMMA RowStatementsType ==
    ASSUME NEW tbl \in Table, NEW id \in Identity
    PROVE  /\ \A enc \in Ciphertext, ttl \in Ttl : Upsert(tbl, id, enc, ttl) \in Table
           /\ \A reason \in Reason : SetQuarantine(tbl, id, reason) \in Table
           /\ BumpFailStreak(tbl, id) \in Table
<1> USE NoneAssumption
<1>1. \A enc \in Ciphertext, ttl \in Ttl : Upsert(tbl, id, enc, ttl) \in Table
  BY DEF Upsert, Table, Row, Reason
<1>2. \A reason \in Reason : SetQuarantine(tbl, id, reason) \in Table
  BY DEF SetQuarantine, Table, Row
<1>3. BumpFailStreak(tbl, id) \in Table
  BY DEF BumpFailStreak, Table, Row
<1>4. QED
  BY <1>1, <1>2, <1>3

\* So does every DELETE.
LEMMA DeletesType ==
    ASSUME NEW tbl \in Table
    PROVE  /\ \A ids : Remove(tbl, ids) \in Table
           /\ DeleteExpired(tbl) \in Table
<1>1. \A ids : Remove(tbl, ids) \in Table
  BY DEF Remove, Table
<1>2. QED
  BY <1>1 DEF DeleteExpired

-----------------------------------------------------------------------------
(* Type correctness.                                                       *)

\* The configured targets are targets.
LEMMA TargetsType == Primary \in Target /\ \A i \in 1..Len(Targets) : Targets[i] \in Target
  BY TargetsAssumption DEF Primary

\* The loop's next position is a position.
LEMMA NextTargetType ==
    ASSUME TypeOK
    PROVE  NextTarget \in [at: LoopStage, i: 1..Len(Targets)]
  BY TargetsAssumption DEF TypeOK, NextTarget, LoopStage

\* A pass that is over is a pass.
LEMMA PassEndsType ==
    ASSUME TypeOK, NEW how \in PassStage, PassEnds(how)
    PROVE  pass' \in PassRecord /\ wired' \subseteq {"pass", "handler"}
  BY DEF TypeOK, PassEnds, IdlePass, NoRows, PassRecord

\* A pass with one row behind it is a pass.
LEMMA AdvanceType ==
    ASSUME TypeOK, NEW id \in Identity, Advance(id)
    PROVE  pass' \in PassRecord /\ wired' \subseteq {"pass", "handler"}
<1>1. CASE PassEnds("done")
  BY <1>1, PassEndsType DEF PassStage
<1>2. CASE /\ pass' = [pass EXCEPT !.at = "row", !.rows[id] = None, !.cur = None]
           /\ UNCHANGED wired
  BY <1>2 DEF TypeOK, PassStage, PassRecord
<1>3. QED
  BY <1>1, <1>2 DEF Advance

\* A jar in which one cookie is set is a jar.
LEMMA PutType ==
    ASSUME TypeOK, NEW t \in Target, NEW id \in Identity, NEW v \in Nat
    PROVE  Put(t, id, v) \in [Target -> [Identity -> Nat]]
  BY DEF TypeOK, Put

\* What a pass sends is a version.
LEMMA SendsType ==
    ASSUME TypeOK, NEW id \in Identity, Sends(id)
    PROVE  Put(pass.target, id, pass.rows[id].val) \in [Target -> [Identity -> Nat]]
<1>1. pass.rows[id] \in Ciphertext
  BY DEF TypeOK, PassRecord, Sends, Pending
<1>2. pass.rows[id].val \in Nat /\ pass.target \in Target
  BY <1>1 DEF Ciphertext, TypeOK, PassRecord
<1>3. QED
  BY <1>2, PutType

\* The initial states have their types.
LEMMA InitType == ASSUME Init PROVE TypeOK
<1>1. table \in Table
  BY DEF Init, EmptyTable, Table
<1>2. /\ loop \in [at: LoopStage, i: 1..Len(Targets)]
      /\ jar \in [Target -> [Identity -> Nat]] /\ reachable \in [Target -> BOOLEAN]
  BY TargetsAssumption DEF Init, LoopStage, EmptyJar
<1>3. pass \in PassRecord
  BY TargetsType DEF Init, IdlePass, PassStage, NoRows, Primary, PassRecord
<1>4. handler \in HandlerRecord
  BY TargetsAssumption
  DEF Init, IdleHandler, HandlerOp, HandlerStage, Incoming, NoIncoming, HandlerRecord
<1>5. QED
  BY <1>1, <1>2, <1>3, <1>4 DEF TypeOK, Init

\* The steps of the loop keep the types.
LEMMA LoopType == ASSUME TypeOK, LoopStep PROVE TypeOK'
<1> USE TargetsType, NextTargetType DEF TypeOK
<1>1. CASE LoopWake
  BY <1>1 DEF LoopWake, envVars, LoopStage
<1>2. CASE LoopPassesBy
  BY <1>2 DEF LoopPassesBy, envVars
<1>3. CASE LoopSpawnsPass
  BY <1>3 DEF LoopSpawnsPass, envVars, LoopStage, IdlePass, NoRows, PassStage, PassRecord
<1>4. CASE LoopCollectsPass
  BY <1>4 DEF LoopCollectsPass, envVars, IdlePass, NoRows, PassStage, PassRecord, Primary
<1>5. QED
  BY <1>1, <1>2, <1>3, <1>4 DEF LoopStep

\* The steps of a pass keep the types.
LEMMA PassType == ASSUME TypeOK, BooksAreAboutPending, PassStep PROVE TypeOK'
<1>1. CASE PassPurges
  <2>1. table' \in Table
    BY <1>1, DeletesType DEF PassPurges, TypeOK
  <2>2. pass' \in PassRecord
    BY <1>1 DEF PassPurges, PassStage, TypeOK, PassRecord
  <2>3. QED
    BY <1>1, <2>1, <2>2 DEF PassPurges, TypeOK, envVars, loopVars
<1>2. CASE PassReads
  <2>1. Snapshot \in [Identity -> Ciphertext \cup {None}]
    BY DEF TypeOK, Snapshot, AsPushed, ActiveIds, Stored, Table, Row, Ciphertext
  <2>2. pass' \in PassRecord /\ wired' \subseteq {"pass", "handler"}
    <3>1. CASE PassEnds("done")
      BY <3>1, PassEndsType DEF PassStage
    <3>2. CASE /\ pass' = [pass EXCEPT !.at = "connect", !.rows = Snapshot]
               /\ UNCHANGED wired
      BY <2>1, <3>2 DEF PassStage, TypeOK, PassRecord
    <3>3. QED
      BY <1>2, <3>1, <3>2 DEF PassReads
  <2>3. QED
    BY <1>2, <2>2 DEF PassReads, TypeOK, envVars, loopVars
<1>3. CASE PassConnects
  <2>1. pass' \in PassRecord /\ wired' \subseteq {"pass", "handler"}
    <3>1. CASE PassEnds("done")
      BY <3>1, PassEndsType DEF PassStage
    <3>2. CASE /\ pass' = [pass EXCEPT !.at = "row"]
               /\ wired' = wired \cup {"pass"}
      BY <3>2 DEF PassStage, TypeOK, PassRecord
    <3>3. QED
      BY <1>3, <3>1, <3>2 DEF PassConnects
  <2>2. QED
    BY <1>3, <2>1 DEF PassConnects, TypeOK, envVars, loopVars
<1>4. ASSUME NEW id \in Identity, PassFindsDead(id) PROVE TypeOK'
  <2>1. table' \in Table
    BY <1>4, RowStatementsType DEF PassFindsDead, TypeOK, Reason
  <2>2. pass' \in PassRecord /\ wired' \subseteq {"pass", "handler"}
    BY <1>4, AdvanceType DEF PassFindsDead
  <2>3. QED
    BY <1>4, <2>1, <2>2 DEF PassFindsDead, TypeOK, envVars, loopVars
<1>5. ASSUME NEW id \in Identity, PassAccepted(id) PROVE TypeOK'
  <2>1. jar' \in [Target -> [Identity -> Nat]]
    BY <1>5, SendsType DEF PassAccepted
  <2>2. pass' \in PassRecord /\ wired' \subseteq {"pass", "handler"}
    BY <1>5, AdvanceType DEF PassAccepted
  <2>3. QED
    BY <1>5, <2>1, <2>2 DEF PassAccepted, TypeOK, envVars, loopVars
<1>6. ASSUME NEW id \in Identity, PassUnanswered(id) PROVE TypeOK'
  <2>1. jar' \in [Target -> [Identity -> Nat]]
    BY <1>6, SendsType DEF PassUnanswered, TypeOK
  <2>2. pass' \in PassRecord /\ wired' \subseteq {"pass", "handler"}
    BY <1>6, AdvanceType DEF PassUnanswered
  <2>3. QED
    BY <1>6, <2>1, <2>2 DEF PassUnanswered, TypeOK, envVars, loopVars
<1>7. ASSUME NEW id \in Identity, PassRejected(id) PROVE TypeOK'
  <2>1. pass' \in PassRecord /\ wired' \subseteq {"pass", "handler"}
    <3>1. CASE Advance(id)
      BY <3>1, AdvanceType
    <3>2. CASE /\ pass' = [pass EXCEPT !.at = "bump", !.cur = id]
               /\ UNCHANGED wired
      BY <3>2 DEF PassStage, TypeOK, PassRecord
    <3>3. QED
      BY <1>7, <3>1, <3>2 DEF PassRejected
  <2>2. jar' \in [Target -> [Identity -> Nat]]
    BY <1>7, SendsType DEF PassRejected, TypeOK
  <2>3. QED
    BY <1>7, <2>1, <2>2 DEF PassRejected, TypeOK, envVars, loopVars
<1>8. CASE PassBumps
  <2>1. pass.cur \in Identity
    BY <1>8 DEF PassBumps, BooksAreAboutPending, Pending
  <2>2. table' \in Table
    BY <1>8, <2>1, RowStatementsType DEF PassBumps, TypeOK
  <2>3. pass' \in PassRecord
    BY <1>8 DEF PassBumps, PassStage, TypeOK, PassRecord
  <2>4. QED
    BY <1>8, <2>2, <2>3 DEF PassBumps, TypeOK, envVars, loopVars
<1>9. CASE PassReadsStreak
  <2>1. pass.cur \in Identity
    BY <1>9 DEF PassReadsStreak, BooksAreAboutPending, Pending
  <2>2. pass' \in PassRecord /\ wired' \subseteq {"pass", "handler"}
    <3>1. CASE Advance(pass.cur)
      BY <2>1, <3>1, AdvanceType
    <3>2. CASE /\ pass' = [pass EXCEPT !.at = "quarantine"]
               /\ UNCHANGED wired
      BY <3>2 DEF PassStage, TypeOK, PassRecord
    <3>3. QED
      BY <1>9, <3>1, <3>2 DEF PassReadsStreak
  <2>3. QED
    BY <1>9, <2>2 DEF PassReadsStreak, TypeOK, envVars, loopVars
<1>10. CASE PassQuarantines
  <2>1. pass.cur \in Identity
    BY <1>10 DEF PassQuarantines, BooksAreAboutPending, Pending
  <2>2. table' \in Table
    BY <1>10, <2>1, RowStatementsType DEF PassQuarantines, TypeOK, Reason
  <2>3. pass' \in PassRecord /\ wired' \subseteq {"pass", "handler"}
    BY <1>10, <2>1, AdvanceType DEF PassQuarantines
  <2>4. QED
    BY <1>10, <2>2, <2>3 DEF PassQuarantines, TypeOK, envVars, loopVars
<1>11. CASE PassBreaks
  <2>1. pass' \in PassRecord /\ wired' \subseteq {"pass", "handler"}
    BY <1>11, PassEndsType DEF PassBreaks, PassStage
  <2>2. QED
    BY <1>11, <2>1 DEF PassBreaks, TypeOK, envVars, loopVars
<1>12. QED
  BY <1>1, <1>2, <1>3, <1>4, <1>5, <1>6, <1>7, <1>8, <1>9, <1>10, <1>11 DEF PassStep

\* The handler that answers leaves the idle one behind.
LEMMA IdleHandlerType == IdleHandler \in HandlerRecord
  BY TargetsAssumption
  DEF IdleHandler, HandlerOp, HandlerStage, Incoming, NoIncoming, HandlerRecord

\* A request is taken in with its types.
LEMMA RequestType == ASSUME TypeOK, HandlerRequest PROVE TypeOK'
<1> DEFINE Values == [Identity -> Incoming]
<1>1. CASE SyncRequest
  <2>1. PICK body \in SyncBodies, ttl \in [Identity -> {"session", "dated"}] :
          handler' = [op |-> "sync", at |-> "store", todo |-> Units(body),
                      purge |-> {}, live |-> Units(body), hop |-> 1,
                      incoming |-> [id \in Identity |->
                         [val |-> IF id \in body THEN clock + 1 ELSE 0, ttl |-> ttl[id]]]]
    BY <1>1 DEF SyncRequest
  <2>2. Units(body) \in SUBSET SUBSET Identity
    BY InputAssumption DEF Units
  <2>3. handler'.incoming \in Values
    BY <2>1 DEF TypeOK, Incoming
  <2>4. handler' \in HandlerRecord
    BY <2>1, <2>2, <2>3, TargetsAssumption DEF HandlerRecord, HandlerOp, HandlerStage
  <2>5. QED
    BY <1>1, <2>4 DEF SyncRequest, TypeOK, Tick, loopVars
<1>2. CASE PersistRequest
  <2>1. PICK query \in Queries, ttl \in {"minusOne", "dated"} :
          LET matches == {id \in Selected(query) : jar[Primary][id] # 0} IN
          handler' = [op |-> "persist", at |-> "store", todo |-> Units(matches),
                      purge |-> {}, live |-> {}, hop |-> 1,
                      incoming |-> [id \in Identity |->
                         IF id \in matches THEN [val |-> jar[Primary][id], ttl |-> ttl]
                                           ELSE [val |-> 0, ttl |-> "session"]]]
    BY <1>2 DEF PersistRequest
  <2> DEFINE matches == {id \in Selected(query) : jar[Primary][id] # 0}
  <2>2. Units(matches) \in SUBSET SUBSET Identity
    BY DEF Units, Selected
  <2>3. handler'.incoming \in Values
    BY <2>1, TargetsType DEF TypeOK, Incoming
  <2>4. handler' \in HandlerRecord
    BY <2>1, <2>2, <2>3, TargetsAssumption DEF HandlerRecord, HandlerOp, HandlerStage
  <2>5. QED
    BY <1>2, <2>4 DEF PersistRequest, TypeOK, Tick, loopVars
<1>3. CASE ClearRequest
  <2>1. PICK of \in {<<{Identity}, {Identity}>>} \cup
                    {<<{Selected(c) : c \in body}, {LiveSelected(c) : c \in body}>> :
                         body \in ClearBodies} :
          handler' = [IdleHandler EXCEPT !.op = "clear", !.todo = of[1],
                                         !.purge = of[1], !.live = of[2]]
    BY <1>3 DEF ClearRequest
  <2>2. of[1] \in SUBSET SUBSET Identity /\ of[2] \in SUBSET SUBSET Identity
    BY DEF Selected, LiveSelected
  <2>3. handler' \in HandlerRecord
    BY <2>1, <2>2, IdleHandlerType DEF HandlerRecord, HandlerOp
  <2>4. QED
    BY <1>3, <2>3 DEF ClearRequest, TypeOK, Tick, loopVars
<1>4. CASE Forget
  <2>1. table' \in Table
    <3>1. PICK query \in Queries : table' = Remove(table, Selected(query))
      BY <1>4 DEF Forget
    <3>2. QED
      BY <3>1, DeletesType DEF TypeOK
  <2>2. QED
    BY <1>4, <2>1 DEF Forget, TypeOK, Tick, loopVars
<1>5. QED
  BY <1>1, <1>2, <1>3, <1>4 DEF HandlerRequest

\* The handler's turn to the next target has its types.
LEMMA NextHopType == ASSUME TypeOK, NextHop PROVE handler' \in HandlerRecord
<1>1. CASE handler.hop = Len(Targets)
  BY <1>1, IdleHandlerType DEF NextHop
<1>2. CASE handler.hop # Len(Targets)
  <2>1. handler.hop + 1 \in 1..Len(Targets)
    BY <1>2, TargetsAssumption DEF TypeOK, HandlerRecord
  <2>2. QED
    BY <1>2, <2>1 DEF NextHop, TypeOK, HandlerRecord, HandlerStage
<1>3. QED
  BY <1>1, <1>2

\* The steps of a handler keep the types.
LEMMA HandlerType == ASSUME TypeOK, HandlerStep PROVE TypeOK'
<1>1. ASSUME NEW id \in Identity, HandlerUpserts(id) PROVE TypeOK'
  <2>1. /\ Encrypt(handler.incoming[id].val) \in Ciphertext
        /\ handler.incoming[id].ttl \in Ttl
    BY DEF TypeOK, HandlerRecord, Incoming, Encrypt, Ciphertext, Ttl
  <2>2. table' \in Table
    BY <1>1, <2>1, RowStatementsType DEF HandlerUpserts, TypeOK
  <2>3. handler' \in HandlerRecord
    BY <1>1 DEF HandlerUpserts, TypeOK, HandlerRecord
  <2>4. QED
    BY <1>1, <2>2, <2>3 DEF HandlerUpserts, TypeOK, envVars, loopVars
<1>2. CASE HandlerDeletes
  <2>1. PICK unit \in handler.todo :
          /\ table' = Remove(table, unit)
          /\ handler' = [handler EXCEPT !.todo = @ \ {unit}]
    BY <1>2 DEF HandlerDeletes
  <2>2. table' \in Table
    BY <2>1, DeletesType DEF TypeOK
  <2>3. handler' \in HandlerRecord
    BY <2>1 DEF TypeOK, HandlerRecord
  <2>4. QED
    BY <1>2, <2>2, <2>3 DEF HandlerDeletes, TypeOK, envVars, loopVars
<1>3. CASE HandlerStored
  <2>1. handler' \in HandlerRecord
    BY <1>3, IdleHandlerType DEF HandlerStored, TypeOK, HandlerRecord, HandlerStage
  <2>2. QED
    BY <1>3, <2>1 DEF HandlerStored, TypeOK, envVars, loopVars
<1>4. CASE HandlerDials
  <2>1. CASE NextHop /\ UNCHANGED wired
    BY <1>4, <2>1, NextHopType DEF HandlerDials, TypeOK, envVars, loopVars
  <2>2. CASE /\ handler' = [handler EXCEPT !.at = "send", !.todo = handler.live]
             /\ wired' = wired \cup {"handler"}
    <3>1. handler' \in HandlerRecord
      BY <2>2 DEF TypeOK, HandlerRecord, HandlerStage
    <3>2. QED
      BY <1>4, <2>2, <3>1 DEF HandlerDials, TypeOK, envVars, loopVars
  <2>3. QED
    BY <1>4, <2>1, <2>2 DEF HandlerDials
<1>5. CASE HandlerSends
  <2>1. PICK unit \in handler.todo :
          /\ \/ UNCHANGED jar
             \/ jar' = [jar EXCEPT ![Targets[handler.hop]] =
                   [id \in Identity |-> IF id \in unit THEN handler.incoming[id].val
                                                       ELSE @[id]]]
          /\ handler' = [handler EXCEPT !.todo = @ \ {unit}]
    BY <1>5 DEF HandlerSends
  <2>2. \A id \in Identity : handler.incoming[id].val \in Nat
    BY DEF TypeOK, HandlerRecord, Incoming
  <2>3. Targets[handler.hop] \in Target
    BY TargetsType DEF TypeOK, HandlerRecord
  <2> DEFINE sent == [id \in Identity |-> IF id \in unit THEN handler.incoming[id].val
                                          ELSE jar[Targets[handler.hop]][id]]
  <2>4. jar' \in [Target -> [Identity -> Nat]]
    <3>1. sent \in [Identity -> Nat]
      BY <2>2, <2>3 DEF TypeOK
    <3>2. UNCHANGED jar \/ jar' = [jar EXCEPT ![Targets[handler.hop]] = sent]
      BY <2>1, <2>3 DEF TypeOK
    <3> HIDE DEF sent
    <3>3. QED
      BY <3>1, <3>2, <2>3 DEF TypeOK
  <2>5. handler' \in HandlerRecord
    BY <2>1 DEF TypeOK, HandlerRecord
  <2>6. QED
    BY <1>5, <2>4, <2>5 DEF HandlerSends, TypeOK, envVars, loopVars
<1>6. CASE HandlerLeaves
  BY <1>6, NextHopType DEF HandlerLeaves, TypeOK, envVars, loopVars
<1>7. QED
  BY <1>1, <1>2, <1>3, <1>4, <1>5, <1>6 DEF HandlerStep

\* What happens outside the program keeps the types.
LEMMA OutsideType == ASSUME TypeOK, Outside PROVE TypeOK'
<1>1. ASSUME NEW t \in Target, BrowserStops(t) PROVE TypeOK'
  <2>1. wired' \subseteq {"pass", "handler"} /\ up' \in [Target -> BOOLEAN]
    BY <1>1 DEF BrowserStops, TypeOK
  <2>2. QED
    BY <1>1, <2>1 DEF BrowserStops, Disturbs, TypeOK, loopVars
<1>2. ASSUME NEW t \in Target, BrowserStarts(t) PROVE TypeOK'
  BY <1>2 DEF BrowserStarts, TypeOK, loopVars, EmptyJar
<1>3. ASSUME NEW t \in Target, JarDrifts(t) PROVE TypeOK'
  <2>1. PICK id \in Identity :
          \/ jar' = Put(t, id, 0) /\ UNCHANGED clock
          \/ clock' = clock + 1 /\ jar' = Put(t, id, clock + 1)
    BY <1>3 DEF JarDrifts
  <2>2. jar' \in [Target -> [Identity -> Nat]] /\ clock' \in Nat
    BY <2>1, PutType DEF TypeOK
  <2>3. QED
    BY <1>3, <2>2 DEF JarDrifts, Disturbs, TypeOK, loopVars
<1>4. CASE CookieAges
  <2>1. PICK id \in Stored(table), later \in Outdated :
          table' = [table EXCEPT ![id].ttl = later]
    BY <1>4 DEF CookieAges, Outdated
  <2>2. table[id] \in Row
    BY DEF TypeOK, Table, Stored
  <2>3. [table[id] EXCEPT !.ttl = later] \in Row
    BY <2>2 DEF Row, Ttl, Outdated
  <2>4. table' \in Table
    BY <2>1, <2>3 DEF TypeOK, Table, Stored
  <2>5. QED
    BY <1>4, <2>4 DEF CookieAges, TypeOK, envVars, loopVars
<1>5. CASE KeyRotates
  BY <1>5 DEF KeyRotates, Fault, TypeOK, loopVars
<1>6. CASE PassFails
  <2>1. pass' \in PassRecord /\ wired' \subseteq {"pass", "handler"}
    BY <1>6, PassEndsType DEF PassFails, PassStage
  <2>2. QED
    BY <1>6, <2>1 DEF PassFails, Fault, TypeOK, loopVars
<1>7. CASE HandlerFails
  BY <1>7, IdleHandlerType DEF HandlerFails, Fault, TypeOK, loopVars
<1>8. CASE Crash
  <2>1. pass' \in PassRecord
    BY <1>8, TargetsType DEF Crash, IdlePass, PassStage, NoRows, Primary, PassRecord
  <2>2. QED
    BY <1>8, <2>1, IdleHandlerType, TargetsAssumption DEF Crash, Fault, TypeOK, LoopStage
<1>9. QED
  BY <1>1, <1>2, <1>3, <1>4, <1>5, <1>6, <1>7, <1>8 DEF Outside

-----------------------------------------------------------------------------
(* The inductive invariant.  StreakBounded alone is not inductive: a step   *)
(* that counts a rejection must know that the row was still below the       *)
(* threshold, or had been left at it by an interruption - and that no pass  *)
(* counts a row that is quarantined already.                                *)

\* No row and no pass: nothing to keep consistent.
LEMMA InitInv == ASSUME Init PROVE IInv
<1>1. TypeOK
  BY InitType
<1>2. Stored(table) = {}
  BY DEF Init, EmptyTable, Stored
<1>3. pass.at = "idle" /\ Pending = {}
  BY DEF Init, IdlePass, NoRows, Pending
<1>4. QED
  BY <1>1, <1>2, <1>3
  DEF IInv, Bookkeeping, OnePassAtATime, BooksAreAboutPending, NoQuarantinedPending,
      StreakBounded, ActiveBelowThreshold, ActiveIds

\* A step that neither touches the table nor the pass.
LEMMA ElsewhereInv ==
    ASSUME IInv, UNCHANGED <<table, pass>>, faults' \in Nat, faults' >= faults
    PROVE  Bookkeeping'
<1> USE DEF IInv, TypeOK, Table, Row, Threshold, Stored, ActiveIds, Pending
<1>1. BooksAreAboutPending' /\ NoQuarantinedPending'
  BY DEF Bookkeeping, BooksAreAboutPending, NoQuarantinedPending
<1>2. StreakBounded' /\ ActiveBelowThreshold'
  BY DEF Bookkeeping, StreakBounded, ActiveBelowThreshold
<1>3. QED
  BY <1>1, <1>2 DEF Bookkeeping

\* A step after which the pass has no rows left; where it was about to act on a
\* streak, the step counts as an interruption.
LEMMA PassOverInv ==
    ASSUME IInv, UNCHANGED table, pass'.rows = NoRows,
           pass'.at \notin {"bump", "streak", "quarantine"},
           faults' \in Nat, faults' >= faults,
           pass.at \in {"streak", "quarantine"} => faults' > faults
    PROVE  Bookkeeping'
<1> USE DEF IInv, TypeOK, Table, Row, Threshold, Stored, ActiveIds
<1>1. BooksAreAboutPending' /\ NoQuarantinedPending'
  BY DEF BooksAreAboutPending, NoQuarantinedPending, Pending, NoRows
<1>2. StreakBounded'
  BY DEF Bookkeeping, StreakBounded
<1>3. ActiveBelowThreshold'
  BY DEF Bookkeeping, StreakBounded, ActiveBelowThreshold
<1>4. QED
  BY <1>1, <1>2, <1>3 DEF Bookkeeping

\* A step of a handler: rows disappear, or start afresh, or keep their books.
LEMMA StoreStepInv ==
    ASSUME IInv, UNCHANGED <<pass, faults>>,
           \A id \in Identity : table'[id] # None =>
              \/ table'[id].reason = "none" /\ table'[id].streak = 0
              \/ /\ table[id] # None
                 /\ table'[id].reason = table[id].reason
                 /\ table'[id].streak = table[id].streak
    PROVE  Bookkeeping'
<1> USE DEF IInv, TypeOK, Table, Row, Threshold, Stored, ActiveIds, Pending
<1>1. BooksAreAboutPending' /\ NoQuarantinedPending'
  BY DEF Bookkeeping, BooksAreAboutPending, NoQuarantinedPending
<1>2. StreakBounded' /\ ActiveBelowThreshold'
  BY DEF Bookkeeping, StreakBounded, ActiveBelowThreshold
<1>3. QED
  BY <1>1, <1>2 DEF Bookkeeping

\* What Advance does to the pass.
LEMMA AdvanceEffect ==
    ASSUME TypeOK, NEW id \in Identity, Advance(id)
    PROVE  /\ pass'.at \in {"done", "row"}
           /\ \A j \in Identity : pass'.rows[j] # None => j # id /\ pass'.rows[j] = pass.rows[j]
<1>1. CASE PassEnds("done")
  BY <1>1 DEF PassEnds, IdlePass, NoRows
<1>2. CASE pass' = [pass EXCEPT !.at = "row", !.rows[id] = None, !.cur = None]
  BY <1>2 DEF TypeOK, PassRecord
<1>3. QED
  BY <1>1, <1>2 DEF Advance

\* A pass that leaves row id behind, having changed at most that row, and if it
\* left that row active, below the threshold.
LEMMA AdvanceInv ==
    ASSUME IInv, NEW id \in Identity, Advance(id), UNCHANGED faults,
           \A j \in Identity \ {id} : table'[j] = table[j],
           table'[id] # None =>
              /\ table[id] # None /\ table'[id].streak = table[id].streak
              /\ table'[id].reason = "none" =>
                    table[id].reason = "none" /\ table[id].streak < Threshold + faults,
           pass.at \in {"streak", "quarantine"} => pass.cur = id
    PROVE  Bookkeeping'
<1> USE AdvanceEffect DEF IInv, TypeOK, Table, Row, Threshold, Stored, ActiveIds, Pending
<1>1. BooksAreAboutPending'
  BY DEF BooksAreAboutPending
<1>2. NoQuarantinedPending'
  BY DEF Bookkeeping, NoQuarantinedPending
<1>3. StreakBounded'
  BY DEF Bookkeeping, StreakBounded
<1>4. ASSUME NEW j \in ActiveIds(table)' PROVE table'[j].streak < Threshold + faults'
  <2>1. CASE j = id
    BY <1>4, <2>1
  <2>2. CASE j # id
    <3>1. j \in ActiveIds(table) /\ table'[j] = table[j]
      BY <1>4, <2>2
    <3>2. table[j].streak < Threshold + faults
      BY <2>2, <3>1 DEF Bookkeeping, ActiveBelowThreshold
    <3>3. QED
      BY <3>1, <3>2
  <2>3. QED
    BY <2>1, <2>2
<1>5. QED
  BY <1>1, <1>2, <1>3, <1>4 DEF Bookkeeping, ActiveBelowThreshold

\* The worker thread is the loop's.
LEMMA OnePassInv == ASSUME TypeOK, OnePassAtATime, [Next]_vars PROVE OnePassAtATime'
<1> USE DEF OnePassAtATime
<1>1. CASE LoopStep
  BY <1>1 DEF LoopStep, LoopWake, LoopPassesBy, LoopSpawnsPass, LoopCollectsPass, IdlePass, TypeOK
<1>2. CASE PassStep
  <2>1. UNCHANGED loop /\ pass.at # "idle"
    BY <1>2
    DEF PassStep, PassPurges, PassReads, PassConnects, PassFindsDead, PassAccepted,
        PassUnanswered, PassRejected, PassBumps, PassReadsStreak, PassQuarantines,
        PassBreaks, Sends, loopVars
  <2>2. QED
    BY <2>1
<1>3. CASE HandlerRequest
  BY <1>3 DEF HandlerRequest, SyncRequest, PersistRequest, ClearRequest, Forget, loopVars
<1>4. CASE HandlerStep
  BY <1>4
  DEF HandlerStep, HandlerUpserts, HandlerDeletes, HandlerStored, HandlerDials,
      HandlerSends, HandlerLeaves, loopVars
<1>5. CASE Outside
  BY <1>5
  DEF Outside, BrowserStops, BrowserStarts, JarDrifts, CookieAges, KeyRotates,
      PassFails, HandlerFails, Crash, loopVars, IdlePass
<1>6. CASE UNCHANGED vars
  BY <1>6 DEF vars
<1>7. QED
  BY <1>1, <1>2, <1>3, <1>4, <1>5, <1>6 DEF Next

\* The steps of a pass keep the books consistent.
LEMMA PassInv == ASSUME IInv, PassStep, TypeOK' PROVE Bookkeeping'
<1>1. CASE PassPurges
  <2>1. \A id \in Identity : table'[id] # None => table'[id] = table[id]
    BY <1>1 DEF PassPurges, DeleteExpired, Remove
  <2>2. pass'.rows = pass.rows /\ pass'.at = "read" /\ pass.at = "purge" /\ UNCHANGED faults
    BY <1>1 DEF PassPurges, IInv, TypeOK, PassRecord, envVars
  <2>3. QED
    BY <2>1, <2>2
    DEF IInv, Bookkeeping, BooksAreAboutPending, NoQuarantinedPending, StreakBounded,
        ActiveBelowThreshold, Pending, Stored, ActiveIds
<1>2. CASE PassReads
  <2>1. UNCHANGED <<table, faults>> /\ pass.at = "read" /\ faults \in Nat
    BY <1>2 DEF PassReads, envVars, IInv, TypeOK
  <2>2. CASE PassEnds("done")
    BY <2>1, <2>2, PassOverInv DEF PassEnds, IdlePass
  <2>3. CASE pass' = [pass EXCEPT !.at = "connect", !.rows = Snapshot]
    <3>1. pass'.at = "connect" /\ pass'.rows = Snapshot
      BY <2>3 DEF IInv, TypeOK, PassRecord
    <3>2. NoQuarantinedPending'
      BY <2>1, <3>1 DEF NoQuarantinedPending, Pending, Snapshot, ActiveIds
    <3>3. QED
      BY <2>1, <3>1, <3>2
      DEF IInv, Bookkeeping, BooksAreAboutPending, StreakBounded, ActiveBelowThreshold,
          Stored, ActiveIds
  <2>4. QED
    BY <1>2, <2>2, <2>3 DEF PassReads
<1>3. CASE PassConnects
  <2>1. UNCHANGED <<table, faults>> /\ pass.at = "connect" /\ faults \in Nat
    BY <1>3 DEF PassConnects, envVars, IInv, TypeOK
  <2>2. CASE PassEnds("done")
    BY <2>1, <2>2, PassOverInv DEF PassEnds, IdlePass
  <2>3. CASE pass' = [pass EXCEPT !.at = "row"]
    <3>1. pass'.at = "row" /\ pass'.rows = pass.rows
      BY <2>3 DEF IInv, TypeOK, PassRecord
    <3>2. QED
      BY <2>1, <3>1
      DEF IInv, Bookkeeping, BooksAreAboutPending, NoQuarantinedPending, StreakBounded,
          ActiveBelowThreshold, Pending, Stored, ActiveIds
  <2>4. QED
    BY <1>3, <2>2, <2>3 DEF PassConnects
<1>4. ASSUME NEW id \in Identity, pass.at = "row", id \in Pending, Advance(id),
             UNCHANGED <<table, faults>>
      PROVE  Bookkeeping'
  \* a row that is left as it is: it was active and below the threshold
  <2>1. table[id] # None => table[id].reason = "none" /\ table[id].streak < Threshold + faults
    BY <1>4
    DEF IInv, Bookkeeping, NoQuarantinedPending, ActiveBelowThreshold, ActiveIds, Stored
  <2>2. QED
    BY <1>4, <2>1, AdvanceInv
<1>5. ASSUME NEW id \in Identity, PassFindsDead(id) PROVE Bookkeeping'
  <2>1. pass.at = "row" /\ id \in Pending /\ Advance(id) /\ UNCHANGED faults
    BY <1>5 DEF PassFindsDead, envVars
  <2>2. CASE UNCHANGED table
    BY <1>4, <2>1, <2>2
  <2>3. CASE table' = SetQuarantine(table, id, "dead")
    <3>1. \A j \in Identity \ {id} : table'[j] = table[j]
      BY <2>3 DEF SetQuarantine, IInv, TypeOK, Table
    <3>2. table'[id] # None =>
            table[id] # None /\ table'[id].streak = table[id].streak /\ table'[id].reason = "dead"
      BY <2>3 DEF SetQuarantine, IInv, TypeOK, Table, Row
    <3>3. QED
      BY <2>1, <3>1, <3>2, AdvanceInv
  <2>4. QED
    BY <1>5, <2>2, <2>3 DEF PassFindsDead
<1>6. ASSUME NEW id \in Identity, PassAccepted(id) \/ PassUnanswered(id) PROVE Bookkeeping'
  BY <1>4, <1>6 DEF PassAccepted, PassUnanswered, Sends, envVars
<1>7. ASSUME NEW id \in Identity, PassRejected(id) PROVE Bookkeeping'
  <2>1. pass.at = "row" /\ id \in Pending /\ UNCHANGED <<table, faults>>
    BY <1>7 DEF PassRejected, Sends, envVars
  <2>2. CASE Advance(id)
    BY <1>4, <2>1, <2>2
  <2>3. CASE pass' = [pass EXCEPT !.at = "bump", !.cur = id]
    <3>1. pass'.at = "bump" /\ pass'.cur = id /\ pass'.rows = pass.rows
      BY <2>3 DEF IInv, TypeOK, PassRecord
    <3>2. QED
      BY <2>1, <3>1
      DEF IInv, Bookkeeping, BooksAreAboutPending, NoQuarantinedPending, StreakBounded,
          ActiveBelowThreshold, Pending, Stored, ActiveIds
  <2>4. QED
    BY <1>7, <2>2, <2>3 DEF PassRejected
<1>8. CASE PassBumps
  <2> DEFINE id == pass.cur
  <2>1. /\ pass.at = "bump" /\ table' = BumpFailStreak(table, id) /\ UNCHANGED faults
        /\ id \in Identity /\ id \in Pending
    BY <1>8 DEF PassBumps, IInv, Bookkeeping, BooksAreAboutPending, Pending, envVars
  <2>2. pass'.at = "streak" /\ pass'.cur = id /\ pass'.rows = pass.rows
    BY <1>8 DEF PassBumps, IInv, TypeOK, PassRecord
  <2>3. \A j \in Identity \ {id} : table'[j] = table[j]
    BY <2>1 DEF BumpFailStreak, IInv, TypeOK, Table
  <2>4. CASE table[id] = None
    <3>1. table' = table
      BY <2>1, <2>4 DEF BumpFailStreak
    <3>2. QED
      BY <2>1, <2>2, <3>1
      DEF IInv, Bookkeeping, BooksAreAboutPending, NoQuarantinedPending, StreakBounded,
          ActiveBelowThreshold, Pending, Stored, ActiveIds
  <2>5. CASE table[id] # None
    <3>1. /\ table'[id].streak = table[id].streak + 1
          /\ table'[id].reason = table[id].reason
      BY <2>1, <2>5 DEF BumpFailStreak, IInv, TypeOK, Table, Row
    <3>2. table[id].reason = "none" /\ table[id].streak < Threshold + faults
      BY <2>1, <2>5
      DEF IInv, Bookkeeping, NoQuarantinedPending, ActiveBelowThreshold, ActiveIds, Stored
    <3>3. table[id].streak \in Nat /\ faults \in Nat
      BY <2>1, <2>5 DEF IInv, TypeOK, Table, Row
    <3>4. BooksAreAboutPending' /\ NoQuarantinedPending'
      BY <2>1, <2>2, <2>3, <3>1, <3>2
      DEF IInv, Bookkeeping, BooksAreAboutPending, NoQuarantinedPending, Pending
    <3>5. StreakBounded'
      BY <2>1, <2>3, <3>1, <3>2, <3>3
      DEF IInv, Bookkeeping, StreakBounded, Stored, Threshold
    <3>6. ActiveBelowThreshold'
      BY <2>1, <2>2, <2>3
      DEF IInv, Bookkeeping, ActiveBelowThreshold, ActiveIds, Stored
    <3>7. QED
      BY <3>4, <3>5, <3>6 DEF Bookkeeping
  <2>6. QED
    BY <2>4, <2>5
<1>9. CASE PassReadsStreak
  <2> DEFINE id == pass.cur
  <2>1. /\ pass.at = "streak" /\ UNCHANGED <<table, faults>>
        /\ id \in Identity /\ id \in Pending
    BY <1>9 DEF PassReadsStreak, IInv, Bookkeeping, BooksAreAboutPending, Pending, envVars
  <2>2. CASE QuarantineDue(FailStreak(table, id))
    <3>1. pass'.at = "quarantine" /\ pass'.cur = id /\ pass'.rows = pass.rows
      BY <1>9, <2>2 DEF PassReadsStreak, IInv, TypeOK, PassRecord
    <3>2. QED
      BY <2>1, <3>1
      DEF IInv, Bookkeeping, BooksAreAboutPending, NoQuarantinedPending, StreakBounded,
          ActiveBelowThreshold, Pending, Stored, ActiveIds
  <2>3. CASE ~QuarantineDue(FailStreak(table, id))
    <3>1. Advance(id)
      BY <1>9, <2>3 DEF PassReadsStreak
    <3>2. table[id] # None => table[id].reason = "none" /\ table[id].streak < Threshold + faults
      BY <2>1, <2>3
      DEF QuarantineDue, FailStreak, Threshold, IInv, TypeOK, Table, Row, Bookkeeping,
          NoQuarantinedPending
    <3>3. QED
      BY <2>1, <3>1, <3>2, AdvanceInv
  <2>4. QED
    BY <2>2, <2>3
<1>10. CASE PassQuarantines
  <2> DEFINE id == pass.cur
  <2>1. /\ table' = SetQuarantine(table, id, "rejected") /\ UNCHANGED faults
        /\ id \in Identity /\ Advance(id)
    BY <1>10 DEF PassQuarantines, IInv, Bookkeeping, BooksAreAboutPending, Pending, envVars
  <2>2. \A j \in Identity \ {id} : table'[j] = table[j]
    BY <2>1 DEF SetQuarantine, IInv, TypeOK, Table
  <2>3. table'[id] # None =>
          table[id] # None /\ table'[id].streak = table[id].streak /\ table'[id].reason = "rejected"
    BY <2>1 DEF SetQuarantine, IInv, TypeOK, Table, Row
  <2>4. QED
    BY <2>1, <2>2, <2>3, AdvanceInv
<1>11. CASE PassBreaks
  <2>1. /\ UNCHANGED <<table, faults>> /\ pass.at = "row" /\ faults \in Nat
        /\ PassEnds("failed")
    BY <1>11 DEF PassBreaks, envVars, IInv, TypeOK
  <2>2. QED
    BY <2>1, PassOverInv DEF PassEnds, IdlePass
<1>12. QED
  BY <1>1, <1>2, <1>3, <1>5, <1>6, <1>7, <1>8, <1>9, <1>10, <1>11 DEF PassStep

\* The steps of the loop, of the handlers and from outside keep the books
\* consistent.
LEMMA LoopInv == ASSUME IInv, LoopStep PROVE Bookkeeping'
<1>1. faults' = faults /\ faults \in Nat /\ UNCHANGED table
  BY DEF LoopStep, LoopWake, LoopPassesBy, LoopSpawnsPass, LoopCollectsPass, envVars,
         IInv, TypeOK
<1>2. CASE LoopWake \/ LoopPassesBy
  BY <1>1, <1>2, ElsewhereInv DEF LoopWake, LoopPassesBy
<1>3. CASE LoopSpawnsPass \/ LoopCollectsPass
  <2>1. pass.at \notin {"streak", "quarantine"}
    BY <1>3 DEF LoopSpawnsPass, LoopCollectsPass, IInv, OnePassAtATime
  <2>2. pass'.rows = NoRows /\ pass'.at \notin {"bump", "streak", "quarantine"}
    <3>1. CASE LoopSpawnsPass
      BY <3>1 DEF LoopSpawnsPass, IdlePass
    <3>2. CASE LoopCollectsPass
      BY <3>2 DEF LoopCollectsPass, IdlePass
    <3>3. QED
      BY <1>3, <3>1, <3>2
  <2>3. QED
    BY <1>1, <2>1, <2>2, PassOverInv
<1>4. QED
  BY <1>2, <1>3 DEF LoopStep

\* A handler's statements keep the books, whatever the pass is at.
LEMMA HandlerInv == ASSUME IInv, HandlerRequest \/ HandlerStep PROVE Bookkeeping'
<1>1. UNCHANGED <<pass, faults>> /\ faults \in Nat
  BY DEF HandlerRequest, SyncRequest, PersistRequest, ClearRequest, Forget, Tick,
         HandlerStep, HandlerUpserts, HandlerDeletes, HandlerStored, HandlerDials,
         HandlerSends, HandlerLeaves, envVars, IInv, TypeOK
<1>2. CASE UNCHANGED table
  BY <1>1, <1>2, ElsewhereInv
<1>3. ASSUME NEW ids, table' = Remove(table, ids) PROVE Bookkeeping'
  BY <1>1, <1>3, StoreStepInv DEF Remove
<1>4. ASSUME NEW id \in Identity, HandlerUpserts(id) PROVE Bookkeeping'
  BY <1>1, <1>4, StoreStepInv DEF HandlerUpserts, Upsert, IInv, TypeOK, Table
<1>5. QED
  BY <1>2, <1>3, <1>4
  DEF HandlerRequest, SyncRequest, PersistRequest, ClearRequest, Forget,
      HandlerStep, HandlerDeletes, HandlerStored, HandlerDials, HandlerSends, HandlerLeaves

\* So do lapses, lost keys, exceptions, crashes and the browsers.
LEMMA OutsideInv == ASSUME IInv, Outside PROVE Bookkeeping'
<1>1. faults \in Nat
  BY DEF IInv, TypeOK
<1>2. CASE CookieAges
  <2>1. PICK id \in Stored(table), later \in Outdated :
          table' = [table EXCEPT ![id].ttl = later]
    BY <1>2 DEF CookieAges, Outdated
  <2>2. UNCHANGED <<pass, faults>>
    BY <1>2 DEF CookieAges, envVars
  <2>3. \A j \in Identity : table'[j] # None =>
          /\ table[j] # None
          /\ table'[j].reason = table[j].reason /\ table'[j].streak = table[j].streak
    BY <2>1 DEF IInv, TypeOK, Table, Row, Stored
  <2>4. QED
    BY <2>2, <2>3, StoreStepInv
<1>3. CASE PassFails \/ Crash
  <2>1. /\ faults' = faults + 1 /\ UNCHANGED table
        /\ pass'.rows = NoRows /\ pass'.at \notin {"bump", "streak", "quarantine"}
    <3>1. CASE PassFails
      BY <3>1 DEF PassFails, Fault, PassEnds, IdlePass
    <3>2. CASE Crash
      BY <3>2 DEF Crash, Fault, IdlePass
    <3>3. QED
      BY <1>3, <3>1, <3>2
  <2>2. QED
    BY <1>1, <2>1, PassOverInv
<1>4. CASE KeyRotates \/ HandlerFails
  BY <1>1, <1>4, ElsewhereInv DEF KeyRotates, HandlerFails, Fault
<1>5. CASE \E t \in Target : BrowserStops(t) \/ BrowserStarts(t) \/ JarDrifts(t)
  BY <1>1, <1>5, ElsewhereInv DEF BrowserStops, BrowserStarts, JarDrifts
<1>6. QED
  BY <1>2, <1>3, <1>4, <1>5 DEF Outside

\* Every step preserves the inductive invariant.
LEMMA NextInv == ASSUME IInv, [Next]_vars PROVE IInv'
<1>1. OnePassAtATime'
  BY OnePassInv DEF IInv
<1>2. TypeOK'
  <2>1. TypeOK /\ BooksAreAboutPending
    BY DEF IInv, Bookkeeping
  <2>2. CASE UNCHANGED vars
    BY <2>1, <2>2 DEF vars, TypeOK
  <2>3. QED
    BY <2>1, <2>2, LoopType, PassType, RequestType, HandlerType, OutsideType DEF Next
<1>3. Bookkeeping'
  <2>1. CASE UNCHANGED vars
    <3>1. UNCHANGED <<table, pass, faults>> /\ faults \in Nat
      BY <2>1 DEF vars, IInv, TypeOK
    <3>2. QED
      BY <3>1, ElsewhereInv
  <2>2. QED
    BY <1>2, <2>1, LoopInv, PassInv, HandlerInv, OutsideInv DEF Next
<1>4. QED
  BY <1>1, <1>2, <1>3 DEF IInv

\* The invariant holds in every behaviour of the specification.
THEOREM InvCorrect == Spec => []IInv
<1>1. Init => IInv
  BY InitInv
<1>2. IInv /\ [Next]_vars => IInv'
  BY NextInv
<1>3. QED
  BY <1>1, <1>2, PTL DEF Spec

\* Every variable keeps its type.
THEOREM TypeCorrect == Spec => []TypeOK
<1>1. IInv => TypeOK
  BY DEF IInv
<1>2. QED
  BY <1>1, InvCorrect, PTL

\* No pass, however it interleaves with requests, crashes and failures, still
\* intends to push a row that is quarantined.
THEOREM PendingIsActive == Spec => []NoQuarantinedPending
<1>1. IInv => NoQuarantinedPending
  BY DEF IInv, Bookkeeping
<1>2. QED
  BY <1>1, InvCorrect, PTL

\* A streak outgrows the threshold only by interruptions.
THEOREM StreakCorrect == Spec => []StreakBounded
<1>1. IInv => StreakBounded
  BY DEF IInv, Bookkeeping
<1>2. QED
  BY <1>1, InvCorrect, PTL

-----------------------------------------------------------------------------
(* What a step of a pass does, whatever else is going on: PluginLifecycle   *)
(* has two of them at work, for which the books above do not balance.       *)

\* To row id: nothing, or it is deleted, judged, or counted - and a row that is
\* counted and left alone is below the threshold.
PassMoves(id) ==
    /\ MayCount(id)' =>
          MayCount(id) \/ (pass.at = "read" /\ table[id] # None /\ table[id].reason = "none")
    /\ \/ table'[id] = None
       \/ /\ table[id] # None /\ table'[id] = table[id]
          /\ Judging(id) /\ ~Judging(id)' =>
                table[id].reason # "none" \/ table[id].streak < Threshold
       \/ /\ table[id] # None /\ table'[id].enc = table[id].enc
          /\ table'[id].reason # "none" /\ table'[id].streak = table[id].streak
       \/ /\ table[id] # None /\ table'[id].enc = table[id].enc
          /\ MayCount(id) /\ Judging(id)'
          /\ table'[id].reason = table[id].reason /\ table'[id].streak = table[id].streak + 1

\* A pass that leaves row id behind.
LEMMA AdvanceMoves ==
    ASSUME TypeOK, NEW id \in Identity, Advance(id), pass.at \in {"row", "streak", "quarantine"},
           pass.at # "row" => pass.cur = id
    PROVE  /\ pass'.at \in {"done", "row"}
           /\ \A j \in Identity : ~Judging(j)' /\ (MayCount(j)' => MayCount(j))
           /\ \A j \in Identity \ {id} : ~Judging(j)
  BY AdvanceEffect DEF Judging, MayCount, Pending

\* A step of a pass keeps its own books, and moves every row as above.
LEMMA PassMove ==
    ASSUME TypeOK, BooksAreAboutPending, PassStep
    PROVE  /\ BooksAreAboutPending' /\ UNCHANGED <<faults, handler>>
           /\ pass.at \notin {"idle", "done", "failed"}
           /\ pass'.at \in {"purge", "read"} => pass.at = "purge"
           /\ \A id \in Identity : PassMoves(id)
<1>t. table \in Table /\ pass \in PassRecord
  BY DEF TypeOK
<1>1. UNCHANGED <<faults, handler>> /\ pass.at \notin {"idle", "done", "failed"}
  BY DEF PassStep, PassPurges, PassReads, PassConnects, PassFindsDead, PassAccepted,
         PassUnanswered, PassRejected, PassBumps, PassReadsStreak, PassQuarantines,
         PassBreaks, Sends, envVars
<1> DEFINE Rest == /\ BooksAreAboutPending' /\ (pass'.at \in {"purge", "read"} => pass.at = "purge")
                   /\ \A id \in Identity : PassMoves(id)
<1> SUFFICES Rest
  BY <1>1
<1>2. CASE PassPurges
  <2>1. \A id \in Identity : table'[id] = None \/ (table[id] # None /\ table'[id] = table[id])
    BY <1>2, <1>t DEF PassPurges, DeleteExpired, Remove
  <2>2. pass.at = "purge" /\ pass'.at = "read" /\ pass'.rows = pass.rows
    BY <1>2, <1>t DEF PassPurges, PassRecord
  <2> QED
    BY <2>1, <2>2 DEF PassMoves, MayCount, Judging, Pending, BooksAreAboutPending
<1>3. ASSUME UNCHANGED table, pass.at \in {"read", "connect", "row"},
             pass'.at \notin {"purge", "read", "bump", "streak", "quarantine"},
             \A id \in Identity : pass'.rows[id] # None =>
                pass.rows[id] # None \/ (pass.at = "read" /\ id \in ActiveIds(table))
      PROVE  Rest
  BY <1>3 DEF PassMoves, MayCount, Judging, Pending, BooksAreAboutPending, ActiveIds, Stored
<1>4. ASSUME NEW how \in {"done", "failed"}, PassEnds(how), UNCHANGED table,
             pass.at \in {"read", "connect", "row"}
      PROVE  Rest
  <2>1. pass'.at = how /\ pass'.rows = NoRows
    BY <1>4 DEF PassEnds, IdlePass
  <2> QED
    BY <2>1, <1>3, <1>4 DEF NoRows
<1>5. CASE PassReads
  <2>1. pass.at = "read" /\ UNCHANGED table
    BY <1>5 DEF PassReads
  <2>2. CASE pass' = [pass EXCEPT !.at = "connect", !.rows = Snapshot]
    <3>1. pass'.at = "connect" /\ pass'.rows = Snapshot
      BY <2>2, <1>t DEF PassRecord
    <3> QED
      BY <3>1, <2>1, <1>3 DEF Snapshot
  <2> QED
    BY <1>5, <2>1, <2>2, <1>4 DEF PassReads
<1>6. CASE PassConnects
  <2>1. pass.at = "connect" /\ UNCHANGED table
    BY <1>6 DEF PassConnects
  <2>2. CASE pass' = [pass EXCEPT !.at = "row"]
    <3>1. pass'.at = "row" /\ pass'.rows = pass.rows
      BY <2>2, <1>t DEF PassRecord
    <3> QED
      BY <3>1, <2>1, <1>3
  <2> QED
    BY <1>6, <2>1, <2>2, <1>4 DEF PassConnects
<1>7. ASSUME NEW id \in Identity, Advance(id), UNCHANGED table, pass.at = "row" PROVE Rest
  <2>1. \A j \in Identity : ~Judging(j)
    BY <1>7 DEF Judging
  <2> QED
    BY <2>1, <1>7, AdvanceMoves DEF PassMoves, BooksAreAboutPending
<1>8. ASSUME NEW id \in Identity, Advance(id), NEW reason \in {"dead", "rejected"},
             table' = SetQuarantine(table, id, reason),
             pass.at \in {"row", "streak", "quarantine"}, pass.at # "row" => pass.cur = id
      PROVE  Rest
  <2>1. \A j \in Identity \ {id} : table'[j] = table[j]
    BY <1>8, <1>t DEF SetQuarantine, Table
  <2>2. \/ table'[id] = None
        \/ /\ table[id] # None /\ table'[id].enc = table[id].enc
           /\ table'[id].reason # "none" /\ table'[id].streak = table[id].streak
    BY <1>8, <1>t DEF SetQuarantine, Table, Row
  <2> QED
    BY <2>1, <2>2, <1>8, AdvanceMoves DEF PassMoves, BooksAreAboutPending
<1>9. ASSUME NEW id \in Identity, PassFindsDead(id) PROVE Rest
  BY <1>9, <1>7, <1>8 DEF PassFindsDead
<1>10. ASSUME NEW id \in Identity, PassAccepted(id) \/ PassUnanswered(id) PROVE Rest
  BY <1>10, <1>7 DEF PassAccepted, PassUnanswered, Sends
<1>11. ASSUME NEW id \in Identity, PassRejected(id) PROVE Rest
  <2>1. pass.at = "row" /\ id \in Pending /\ UNCHANGED table
    BY <1>11 DEF PassRejected, Sends
  <2>2. CASE Advance(id)
    BY <2>1, <2>2, <1>7
  <2>3. CASE pass' = [pass EXCEPT !.at = "bump", !.cur = id]
    <3>1. pass'.at = "bump" /\ pass'.cur = id /\ pass'.rows = pass.rows
      BY <2>3, <1>t DEF PassRecord
    <3> QED
      BY <3>1, <2>1 DEF PassMoves, MayCount, Judging, Pending, BooksAreAboutPending
  <2> QED
    BY <1>11, <2>2, <2>3 DEF PassRejected
<1>12. CASE PassBumps
  <2> DEFINE id == pass.cur
  <2>1. pass.at = "bump" /\ table' = BumpFailStreak(table, id) /\ id \in Pending /\ id \in Identity
    BY <1>12 DEF PassBumps, BooksAreAboutPending, Pending
  <2>2. pass'.at = "streak" /\ pass'.cur = id /\ pass'.rows = pass.rows
    BY <1>12, <1>t DEF PassBumps, PassRecord
  <2>3. \A j \in Identity \ {id} : table'[j] = table[j]
    BY <2>1, <1>t DEF BumpFailStreak, Table
  <2>4. \/ table'[id] = None
        \/ /\ table[id] # None /\ table'[id].enc = table[id].enc
           /\ table'[id].reason = table[id].reason /\ table'[id].streak = table[id].streak + 1
    BY <2>1, <1>t DEF BumpFailStreak, Table, Row
  <2> QED
    BY <2>1, <2>2, <2>3, <2>4 DEF PassMoves, MayCount, Judging, Pending, BooksAreAboutPending
<1>13. CASE PassReadsStreak
  <2> DEFINE id == pass.cur
  <2>1. pass.at = "streak" /\ UNCHANGED table /\ id \in Pending /\ id \in Identity
    BY <1>13 DEF PassReadsStreak, BooksAreAboutPending, Pending
  <2>2. CASE pass' = [pass EXCEPT !.at = "quarantine"]
    <3>1. pass'.at = "quarantine" /\ pass'.cur = id /\ pass'.rows = pass.rows
      BY <2>2, <1>t DEF PassRecord
    <3> QED
      BY <3>1, <2>1 DEF PassMoves, MayCount, Judging, Pending, BooksAreAboutPending
  <2>3. CASE Advance(id) /\ ~QuarantineDue(FailStreak(table, id))
    <3>1. table[id] # None => table[id].streak < Threshold
      BY <2>1, <2>3, <1>t DEF QuarantineDue, FailStreak, Table, Row, Threshold
    <3> QED
      BY <3>1, <2>1, <2>3, AdvanceMoves DEF PassMoves, BooksAreAboutPending
  <2> QED
    BY <1>13, <2>2, <2>3 DEF PassReadsStreak
<1>14. CASE PassQuarantines
  <2>1. pass.cur \in Identity
    BY <1>14 DEF PassQuarantines, BooksAreAboutPending, Pending
  <2> QED
    BY <1>14, <1>8, <2>1 DEF PassQuarantines
<1>15. CASE PassBreaks
  BY <1>15, <1>4 DEF PassBreaks
<1> QED
  BY <1>2, <1>5, <1>6, <1>9, <1>10, <1>11, <1>12, <1>13, <1>14, <1>15 DEF PassStep

\* What any other step does: rows go, start afresh with a request's value, or
\* keep their books; a pass that does not go on as it was has no rows left, and
\* ends before its verdict only by an interruption.
RowStays(id) ==
    \/ table'[id] = None
    \/ handler' # handler /\ table'[id].reason = "none" /\ table'[id].streak = 0
    \/ /\ table[id] # None /\ table'[id].enc = table[id].enc
       /\ table'[id].reason = table[id].reason /\ table'[id].streak = table[id].streak
PassStaysOrEnds ==
    \/ pass' = pass
    \/ /\ pass'.rows = NoRows /\ pass'.at \notin {"bump", "streak", "quarantine"}
       /\ pass.at \in {"streak", "quarantine"} => faults' > faults

\* The loop writes nothing, and takes no pass away before its verdict.
LEMMA LoopMove ==
    ASSUME TypeOK, OnePassAtATime, LoopStep
    PROVE  UNCHANGED <<faults, table>> /\ PassStaysOrEnds
<1>1. CASE LoopWake \/ LoopPassesBy
  BY <1>1 DEF LoopWake, LoopPassesBy, envVars, PassStaysOrEnds
<1>2. CASE LoopSpawnsPass
  BY <1>2 DEF LoopSpawnsPass, envVars, PassStaysOrEnds, OnePassAtATime, IdlePass
<1>3. CASE LoopCollectsPass
  BY <1>3 DEF LoopCollectsPass, envVars, PassStaysOrEnds, IdlePass
<1> QED
  BY <1>1, <1>2, <1>3 DEF LoopStep

\* A handler removes rows or starts them afresh, and leaves the pass alone.
LEMMA HandlerMove ==
    ASSUME TypeOK, HandlerRequest \/ HandlerStep
    PROVE  UNCHANGED <<faults, pass>> /\ \A id \in Identity : RowStays(id)
<1>1. UNCHANGED <<faults, pass>>
  <2>1. CASE HandlerRequest
    BY <2>1 DEF HandlerRequest, SyncRequest, PersistRequest, ClearRequest, Forget, Tick
  <2>2. CASE HandlerStep
    BY <2>2 DEF HandlerStep, HandlerUpserts, HandlerDeletes, HandlerStored, HandlerDials,
                HandlerSends, HandlerLeaves, envVars
  <2> QED
    BY <2>1, <2>2
<1>2. ASSUME NEW ids, table' = Remove(table, ids) PROVE \A id \in Identity : RowStays(id)
  BY <1>2 DEF Remove, RowStays
<1>3. ASSUME NEW id \in Identity, HandlerUpserts(id) PROVE \A j \in Identity : RowStays(j)
  <2>1. handler' # handler
    BY <1>3 DEF HandlerUpserts, TypeOK, HandlerRecord
  <2>2. /\ table'[id].reason = "none" /\ table'[id].streak = 0
        /\ \A j \in Identity \ {id} : table'[j] = table[j]
    BY <1>3 DEF HandlerUpserts, Upsert, TypeOK, Table
  <2> QED
    BY <2>1, <2>2 DEF RowStays
<1>4. CASE UNCHANGED table
  BY <1>1, <1>4 DEF RowStays
<1> QED
  BY <1>1, <1>2, <1>3, <1>4
  DEF HandlerRequest, SyncRequest, PersistRequest, ClearRequest, Forget,
      HandlerStep, HandlerDeletes, HandlerStored, HandlerDials, HandlerSends, HandlerLeaves

\* What happens from outside keeps every row's books, and ends a pass only at the
\* price of an interruption.
LEMMA OutsideMove ==
    ASSUME TypeOK, Outside
    PROVE  faults' >= faults /\ PassStaysOrEnds /\ \A id \in Identity : RowStays(id)
<1>1. faults \in Nat
  BY DEF TypeOK
<1>2. CASE CookieAges
  <2>1. PICK id \in Stored(table), later \in Outdated :
          table' = [table EXCEPT ![id].ttl = later]
    BY <1>2 DEF CookieAges, Outdated
  <2>2. \A j \in Identity : RowStays(j)
    BY <2>1 DEF TypeOK, Table, Row, Stored, RowStays
  <2> QED
    BY <1>1, <1>2, <2>2 DEF CookieAges, envVars, PassStaysOrEnds
<1>3. ASSUME UNCHANGED <<table, pass>>, faults' \in {faults, faults + 1}
      PROVE  faults' >= faults /\ PassStaysOrEnds /\ \A id \in Identity : RowStays(id)
  BY <1>1, <1>3 DEF PassStaysOrEnds, RowStays
<1>4. CASE PassFails \/ Crash
  <2>1. /\ faults' = faults + 1 /\ UNCHANGED table
        /\ pass'.rows = NoRows /\ pass'.at \notin {"bump", "streak", "quarantine"}
    <3>1. CASE PassFails
      BY <3>1 DEF PassFails, Fault, PassEnds, IdlePass
    <3>2. CASE Crash
      BY <3>2 DEF Crash, Fault, IdlePass
    <3> QED
      BY <1>4, <3>1, <3>2
  <2> QED
    BY <1>1, <2>1 DEF PassStaysOrEnds, RowStays
<1>5. CASE KeyRotates \/ HandlerFails
  BY <1>3, <1>5 DEF KeyRotates, HandlerFails, Fault
<1>6. CASE \E t \in Target : BrowserStops(t) \/ BrowserStarts(t) \/ JarDrifts(t)
  BY <1>3, <1>6 DEF BrowserStops, BrowserStarts, JarDrifts
<1> QED
  BY <1>2, <1>4, <1>5, <1>6 DEF Outside
=============================================================================
