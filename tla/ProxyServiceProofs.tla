------------------------- MODULE ProxyServiceProofs -------------------------
(***************************************************************************)
(* The bookkeeping of the app's pass stays consistent when the proxy       *)
(* process writes the same table: whatever its threads do, for any number  *)
(* of them.                                                                *)
(***************************************************************************)
EXTENDS ProxyService, CookieReconcileProofs

\* A worker without a request, and the restore of main(), are threads.
LEMMA IdleType == IdleThread \in ThreadRecord /\ Restoring \in ThreadRecord
<1>1. IdleThread \in ThreadRecord
  <2>1. NoIncoming \in [Identity -> Incoming] /\ 1 \in 1..Len(Targets)
    BY TargetsAssumption DEF NoIncoming, Incoming
  <2> QED
    BY <2>1 DEF IdleThread, ThreadRecord
<1>2. Restoring \in ThreadRecord
  BY <1>1 DEF Restoring, ThreadRecord
<1> QED
  BY <1>1, <1>2

\* A thread that becomes another thread is one.
LEMMA BecomesType ==
    ASSUME thread \in [Thread -> ThreadRecord], NEW w, NEW r \in ThreadRecord, Becomes(w, r)
    PROVE  thread' \in [Thread -> ThreadRecord]
  BY DEF Becomes

\* Going on to the next target, or to what follows the last one.
LEMMA DialNextType == ASSUME NEW r \in ThreadRecord PROVE DialNext(r) \in ThreadRecord
<1>1. AfterHops(r) \in ThreadRecord
  <2>1. [r EXCEPT !.at = "key", !.wired = FALSE] \in ThreadRecord
    BY ZenonT(60) DEF ThreadRecord
  <2> QED
    BY <2>1, IdleType DEF AfterHops
<1>2. CASE r.hop # Len(Targets)
  <2>1. r.hop + 1 \in 1..Len(Targets)
    BY <1>2, TargetsAssumption DEF ThreadRecord
  <2>2. [r EXCEPT !.at = "dial", !.hop = @ + 1, !.todo = {}, !.wired = FALSE] \in ThreadRecord
    BY <2>1, ZenonT(60) DEF ThreadRecord
  <2> QED
    BY <1>2, <2>2 DEF DialNext
<1> QED
  BY <1>1, <1>2 DEF DialNext

\* Taking in a request.
LEMMA ProxyRequestType ==
    ASSUME ProxyTypeOK, ProxyRequest
    PROVE  thread' \in [Thread -> ThreadRecord]
<1>1. ASSUME NEW w \in Worker, ProxySyncRequest(w) PROVE thread' \in [Thread -> ThreadRecord]
  <2>1. PICK body \in SyncBodies, ttl \in {"session", "dated"} :
          Becomes(w, [IdleThread EXCEPT !.op = "sync", !.at = "probe", !.live = Units(body),
            !.incoming = [id \in Identity |->
               IF id \in body THEN [val |-> clock + 1, ttl |-> ttl] ELSE NoIncoming[id]]])
    BY <1>1 DEF ProxySyncRequest
  <2>2. Units(body) \in SUBSET SUBSET Identity
    BY InputAssumption DEF Units
  <2>3. [id \in Identity |-> IF id \in body THEN [val |-> clock + 1, ttl |-> ttl]
                                            ELSE NoIncoming[id]] \in [Identity -> Incoming]
    BY DEF ProxyTypeOK, TypeOK, Incoming, NoIncoming
  <2>4. [IdleThread EXCEPT !.op = "sync", !.at = "probe", !.live = Units(body),
            !.incoming = [id \in Identity |->
               IF id \in body THEN [val |-> clock + 1, ttl |-> ttl] ELSE NoIncoming[id]]]
          \in ThreadRecord
    BY <2>2, <2>3, IdleType, ZenonT(60) DEF ThreadRecord
  <2> QED
    BY <2>1, <2>4, BecomesType DEF ProxyTypeOK
<1>2. ASSUME NEW w \in Worker, ProxyClearRequest(w) PROVE thread' \in [Thread -> ThreadRecord]
  <2>1. PICK units \in {{Identity}} \cup
           {{LiveSelected(c) : c \in {c \in body : c.domain # Any}} : body \in ClearBodies} :
          Becomes(w, [IdleThread EXCEPT !.op = "clear", !.at = "probe", !.live = units])
    BY <1>2 DEF ProxyClearRequest
  <2>2. units \in SUBSET SUBSET Identity
    BY DEF LiveSelected, Selected
  <2>3. [IdleThread EXCEPT !.op = "clear", !.at = "probe", !.live = units] \in ThreadRecord
    BY <2>2, IdleType, ZenonT(60) DEF ThreadRecord
  <2> QED
    BY <2>1, <2>3, BecomesType DEF ProxyTypeOK
<1>3. ASSUME NEW w \in Worker, RestoreRequest(w) PROVE thread' \in [Thread -> ThreadRecord]
  BY <1>3, IdleType, BecomesType DEF RestoreRequest, ProxyTypeOK
<1> QED
  BY <1>1, <1>2, <1>3 DEF ProxyRequest

\* A step of a thread that touches none of the app's variables.
LEMMA QuietThreadType ==
    ASSUME ProxyTypeOK, NEW w \in Thread,
           Probe(w) \/ DialHop(w) \/ LeaveHop(w) \/ ReadKey(w) \/ ReadRows(w)
    PROVE  thread' \in [Thread -> ThreadRecord]
<1>1. thread[w] \in ThreadRecord /\ thread \in [Thread -> ThreadRecord]
  BY DEF ProxyTypeOK
<1> DEFINE r == thread[w]
<1>2. CASE Probe(w)
  <2> DEFINE p == [r EXCEPT !.reach = IF up[Targets[r.hop]] THEN @ \cup {r.hop} ELSE @]
  <2>1. p \in ThreadRecord /\ p.hop = r.hop
    BY <1>1 DEF ThreadRecord
  <2> HIDE DEF p
  <2>2. [p EXCEPT !.at = "dial", !.hop = 1] \in ThreadRecord
    <3>1. 1 \in 1..Len(Targets)
      BY TargetsAssumption
    <3> QED
      BY <2>1, <3>1 DEF ThreadRecord
  <2>3. ASSUME p.hop < Len(Targets) PROVE [p EXCEPT !.hop = @ + 1] \in ThreadRecord
    <3>1. p.hop + 1 \in 1..Len(Targets)
      BY <2>1, <2>3, TargetsAssumption DEF ThreadRecord
    <3> QED
      BY <2>1, <3>1, ZenonT(60) DEF ThreadRecord
  <2>4. Becomes(w, IF p.hop < Len(Targets) THEN [p EXCEPT !.hop = @ + 1]
                   ELSE IF p.reach = {} THEN IdleThread
                   ELSE [p EXCEPT !.at = "dial", !.hop = 1])
    BY <1>2 DEF Probe, p
  <2> QED
    BY <1>1, <2>2, <2>3, <2>4, IdleType, BecomesType
<1>3. CASE DialHop(w)
  <2>1. [r EXCEPT !.at = "send", !.todo = r.live, !.wired = TRUE] \in ThreadRecord
    BY <1>1, ZenonT(60) DEF ThreadRecord
  <2> QED
    BY <1>1, <1>3, <2>1, DialNextType, BecomesType DEF DialHop
<1>4. CASE LeaveHop(w)
  BY <1>1, <1>4, DialNextType, BecomesType DEF LeaveHop
<1>5. CASE ReadKey(w)
  <2>1. [r EXCEPT !.key = secret,
                  !.at = IF r.op = "restore" THEN "read" ELSE "persist",
                  !.todo = IF r.op = "restore" THEN {} ELSE r.live] \in ThreadRecord
    BY <1>1, ZenonT(60) DEF ThreadRecord, ProxyTypeOK, TypeOK
  <2> QED
    BY <1>1, <1>5, <2>1, IdleType, BecomesType DEF ReadKey
<1>6. CASE ReadRows(w)
  <2> DEFINE rows == {id \in Stored(table) : table[id].enc.key = r.key}
             vals == [id \in Identity |->
                        IF id \in rows
                        THEN [val |-> AsPushed(table[id]).val, ttl |-> "session"]
                        ELSE NoIncoming[id]]
  <2>1. Units(rows) \in SUBSET SUBSET Identity
    BY DEF Units, Stored
  <2>2. \A id \in rows : AsPushed(table[id]).val \in Nat
    BY DEF Stored, ProxyTypeOK, TypeOK, Table, Row, Ciphertext, AsPushed
  <2>3. vals \in [Identity -> Incoming]
    <3> HIDE DEF rows
    <3> QED
      BY <2>2 DEF Incoming, NoIncoming
  <2> HIDE DEF rows, vals
  <2>4. [r EXCEPT !.at = "dial", !.live = Units(rows), !.incoming = vals] \in ThreadRecord
    BY <1>1, <2>1, <2>3, ZenonT(60) DEF ThreadRecord
  <2>5. Becomes(w, IF Stored(table) = {} THEN IdleThread
                   ELSE [r EXCEPT !.at = "dial", !.live = Units(rows), !.incoming = vals])
    BY <1>6 DEF ReadRows, rows, vals
  <2> QED
    BY <1>1, <2>4, <2>5, IdleType, BecomesType
<1> QED
  BY <1>2, <1>3, <1>4, <1>5, <1>6

\* One command: the browser's cookies stay versions.
LEMMA SendOneType ==
    ASSUME ProxyTypeOK, NEW w \in Thread, SendOne(w)
    PROVE  /\ thread' \in [Thread -> ThreadRecord]
           /\ jar' \in [Target -> [Identity -> Nat]]
<1> DEFINE r == thread[w]
<1>1. r \in ThreadRecord /\ thread \in [Thread -> ThreadRecord]
      /\ jar \in [Target -> [Identity -> Nat]]
  BY DEF ProxyTypeOK, TypeOK
<1>2. \A id \in Identity : r.incoming[id].val \in Nat
  BY <1>1 DEF ThreadRecord, Incoming
<1>3. PICK unit \in r.todo :
         \/ Becomes(w, [r EXCEPT !.todo = @ \ {unit}]) /\ UNCHANGED jar
         \/ /\ jar' = [jar EXCEPT ![Targets[r.hop]] =
                 [id \in Identity |-> IF id \in unit THEN r.incoming[id].val ELSE @[id]]]
            /\ \E answered \in BOOLEAN :
                 Becomes(w, [r EXCEPT !.todo = @ \ {unit}, !.took = @ \/ answered])
  BY DEF SendOne
<1>4. [r EXCEPT !.todo = @ \ {unit}] \in ThreadRecord
  BY <1>1, ZenonT(60) DEF ThreadRecord
<1>5. \A answered \in BOOLEAN :
         [r EXCEPT !.todo = @ \ {unit}, !.took = @ \/ answered] \in ThreadRecord
  BY <1>1, ZenonT(60) DEF ThreadRecord
<1>6. thread' \in [Thread -> ThreadRecord]
  BY <1>1, <1>3, <1>4, <1>5, BecomesType
<1>7. jar' \in [Target -> [Identity -> Nat]]
  <2> DEFINE t == Targets[r.hop]
             f == [id \in Identity |-> IF id \in unit THEN r.incoming[id].val ELSE jar[t][id]]
  <2>1. t \in Target
    BY <1>1, TargetsType DEF ThreadRecord
  <2>2. f \in [Identity -> Nat]
    <3> HIDE DEF r, t
    <3> QED
      BY <1>1, <1>2, <2>1
  <2>3. UNCHANGED jar \/ jar' = [jar EXCEPT ![t] = f]
    BY <1>1, <1>3, <2>1
  <2> QED
    <3> HIDE DEF f, t, r
    <3> QED
      BY <1>1, <2>1, <2>2, <2>3
<1> QED
  BY <1>6, <1>7

\* One statement: it leaves the table alone, or starts a row afresh.
LEMMA PersistOneEffect ==
    ASSUME ProxyTypeOK, NEW w \in Thread, PersistOne(w)
    PROVE  /\ thread' \in [Thread -> ThreadRecord]
           /\ table' \in Table /\ faults' \in Nat /\ faults' >= faults
           /\ \/ UNCHANGED table
              \/ /\ UNCHANGED faults
                 /\ \A id \in Identity : table'[id] # None =>
                      \/ table'[id].reason = "none" /\ table'[id].streak = 0
                      \/ table'[id] = table[id]
<1> DEFINE r == thread[w]
<1>1. r \in ThreadRecord /\ thread \in [Thread -> ThreadRecord]
      /\ table \in Table /\ faults \in Nat
  BY DEF ProxyTypeOK, TypeOK
<1>2. PICK id \in Identity :
        /\ Becomes(w, IF r.todo = {{id}} THEN IdleThread ELSE [r EXCEPT !.todo = @ \ {{id}}])
        /\ \/ /\ table' = UpsertDirect(id, [val |-> r.incoming[id].val, key |-> r.key],
                                       r.incoming[id].ttl)
              /\ UNCHANGED faults
           \/ Fault /\ UNCHANGED table
  BY DEF PersistOne
<1>3. [r EXCEPT !.todo = @ \ {{id}}] \in ThreadRecord
  BY <1>1, ZenonT(60) DEF ThreadRecord
<1>4. thread' \in [Thread -> ThreadRecord]
  BY <1>1, <1>2, <1>3, IdleType, BecomesType
<1>5. [val |-> r.incoming[id].val, key |-> r.key] \in Ciphertext /\ r.incoming[id].ttl \in Ttl
  BY <1>1 DEF ThreadRecord, Incoming, Ciphertext, Ttl
<1> HIDE DEF r
<1>6. CASE table' = UpsertDirect(id, [val |-> r.incoming[id].val, key |-> r.key],
                                 r.incoming[id].ttl) /\ UNCHANGED faults
  <2>1. table' \in Table
    BY <1>1, <1>5, <1>6, RowStatementsType DEF UpsertDirect
  <2>2. \A j \in Identity : \/ table'[j].reason = "none" /\ table'[j].streak = 0
                            \/ table'[j] = table[j]
    <3>1. table'[id].reason = "none" /\ table'[id].streak = 0
      BY <1>1, <1>6 DEF UpsertDirect, Upsert, Table
    <3>2. \A j \in Identity \ {id} : table'[j] = table[j]
      BY <1>1, <1>6 DEF UpsertDirect, Upsert, Table
    <3> QED
      BY <3>1, <3>2
  <2> QED
    BY <1>1, <1>4, <1>6, <2>1, <2>2
<1>7. CASE Fault /\ UNCHANGED table
  BY <1>1, <1>4, <1>7 DEF Fault
<1> QED
  BY <1>2, <1>6, <1>7

\* A thread whose browser stops is still a thread.
LEMMA CutType ==
    ASSUME thread \in [Thread -> ThreadRecord]
    PROVE  Cut \in [Thread -> ThreadRecord]
<1> DEFINE live(w) == thread[w].wired
                     /\ (up[Targets[thread[w].hop]] => up'[Targets[thread[w].hop]])
<1>1. \A w \in Thread : live(w) \in BOOLEAN
  OBVIOUS
<1>2. Cut = [w \in Thread |-> [thread[w] EXCEPT !.wired = live(w)]]
  BY DEF Cut
<1> HIDE DEF live
<1>3. ASSUME NEW w \in Thread PROVE [thread[w] EXCEPT !.wired = live(w)] \in ThreadRecord
  BY <1>1, ZenonT(60) DEF ThreadRecord
<1> QED
  BY <1>2, <1>3

-----------------------------------------------------------------------------
ProxyInv == ProxyTypeOK /\ IInv

\* A step beside the app: its loop, pass and handler stay as they are, and rows
\* of the table start afresh or stay.
LEMMA BesideInv ==
    ASSUME ProxyInv,
           UNCHANGED <<loopVars, pass, handler, wired, secret, up, drift>>,
           clock' \in Nat, faults' \in Nat, faults' >= faults,
           table' \in Table, jar' \in [Target -> [Identity -> Nat]],
           \/ UNCHANGED table
           \/ /\ UNCHANGED faults
              /\ \A id \in Identity : table'[id] # None =>
                   \/ table'[id].reason = "none" /\ table'[id].streak = 0
                   \/ table'[id] = table[id]
    PROVE  IInv'
<1>1. TypeOK'
  BY DEF ProxyInv, ProxyTypeOK, TypeOK, loopVars
<1>2. OnePassAtATime'
  BY DEF ProxyInv, IInv, OnePassAtATime, loopVars
<1>3. CASE UNCHANGED table
  <2>1. Bookkeeping'
    BY <1>3, ElsewhereInv DEF ProxyInv
  <2> QED
    BY <1>1, <1>2, <2>1 DEF IInv
<1>4. CASE UNCHANGED faults /\ \A id \in Identity : table'[id] # None =>
             \/ table'[id].reason = "none" /\ table'[id].streak = 0
             \/ table'[id] = table[id]
  <2>1. Bookkeeping'
    BY <1>4, StoreStepInv DEF ProxyInv
  <2> QED
    BY <1>1, <1>2, <2>1 DEF IInv
<1> QED
  BY <1>3, <1>4

\* Every step of either process keeps the invariant.
LEMMA ProxyNextInv == ProxyInv /\ [ProxyNext]_pvars => ProxyInv'
<1> SUFFICES ASSUME ProxyInv, [ProxyNext]_pvars PROVE ProxyInv'
  OBVIOUS
<1> USE DEF ProxyInv
<1>0. /\ ProxyTypeOK /\ IInv /\ TypeOK /\ thread \in [Thread -> ThreadRecord]
      /\ table \in Table /\ jar \in [Target -> [Identity -> Nat]]
      /\ clock \in Nat /\ faults \in Nat
  BY DEF ProxyTypeOK, TypeOK
<1>1. CASE AppStep
  <2>1. IInv'
    BY <1>0, <1>1, NextInv DEF AppStep
  <2>2. thread' \in [Thread -> ThreadRecord]
    BY <1>0, <1>1, CutType DEF AppStep
  <2> QED
    BY <2>1, <2>2 DEF ProxyTypeOK, IInv
<1>2. CASE ProxyRequest
  <2>1. clock' = clock + 1 /\ UNCHANGED <<loopVars, pass, handler, wired, secret, up, drift,
                                          table, jar, faults>>
    BY <1>2 DEF ProxyRequest, ProxySyncRequest, ProxyClearRequest, RestoreRequest, Tick
  <2>2. IInv'
    BY <1>0, <2>1, BesideInv
  <2> QED
    BY <1>0, <1>2, <2>2, ProxyRequestType DEF ProxyTypeOK, IInv
<1>3. ASSUME NEW w \in Thread,
             Probe(w) \/ DialHop(w) \/ LeaveHop(w) \/ ReadKey(w) \/ ReadRows(w),
             UNCHANGED vars
      PROVE  ProxyInv'
  <2>1. IInv'
    BY <1>0, <1>3, NextInv
  <2> QED
    BY <1>0, <1>3, <2>1, QuietThreadType DEF ProxyTypeOK, IInv
<1>4. ASSUME NEW w \in Thread, SendOne(w),
             UNCHANGED <<table, loopVars, pass, handler, wired, envVars>>
      PROVE  ProxyInv'
  <2>1. IInv'
    BY <1>0, <1>4, SendOneType, BesideInv DEF envVars
  <2> QED
    BY <1>0, <1>4, <2>1, SendOneType DEF ProxyTypeOK, IInv
<1>5. ASSUME NEW w \in Thread, PersistOne(w),
             UNCHANGED <<jar, loopVars, pass, handler, wired, secret, clock, up, drift>>
      PROVE  ProxyInv'
  <2>1. IInv'
    BY <1>0, <1>5, PersistOneEffect, BesideInv
  <2> QED
    BY <1>0, <1>5, <2>1, PersistOneEffect DEF ProxyTypeOK, IInv
<1>6. CASE ProxyRestarts
  <2>1. IInv'
    BY <1>0, <1>6, BesideInv DEF ProxyRestarts, Fault
  <2>2. thread' \in [Thread -> ThreadRecord]
    BY <1>6, IdleType DEF ProxyRestarts, ProxyStarted
  <2> QED
    BY <2>1, <2>2 DEF ProxyTypeOK, IInv
<1>7. CASE UNCHANGED pvars
  <2>1. IInv'
    BY <1>0, <1>7, NextInv DEF pvars
  <2> QED
    BY <1>0, <1>7, <2>1 DEF pvars, ProxyTypeOK, IInv
<1> QED
  BY <1>1, <1>2, <1>3, <1>4, <1>5, <1>6, <1>7 DEF ProxyNext, ThreadStep

\* The app's inductive invariant survives a second process that writes the same
\* table and the same browsers, whatever the number of its threads.
THEOREM ProxyCorrect == ProxySpec => [](ProxyTypeOK /\ IInv)
<1>1. ProxyInit => ProxyInv
  <2>1. ASSUME ProxyInit PROVE IInv /\ thread \in [Thread -> ThreadRecord]
    BY <2>1, InitInv, IdleType DEF ProxyInit, ProxyStarted
  <2> QED
    BY <2>1 DEF ProxyInv, ProxyTypeOK, IInv
<1>2. ProxyInv => ProxyTypeOK /\ IInv
  BY DEF ProxyInv
<1> QED
  BY <1>1, <1>2, ProxyNextInv, PTL DEF ProxySpec
=============================================================================
