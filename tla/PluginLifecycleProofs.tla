----------------------- MODULE PluginLifecycleProofs -----------------------
(***************************************************************************)
(* Theorems about PluginLifecycle: what the passes of cancelled loops and  *)
(* the pass of the loop that replaced them may do to one row between them, *)
(* for any number of activations, orphans and interruptions.  The orphan   *)
(* is a pass like the app's, so that what CookieReconcileProofs says of a  *)
(* step of one holds of the other; and one that is parked does nothing.    *)
(***************************************************************************)
EXTENDS PluginLifecycle, CookieReconcileProofs, FiniteSetTheorems

Aside == INSTANCE CookieReconcileProofs WITH pass <- orphan, wired <- socket

-----------------------------------------------------------------------------
(* The orphan is a pass: the lemmas about a pass hold of it.               *)

\* What they assume of the constants.
LEMMA AsideAssumptions ==
    /\ None \notin Aside!Row
    /\ None \notin [val: Nat, verdict: Aside!Reason, strikes: Nat]
  BY NoneIsNoRow, NoneIsNoEntry
  DEF Row, Reason, Ttl, Ciphertext, Aside!Row, Aside!Reason, Aside!Ttl, Aside!Ciphertext

\* A step of the orphan is a step of a pass.
LEMMA OrphanIsAPass == Orphan!PassStep => Aside!PassStep
  BY DEF Orphan!PassStep, Aside!PassStep, Orphan!PassPurges, Aside!PassPurges,
         Orphan!PassReads, Aside!PassReads, Orphan!PassConnects, Aside!PassConnects,
         Orphan!PassFindsDead, Aside!PassFindsDead, Orphan!PassAccepted, Aside!PassAccepted,
         Orphan!PassUnanswered, Aside!PassUnanswered, Orphan!PassRejected, Aside!PassRejected,
         Orphan!PassBumps, Aside!PassBumps, Orphan!PassReadsStreak, Aside!PassReadsStreak,
         Orphan!PassQuarantines, Aside!PassQuarantines, Orphan!PassBreaks, Aside!PassBreaks,
         Orphan!Sends, Aside!Sends, Orphan!Advance, Aside!Advance,
         Orphan!PassEnds, Aside!PassEnds, Orphan!Pending, Aside!Pending,
         Orphan!Decrypts, Aside!Decrypts, Orphan!IsPrimary, Aside!IsPrimary,
         Orphan!Primary, Aside!Primary, Orphan!Snapshot, Aside!Snapshot,
         Orphan!ActiveIds, Aside!ActiveIds, Orphan!Stored, Aside!Stored,
         Orphan!DeleteExpired, Aside!DeleteExpired, Orphan!Remove, Aside!Remove,
         Orphan!Past, Aside!Past, Orphan!SetQuarantine, Aside!SetQuarantine,
         Orphan!BumpFailStreak, Aside!BumpFailStreak, Orphan!FailStreak, Aside!FailStreak,
         Orphan!QuarantineDue, Aside!QuarantineDue, Orphan!Threshold, Aside!Threshold,
         Orphan!AsPushed, Aside!AsPushed, Orphan!Outdated, Aside!Outdated,
         Orphan!Put, Aside!Put, Orphan!IdlePass, Aside!IdlePass, Orphan!NoRows, Aside!NoRows,
         Orphan!loopVars, Aside!loopVars, Orphan!envVars, Aside!envVars

\* Its types are the app's, with the orphan for the pass.
LEMMA AsideTypes ==
    /\ LifeTypeOK => Aside!TypeOK
    /\ Aside!TypeOK' => /\ table' \in Table /\ jar' \in [Target -> [Identity -> Nat]]
                        /\ orphan' \in PassRecord /\ socket' \subseteq {"pass", "handler"}
  BY DEF LifeTypeOK, Aside!TypeOK, Aside!Table, Aside!Row, Aside!Reason, Aside!Ttl, Aside!Ciphertext,
         Aside!LoopStage, Aside!PassRecord, Aside!PassStage, Aside!HandlerRecord,
         Aside!HandlerOp, Aside!HandlerStage, Aside!Incoming,
         TypeOK, Table, Row, Reason, Ttl, Ciphertext, LoopStage, PassRecord, PassStage,
         HandlerRecord, HandlerOp, HandlerStage, Incoming

\* What a step of the orphan does to row id.
OrphanMoves(id) ==
    /\ Orphan!MayCount(id)' =>
          \/ Orphan!MayCount(id)
          \/ orphan.at = "read" /\ table[id] # None /\ table[id].reason = "none"
    /\ \/ table'[id] = None
       \/ table[id] # None /\ table'[id] = table[id]
       \/ /\ table[id] # None /\ table'[id].enc = table[id].enc
          /\ table'[id].reason # "none" /\ table'[id].streak = table[id].streak
       \/ /\ table[id] # None /\ table'[id].enc = table[id].enc
          /\ Orphan!MayCount(id) /\ Orphan!Judging(id)'
          /\ table'[id].reason = table[id].reason /\ table'[id].streak = table[id].streak + 1

\* PassType and PassMove, of the orphan.
LEMMA OrphanMove ==
    ASSUME LifeTypeOK, BooksOf(orphan), OrphanStep
    PROVE  /\ LifeTypeOK' /\ BooksOf(orphan)'
           /\ UNCHANGED <<faults, handler, loop, pass, parked, stops>>
           /\ ~Over(orphan)
           /\ orphan'.at \in {"purge", "read"} => orphan.at = "purge"
           /\ \A id \in Identity : OrphanMoves(id)
<1>1. Aside!TypeOK /\ Aside!BooksAreAboutPending /\ Aside!PassStep
  BY OrphanIsAPass, AsideTypes
  DEF OrphanStep, BooksOf, Aside!BooksAreAboutPending, Aside!Pending
<1>2. Aside!TypeOK'
  BY <1>1, Aside!PassType, AsideAssumptions, NoneAssumption, TargetsAssumption,
     InputAssumption, BoundAssumption
<1>3. /\ Aside!BooksAreAboutPending' /\ UNCHANGED <<faults, handler>>
      /\ orphan.at \notin {"idle", "done", "failed"}
      /\ orphan'.at \in {"purge", "read"} => orphan.at = "purge"
      /\ \A id \in Identity : Aside!PassMoves(id)
  BY <1>1, Aside!PassMove, AsideAssumptions, NoneAssumption, TargetsAssumption,
     InputAssumption, BoundAssumption
<1>4. /\ UNCHANGED <<secret, clock, up, loop, reachable, handler, faults, drift>>
      /\ UNCHANGED <<pass, wired, parked, stops>>
  BY DEF OrphanStep, Orphan!PassStep, Orphan!PassPurges, Orphan!PassReads, Orphan!PassConnects,
         Orphan!PassFindsDead, Orphan!PassAccepted, Orphan!PassUnanswered,
         Orphan!PassRejected, Orphan!PassBumps, Orphan!PassReadsStreak,
         Orphan!PassQuarantines, Orphan!PassBreaks, Orphan!loopVars, Orphan!envVars
<1>5. LifeTypeOK'
  BY <1>2, <1>4, AsideTypes DEF LifeTypeOK, TypeOK
<1>6. BooksOf(orphan)'
  BY <1>3 DEF BooksOf, Aside!BooksAreAboutPending, Aside!Pending
<1>7. \A id \in Identity : OrphanMoves(id)
  BY <1>3 DEF OrphanMoves, Aside!PassMoves, Aside!MayCount, Orphan!MayCount,
              Aside!Judging, Orphan!Judging, Aside!Pending, Orphan!Pending
<1> QED
  BY <1>3, <1>4, <1>5, <1>6, <1>7 DEF Over

-----------------------------------------------------------------------------
(* The streaks.                                                            *)

\* A pass that is not under way counts nothing and keeps no books.
LEMMA IdleCounts == BooksOf(IdlePass) /\ \A id \in Identity : CouldCount(IdlePass, id) = FALSE
  BY DEF BooksOf, CouldCount, IdlePass, NoRows

\* Nothing is stored and nobody is at work.
LEMMA LifeInitInv == LifeInit => LifeInv
<1> SUFFICES ASSUME LifeInit PROVE LifeInv
  OBVIOUS
<1>1. /\ TypeOK /\ pass \in PassRecord /\ orphan = pass /\ pass = IdlePass
      /\ Stored(table) = {}
      /\ pass.at = "idle" /\ stops = 0 /\ socket = {}
  BY InitType DEF LifeInit, Init, TypeOK, IdlePass, EmptyTable, Stored
<1>2. parked = [place \in Place |-> NoOrphan]
  BY DEF LifeInit
<1>3. NoOrphan \in [pass: PassRecord, wired: SUBSET {"pass", "handler"}] /\ NoOrphan.pass = IdlePass
  BY <1>1 DEF NoOrphan
<1>4. LifeTypeOK
  BY <1>1, <1>2, <1>3 DEF LifeTypeOK
<1>5. ASSUME NEW id \in Identity PROVE OrphanTurns(id) <= stops
  <2>1. Turns(CouldCount(orphan, id)) = 0
    BY <1>1, IdleCounts DEF Turns
  <2>2. Waiting(id) = {}
    BY <1>2, <1>3, IdleCounts DEF Waiting
  <2>3. Cardinality(Waiting(id)) = 0
    BY <2>2, FS_EmptySet
  <2> QED
    BY <1>1, <2>1, <2>3 DEF OrphanTurns
<1>6. BooksOf(orphan) /\ \A place \in Place : BooksOf(parked[place].pass)
  BY <1>1, <1>2, <1>3 DEF BooksOf
<1> QED
  BY <1>1, <1>4, <1>5, <1>6 DEF LifeInv, OnePassAtATime, BooksAreAboutPending, StreaksLeaveRoom

\* A turn is one rejection counted; who may count no more has none left.
LEMMA TurnsCount ==
    /\ \A may : Turns(may) \in {0, 1}
    /\ \A may, may2 \in BOOLEAN : (may2 => may) => Turns(may2) <= Turns(may)
    /\ Turns(TRUE) = 1 /\ Turns(FALSE) = 0
  BY DEF Turns

\* Who may count is a question with an answer.
LEMMA MayIsBoolean ==
    /\ \A id : MayCount(id) \in BOOLEAN /\ MayCount(id)' \in BOOLEAN
    /\ \A p, id : CouldCount(p, id) \in BOOLEAN
  BY DEF MayCount, CouldCount

\* The orphans that may still count a row are finitely many, before a step and after it.
LEMMA TurnsType ==
    \A id : /\ IsFiniteSet(Waiting(id)) /\ IsFiniteSet(Waiting(id)')
           /\ Cardinality(Waiting(id)) \in Nat /\ Cardinality(Waiting(id)') \in Nat
           /\ OrphanTurns(id) \in Nat /\ OrphanTurns(id)' \in Nat
<1> TAKE id
<1>1. Waiting(id) \subseteq Place /\ Waiting(id)' \subseteq Place
  BY DEF Waiting
<1>2. IsFiniteSet(Waiting(id)) /\ IsFiniteSet(Waiting(id)')
  BY <1>1, PlaceAssumption, FS_Subset
<1>3. Cardinality(Waiting(id)) \in Nat /\ Cardinality(Waiting(id)') \in Nat
  BY <1>2, FS_CardinalityType
<1>4. Turns(CouldCount(orphan, id)) \in Nat /\ Turns(CouldCount(orphan, id))' \in Nat
  BY DEF Turns
<1> QED
  BY <1>2, <1>3, <1>4 DEF OrphanTurns

\* Where every orphan that may count a row could have done so before, no more may.
LEMMA NoMoreTurns ==
    ASSUME NEW id, CouldCount(orphan, id)' => CouldCount(orphan, id),
           \A place \in Place :
              CouldCount(parked[place].pass, id)' => CouldCount(parked[place].pass, id)
    PROVE  OrphanTurns(id)' <= OrphanTurns(id)
<1> DEFINE turn  == Turns(CouldCount(orphan, id))
<1> DEFINE turn2 == Turns(CouldCount(orphan, id)')
<1> DEFINE rest  == Cardinality(Waiting(id))
<1> DEFINE rest2 == Cardinality(Waiting(id)')
<1>1. Waiting(id)' \subseteq Waiting(id)
  BY DEF Waiting
<1>2. rest \in Nat /\ rest2 \in Nat /\ rest2 <= rest
  BY <1>1, TurnsType, FS_Subset
<1>3. turn \in {0, 1} /\ turn2 \in {0, 1} /\ turn2 <= turn
  BY DEF Turns
<1>4. OrphanTurns(id) = turn + rest /\ OrphanTurns(id)' = turn2 + rest2
  BY DEF OrphanTurns, Turns
<1> HIDE DEF turn, turn2, rest, rest2
<1> QED
  BY <1>2, <1>3, <1>4

\* The limit of a streak, before a step and after it.
LEMMA AllowedType ==
    /\ faults \in Nat /\ stops \in Nat => Allowed \in Nat /\ Allowed >= stops + 3
    /\ faults' \in Nat /\ stops' \in Nat => Allowed' \in Nat /\ Allowed' >= stops' + 3
<1>1. \A f \in Nat, s \in Nat : Threshold + f + s \in Nat /\ Threshold + f + s >= s + 3
  BY DEF Threshold
<1> QED
  BY <1>1 DEF Allowed

\* Less to come, and as much room: a streak that fitted still fits.
LEMMA RoomLeft ==
    ASSUME NEW streak \in Nat, NEW all \in Nat, NEW all2 \in Nat,
           NEW turn \in Nat, NEW turn2 \in Nat, NEW more \in {0, 1}, NEW more2 \in {0, 1},
           turn2 <= turn, more2 <= more, all2 >= all, streak + more + turn <= all
    PROVE  /\ streak + more2 + turn2 <= all2
           /\ streak + turn < all \/ all2 > all => streak + turn2 < all2
  OBVIOUS

\* A fresh row has room for a count of every pass.
LEMMA RoomAfresh ==
    ASSUME NEW all \in Nat, NEW turn \in Nat, NEW more \in {0, 1}, NEW ended \in Nat,
           turn <= ended, all >= ended + 3
    PROVE  0 + more + turn <= all /\ 0 + turn < all
  OBVIOUS

\* A step that counts nothing: rows go, start afresh or keep their books; a pass
\* may end, and where the app's ends before its verdict, that is an interruption.
LEMMA NothingCounted ==
    ASSUME LifeInv, LifeTypeOK', Allowed' >= Allowed,
           \A id \in Identity : table'[id] # None =>
              \/ table'[id].reason = "none" /\ table'[id].streak = 0
              \/ /\ table[id] # None
                 /\ table'[id].reason = table[id].reason
                 /\ table'[id].streak = table[id].streak,
           \A id \in Identity : /\ MayCount(id)' => MayCount(id)
                                /\ OrphanTurns(id)' <= OrphanTurns(id)
                                /\ OrphanTurns(id)' <= stops'
                                /\ Judging(id) /\ ~Judging(id)' => Allowed' > Allowed
    PROVE  StreaksLeaveRoom'
<1>0. Allowed \in Nat /\ Allowed' \in Nat /\ stops' \in Nat /\ Allowed' >= stops' + 3
  <2>1. faults \in Nat /\ stops \in Nat /\ faults' \in Nat /\ stops' \in Nat
    BY DEF LifeInv, LifeTypeOK, TypeOK
  <2> QED
    BY <2>1, AllowedType
<1> SUFFICES ASSUME NEW id \in Identity, table'[id] # None
             PROVE  /\ table'[id].streak + Turns(MayCount(id)') + OrphanTurns(id)' <= Allowed'
                    /\ table'[id].reason = "none" /\ ~Judging(id)' =>
                          table'[id].streak + OrphanTurns(id)' < Allowed'
  BY DEF StreaksLeaveRoom, Stored, Turns
<1> DEFINE turn  == OrphanTurns(id)
<1> DEFINE turn2 == OrphanTurns(id)'
<1> DEFINE more  == Turns(MayCount(id))
<1> DEFINE more2 == Turns(MayCount(id)')
<1>1. /\ turn \in Nat /\ turn2 \in Nat /\ turn2 <= turn /\ turn2 <= stops'
      /\ more \in {0, 1} /\ more2 \in {0, 1} /\ more2 <= more
  BY TurnsCount, TurnsType, MayIsBoolean
<1>2. CASE table'[id].reason = "none" /\ table'[id].streak = 0
  <2> HIDE DEF turn, turn2, more, more2
  <2>1. 0 + more2 + turn2 <= Allowed' /\ 0 + turn2 < Allowed'
    BY <1>0, <1>1, RoomAfresh
  <2> QED
    BY <2>1, <1>2 DEF turn2, more2
<1>3. CASE /\ table[id] # None /\ table'[id].reason = table[id].reason
           /\ table'[id].streak = table[id].streak
  <2>1. table[id].streak \in Nat
    BY <1>3 DEF LifeInv, LifeTypeOK, TypeOK, Table, Row
  <2>2. /\ table[id].streak + more + turn <= Allowed
        /\ table[id].reason = "none" /\ ~Judging(id) => table[id].streak + turn < Allowed
    BY <1>3 DEF LifeInv, StreaksLeaveRoom, Stored
  <2> HIDE DEF turn, turn2, more, more2
  <2>3. /\ table[id].streak + more2 + turn2 <= Allowed'
        /\ (table[id].streak + turn < Allowed \/ Allowed' > Allowed) =>
              table[id].streak + turn2 < Allowed'
    BY <1>0, <1>1, <2>1, <2>2, RoomLeft
  <2> QED
    BY <1>3, <2>2, <2>3 DEF turn2, more2
<1> QED
  BY <1>2, <1>3

\* A step of the app's pass takes its turn, if it counts; and leaves an active
\* row alone only where its streak is below the threshold.
LEMMA PassKeepsRoom ==
    ASSUME LifeInv, PassStep, UNCHANGED lifeVars, LifeTypeOK'
    PROVE  StreaksLeaveRoom'
<1>0. /\ Allowed \in Nat /\ Allowed' = Allowed /\ stops \in Nat
      /\ Allowed >= Threshold + stops
  <2>1. faults \in Nat /\ stops \in Nat /\ faults' = faults /\ stops' = stops
    BY PassMove DEF LifeInv, LifeTypeOK, TypeOK, lifeVars
  <2> QED
    BY <2>1 DEF Allowed, Threshold
<1> SUFFICES ASSUME NEW id \in Identity, table'[id] # None
             PROVE  /\ table'[id].streak + Turns(MayCount(id)') + OrphanTurns(id) <= Allowed
                    /\ table'[id].reason = "none" /\ ~Judging(id)' =>
                          table'[id].streak + OrphanTurns(id) < Allowed
  <2>1. \A id \in Identity : OrphanTurns(id)' = OrphanTurns(id)
    BY DEF OrphanTurns, Turns, CouldCount, Waiting, lifeVars
  <2> QED
    BY <1>0, <2>1 DEF StreaksLeaveRoom, Stored, Turns
<1> DEFINE turn  == OrphanTurns(id)
<1> DEFINE more  == Turns(MayCount(id))
<1> DEFINE more2 == Turns(MayCount(id)')
<1>1. /\ turn \in Nat /\ more \in {0, 1} /\ more2 \in {0, 1}
      /\ (MayCount(id)' => MayCount(id)) => more2 <= more
      /\ MayCount(id) => more = 1
      /\ ~MayCount(id)' => more2 = 0
      /\ turn <= stops
  BY TurnsCount, TurnsType, MayIsBoolean DEF LifeInv, Turns
<1>2. PassMoves(id)
  BY PassMove DEF LifeInv, LifeTypeOK
<1>3. /\ table[id] # None
      /\ table[id].streak \in Nat
      /\ table[id].streak + more + turn <= Allowed
      /\ table[id].reason = "none" /\ ~Judging(id) => table[id].streak + turn < Allowed
  BY <1>2 DEF PassMoves, LifeInv, LifeTypeOK, TypeOK, Table, Row, StreaksLeaveRoom, Stored
<1>4. pass.at = "read" => ~Judging(id)
  BY DEF Judging
<1> HIDE DEF turn, more, more2
<1>5. CASE table'[id] = table[id] /\
           (Judging(id) /\ ~Judging(id)' => table[id].reason # "none" \/ table[id].streak < Threshold)
  <2>1. table[id].streak + more2 + turn <= Allowed
    BY <1>0, <1>1, <1>2, <1>3, <1>4 DEF PassMoves
  <2>2. table[id].streak < Threshold => table[id].streak + turn < Allowed
    BY <1>0, <1>1, <1>3 DEF Threshold
  <2> QED
    BY <1>3, <1>5, <2>1, <2>2 DEF turn, more2
<1>6. CASE table'[id].reason # "none" /\ table'[id].streak = table[id].streak
  <2>1. table[id].streak + more2 + turn <= Allowed
    BY <1>0, <1>1, <1>2, <1>3, <1>4 DEF PassMoves
  <2> QED
    BY <1>6, <2>1 DEF turn, more2
<1>7. CASE MayCount(id) /\ Judging(id)' /\ table'[id].streak = table[id].streak + 1
  <2>1. ~MayCount(id)'
    BY <1>7 DEF MayCount, Judging
  <2>2. (table[id].streak + 1) + more2 + turn <= Allowed
    BY <1>0, <1>1, <1>3, <1>7, <2>1
  <2> QED
    BY <1>7, <2>2 DEF turn, more2
<1> QED
  BY <1>2, <1>5, <1>6, <1>7 DEF PassMoves

\* So does a step of the orphan.
LEMMA OrphanKeepsRoom ==
    ASSUME LifeInv, OrphanStep
    PROVE  StreaksLeaveRoom' /\ \A id \in Identity : OrphanTurns(id)' <= OrphanTurns(id)
<1>a. /\ LifeTypeOK /\ BooksOf(orphan)
      /\ \A id \in Identity : OrphanMoves(id)
      /\ UNCHANGED <<pass, faults, parked, stops>>
      /\ orphan'.at \in {"purge", "read"} => orphan.at = "purge"
  BY OrphanMove DEF LifeInv
<1>c. \A id \in Identity :
         /\ CouldCount(orphan, id)  <=> orphan.at \in {"purge", "read"} \/ Orphan!MayCount(id)
         /\ CouldCount(orphan, id)' <=> orphan'.at \in {"purge", "read"} \/ Orphan!MayCount(id)'
  BY DEF CouldCount, Orphan!MayCount, Orphan!Judging, Orphan!Pending
<1>d. \A id \in Identity : CouldCount(orphan, id)' => CouldCount(orphan, id)
  BY <1>a, <1>c DEF OrphanMoves
<1>b. \A id \in Identity : OrphanTurns(id)' <= OrphanTurns(id)
  BY <1>a, <1>d, NoMoreTurns DEF CouldCount
<1>0. Allowed \in Nat /\ Allowed' = Allowed
  <2>1. faults \in Nat /\ stops \in Nat
    BY <1>a DEF LifeTypeOK, TypeOK
  <2> QED
    BY <1>a, <2>1 DEF Allowed, Threshold
<1> SUFFICES ASSUME NEW id \in Identity, table'[id] # None
             PROVE  /\ table'[id].streak + Turns(MayCount(id)) + OrphanTurns(id)' <= Allowed
                    /\ table'[id].reason = "none" /\ ~Judging(id) =>
                          table'[id].streak + OrphanTurns(id)' < Allowed
  BY <1>0, <1>a, <1>b DEF StreaksLeaveRoom, Stored, Turns, MayCount, Judging, Pending
<1> DEFINE turn  == OrphanTurns(id)
<1> DEFINE turn2 == OrphanTurns(id)'
<1> DEFINE more  == Turns(MayCount(id))
<1>1. /\ turn \in Nat /\ turn2 \in Nat /\ more \in {0, 1} /\ turn2 <= turn
      /\ CouldCount(orphan, id) /\ ~CouldCount(orphan, id)' => turn2 + 1 = turn
  <2>1. Cardinality(Waiting(id))' = Cardinality(Waiting(id))
    BY <1>a DEF Waiting, CouldCount
  <2> QED
    BY <1>b, <2>1, TurnsCount, TurnsType, MayIsBoolean DEF OrphanTurns, Turns
<1>2. OrphanMoves(id)
  BY <1>a
<1>3. /\ table[id] # None
      /\ table[id].streak \in Nat
      /\ table[id].streak + more + turn <= Allowed
      /\ table[id].reason = "none" /\ ~Judging(id) => table[id].streak + turn < Allowed
  BY <1>2 DEF OrphanMoves, LifeInv, LifeTypeOK, TypeOK, Table, Row, StreaksLeaveRoom, Stored
<1> HIDE DEF turn, turn2, more
<1>4. CASE /\ table'[id].streak = table[id].streak
           /\ table'[id].reason = "none" => table[id].reason = "none"
  <2>1. /\ table[id].streak + more + turn2 <= Allowed
        /\ table[id].streak + turn < Allowed => table[id].streak + turn2 < Allowed
    BY <1>0, <1>1, <1>3
  <2> QED
    BY <1>3, <1>4, <2>1 DEF turn2, more
<1>5. CASE /\ Orphan!MayCount(id) /\ Orphan!Judging(id)'
           /\ table'[id].reason = table[id].reason /\ table'[id].streak = table[id].streak + 1
  <2>1. CouldCount(orphan, id) /\ ~CouldCount(orphan, id)'
    BY <1>5, <1>c DEF Orphan!MayCount, Orphan!Judging
  <2>2. /\ (table[id].streak + 1) + more + turn2 <= Allowed
        /\ table[id].streak + turn < Allowed => (table[id].streak + 1) + turn2 < Allowed
    BY <1>0, <1>1, <1>3, <2>1
  <2> QED
    BY <1>3, <1>5, <2>2 DEF turn2, more
<1> QED
  BY <1>b, <1>2, <1>4, <1>5 DEF OrphanMoves

-----------------------------------------------------------------------------
(* Every step.                                                             *)

\* An interruption makes room.
LEMMA AllowedGrows ==
    faults \in Nat /\ stops \in Nat /\ faults' \in Nat /\ faults' >= faults /\ stops' = stops
      => Allowed' >= Allowed /\ (faults' > faults => Allowed' > Allowed)
<1> SUFFICES ASSUME NEW f \in Nat, NEW f2 \in Nat, NEW s \in Nat, f2 >= f,
                    faults = f, faults' = f2, stops = s, stops' = s
             PROVE  Allowed' >= Allowed /\ (f2 > f => Allowed' > Allowed)
  OBVIOUS
<1>1. Allowed = Threshold + f + s /\ Allowed' = Threshold + f2 + s
  BY DEF Allowed
<1> QED
  BY <1>1 DEF Threshold

\* Where no orphan moves but to its end, their books stay in order and none of
\* them gains a turn.
LEMMA OrphansStay ==
    ASSUME BooksOf(orphan), \A place \in Place : BooksOf(parked[place].pass),
           orphan' \in {orphan, IdlePass},
           \A place \in Place : parked'[place].pass \in {parked[place].pass, IdlePass}
    PROVE  /\ BooksOf(orphan)' /\ \A place \in Place : BooksOf(parked[place].pass)'
           /\ \A id \in Identity : OrphanTurns(id)' <= OrphanTurns(id)
<1>1. BooksOf(orphan)' /\ \A place \in Place : BooksOf(parked[place].pass)'
  BY DEF BooksOf, IdlePass
<1>2. ASSUME NEW id \in Identity PROVE OrphanTurns(id)' <= OrphanTurns(id)
  <2>1. CouldCount(orphan, id)' => CouldCount(orphan, id)
    BY DEF CouldCount, IdlePass, NoRows
  <2>2. \A place \in Place :
          CouldCount(parked[place].pass, id)' => CouldCount(parked[place].pass, id)
    BY DEF CouldCount, IdlePass, NoRows
  <2> QED
    BY <2>1, <2>2, NoMoreTurns
<1> QED
  BY <1>1, <1>2

\* A step of the core but for the orphan's: TypeOK and OnePassAtATime are the
\* core's; for the rest, the pass moves or somebody else does.
LEMMA CoreStepInv ==
    ASSUME LifeInv,
           \/ LoopStep \/ HandlerRequest \/ HandlerStep \/ Outside
           \/ PassStep /\ UNCHANGED lifeVars,
           stops' = stops, orphan' \in {orphan, IdlePass}, socket' \subseteq {"pass", "handler"},
           parked' \in [Place -> [pass: PassRecord, wired: SUBSET {"pass", "handler"}]],
           \A place \in Place : parked'[place].pass \in {parked[place].pass, IdlePass}
    PROVE  LifeInv'
<1>t. /\ TypeOK /\ OnePassAtATime /\ BooksAreAboutPending /\ LifeTypeOK
      /\ BooksOf(orphan) /\ \A place \in Place : BooksOf(parked[place].pass)
      /\ \A id \in Identity : OrphanTurns(id) <= stops
  BY DEF LifeInv, LifeTypeOK
<1>n. faults \in Nat /\ stops \in Nat /\ stops' \in Nat /\ orphan \in PassRecord
  BY DEF LifeInv, LifeTypeOK, TypeOK
<1>1. TypeOK' /\ OnePassAtATime'
  BY <1>t, LoopType, PassType, RequestType, HandlerType, OutsideType, OnePassInv DEF Next
<1>2. LifeTypeOK'
  <2>1. IdlePass \in PassRecord
    BY TargetsType DEF IdlePass, PassStage, NoRows, Primary, PassRecord
  <2> QED
    BY <1>1, <1>n, <2>1 DEF LifeTypeOK
<1>3. /\ BooksOf(orphan)' /\ \A place \in Place : BooksOf(parked[place].pass)'
      /\ \A id \in Identity : OrphanTurns(id)' <= OrphanTurns(id)
  BY <1>t, OrphansStay
<1>5. \A id \in Identity : OrphanTurns(id)' <= stops'
  <2>1. ASSUME NEW id \in Identity PROVE OrphanTurns(id)' <= stops'
    <3>1. /\ OrphanTurns(id) \in Nat /\ OrphanTurns(id)' \in Nat
          /\ OrphanTurns(id)' <= OrphanTurns(id) /\ OrphanTurns(id) <= stops
      BY <1>3, <1>t, TurnsType
    <3> HIDE DEF OrphanTurns
    <3> QED
      BY <3>1, <1>n
  <2> QED
    BY <2>1
<1>4. CASE PassStep /\ UNCHANGED lifeVars
  BY <1>1, <1>2, <1>3, <1>4, <1>5, <1>t, PassMove, PassKeepsRoom DEF LifeInv
<1>6. CASE LoopStep \/ HandlerRequest \/ HandlerStep \/ Outside
  <2>1. faults' >= faults /\ PassStaysOrEnds /\ \A id \in Identity : RowStays(id)
    <3>2. CASE LoopStep
      BY <1>t, <1>n, <3>2, LoopMove DEF RowStays
    <3>3. CASE HandlerRequest \/ HandlerStep
      BY <1>t, <1>n, <3>3, HandlerMove DEF PassStaysOrEnds
    <3>4. CASE Outside
      BY <1>t, <3>4, OutsideMove
    <3> QED
      BY <1>6, <3>2, <3>3, <3>4
  <2>2. BooksAreAboutPending'
    BY <1>t, <2>1 DEF PassStaysOrEnds, BooksAreAboutPending, Pending
  <2>3. Allowed' >= Allowed /\ (faults' > faults => Allowed' > Allowed)
    <3>1. faults \in Nat /\ stops \in Nat /\ faults' \in Nat /\ faults' >= faults /\ stops' = stops
      BY <1>1, <1>n, <2>1 DEF TypeOK
    <3> QED
      BY <3>1, AllowedGrows
  <2>4. \A id \in Identity : /\ MayCount(id)' => MayCount(id)
                             /\ Judging(id) /\ ~Judging(id)' => Allowed' > Allowed
    BY <2>1, <2>3 DEF PassStaysOrEnds, MayCount, Judging, Pending, NoRows
  <2>5. StreaksLeaveRoom'
    BY <1>2, <1>3, <1>5, <2>1, <2>3, <2>4, NothingCounted DEF RowStays
  <2> QED
    BY <1>1, <1>2, <1>3, <1>5, <2>2, <2>5 DEF LifeInv
<1> QED
  BY <1>4, <1>6

\* What is parked is a pass with its books in order, and the turn of the orphan it was.
LEMMA CurrentIsOrphan ==
    LifeInv => /\ Current \in [pass: PassRecord, wired: SUBSET {"pass", "handler"}]
               /\ BooksOf(Current.pass)
               /\ \A id \in Identity : CouldCount(Current.pass, id) => CouldCount(orphan, id)
<1> SUFFICES ASSUME LifeInv
             PROVE  /\ Current \in [pass: PassRecord, wired: SUBSET {"pass", "handler"}]
                    /\ BooksOf(Current.pass)
                    /\ \A id \in Identity : CouldCount(Current.pass, id) => CouldCount(orphan, id)
  OBVIOUS
<1>1. /\ orphan \in PassRecord /\ socket \subseteq {"pass", "handler"} /\ BooksOf(orphan)
  BY DEF LifeInv, LifeTypeOK
<1>2. IdlePass \in PassRecord
  BY TargetsType DEF IdlePass, PassStage, NoRows, Primary, PassRecord
<1>3. CASE Over(orphan)
  BY <1>2, <1>3, IdleCounts DEF Current, NoOrphan
<1>4. CASE ~Over(orphan)
  BY <1>1, <1>4 DEF Current
<1> QED
  BY <1>3, <1>4

\* The orphan goes to a place, where it counts as it did.
LEMMA ParkingCounts ==
    ASSUME LifeInv, NEW place \in Place, NEW id \in Identity,
           parked' = [parked EXCEPT ![place] = Current]
    PROVE  Cardinality(Waiting(id)') <=
              Cardinality(Waiting(id) \ {place}) + Turns(CouldCount(orphan, id))
<1>t. parked \in [Place -> [pass: PassRecord, wired: SUBSET {"pass", "handler"}]]
  BY DEF LifeInv, LifeTypeOK
<1>1. parked'[place] = Current /\ \A other \in Place \ {place} : parked'[other] = parked[other]
  BY <1>t
<1> DEFINE rest == Waiting(id) \ {place}
<1>2. IsFiniteSet(rest) /\ Cardinality(rest) \in Nat
  BY TurnsType, FS_Subset, FS_CardinalityType
<1>3. Waiting(id)' \subseteq rest \cup {place}
  BY <1>1 DEF Waiting, CouldCount
<1>4. CASE CouldCount(orphan, id)
  <2>1. IsFiniteSet(rest \cup {place}) /\ Cardinality(rest \cup {place}) = Cardinality(rest) + 1
    BY <1>2, FS_AddElement
  <2>2. Cardinality(Waiting(id)') <= Cardinality(rest \cup {place})
    BY <1>3, <2>1, FS_Subset
  <2> QED
    BY <1>4, <2>1, <2>2 DEF Turns
<1>5. CASE ~CouldCount(orphan, id)
  <2>1. Waiting(id)' \subseteq rest
    BY <1>1, <1>3, <1>5, CurrentIsOrphan DEF Waiting, CouldCount
  <2>2. Cardinality(Waiting(id)') <= Cardinality(rest)
    BY <1>2, <2>1, FS_Subset
  <2> QED
    BY <1>2, <1>5, <2>2, TurnsType DEF Turns
<1> QED
  BY <1>4, <1>5

\* Another orphan's turn: the same turns, in other places.
LEMMA SwitchInv == ASSUME LifeInv, Switch PROVE LifeInv'
<1>1. PICK place \in Place : /\ ~Over(parked[place].pass)
                              /\ orphan' = parked[place].pass
                              /\ socket' = parked[place].wired
                              /\ parked' = [parked EXCEPT ![place] = Current]
  BY DEF Switch
<1>t. /\ LifeTypeOK /\ TypeOK /\ OnePassAtATime /\ BooksAreAboutPending /\ StreaksLeaveRoom
      /\ \A other \in Place : BooksOf(parked[other].pass)
      /\ \A id \in Identity : OrphanTurns(id) <= stops
      /\ parked \in [Place -> [pass: PassRecord, wired: SUBSET {"pass", "handler"}]]
      /\ UNCHANGED <<table, secret, clock, up, jar, loop, reachable, pass, handler>>
      /\ UNCHANGED <<wired, faults, drift, stops>>
      /\ stops \in Nat /\ faults \in Nat
  BY DEF LifeInv, LifeTypeOK, TypeOK, Switch, vars
<1>2. LifeTypeOK'
  BY <1>1, <1>t, CurrentIsOrphan DEF LifeTypeOK, TypeOK
<1>3. /\ BooksOf(orphan)' /\ \A other \in Place : BooksOf(parked[other].pass)'
  BY <1>1, <1>t, CurrentIsOrphan DEF BooksOf
<1>4. ASSUME NEW id \in Identity PROVE OrphanTurns(id)' <= OrphanTurns(id)
  <2> DEFINE w == Waiting(id)
  <2>1. Cardinality(w') <= Cardinality(w \ {place}) + Turns(CouldCount(orphan, id))
    BY <1>1, ParkingCounts
  <2>2. /\ IsFiniteSet(w) /\ Cardinality(w) \in Nat /\ Cardinality(w') \in Nat
        /\ Cardinality(w \ {place}) = IF place \in w THEN Cardinality(w) - 1 ELSE Cardinality(w)
    BY TurnsType, FS_RemoveElement
  <2>3. CouldCount(orphan, id)' = CouldCount(parked[place].pass, id)
    BY <1>1 DEF CouldCount
  <2>4. place \in w <=> CouldCount(parked[place].pass, id)
    BY DEF Waiting
  <2>5. Turns(CouldCount(orphan, id))' = IF place \in w THEN 1 ELSE 0
    BY <2>3, <2>4 DEF Turns
  <2>6. Turns(CouldCount(orphan, id)) \in {0, 1}
    BY DEF Turns
  <2> HIDE DEF w
  <2>7. Turns(CouldCount(orphan, id))' + Cardinality(w') <=
            Turns(CouldCount(orphan, id)) + Cardinality(w)
    BY <2>1, <2>2, <2>5, <2>6
  <2> QED
    BY <2>7 DEF OrphanTurns, w
<1>5. \A id \in Identity : OrphanTurns(id)' <= stops'
  <2>1. ASSUME NEW id \in Identity PROVE OrphanTurns(id)' <= stops'
    <3>1. /\ OrphanTurns(id) \in Nat /\ OrphanTurns(id)' \in Nat
          /\ OrphanTurns(id)' <= OrphanTurns(id) /\ OrphanTurns(id) <= stops
      BY <1>4, <1>t, TurnsType
    <3> QED
      BY <3>1, <1>t
  <2> QED
    BY <2>1
<1>6. Allowed' >= Allowed
  BY <1>t, AllowedGrows
<1>7. StreaksLeaveRoom'
  BY <1>2, <1>4, <1>5, <1>6, <1>t, NothingCounted DEF MayCount, Judging, Pending
<1> QED
  BY <1>2, <1>3, <1>5, <1>7, <1>t DEF LifeInv, OnePassAtATime, BooksAreAboutPending, Pending

\* The app's pass becomes the orphan, with what it may still do to a row: that
\* is what the deactivation pays for.
LEMMA DeactivateInv == ASSUME LifeInv, Deactivate PROVE LifeInv'
<1>p. PICK place \in Place : parked' = [parked EXCEPT ![place] = Current]
  BY DEF Deactivate
<1>t. /\ LifeTypeOK /\ TypeOK /\ BooksAreAboutPending /\ StreaksLeaveRoom
      /\ \A other \in Place : BooksOf(parked[other].pass)
      /\ \A id \in Identity : OrphanTurns(id) <= stops
      /\ parked \in [Place -> [pass: PassRecord, wired: SUBSET {"pass", "handler"}]]
      /\ orphan' = pass /\ socket' = wired /\ pass' = IdlePass
      /\ UNCHANGED <<table, faults>> /\ stops' = stops + 1 /\ stops \in Nat /\ faults \in Nat
  BY DEF LifeInv, LifeTypeOK, TypeOK, Deactivate, envVars
<1>1. IdlePass \in PassRecord /\ [at |-> "sleep", i |-> 1] \in [at: LoopStage, i: 1..Len(Targets)]
  BY TargetsType, TargetsAssumption
  DEF IdlePass, PassStage, NoRows, Primary, PassRecord, LoopStage
<1>2. LifeTypeOK'
  BY <1>1, <1>t, <1>p, CurrentIsOrphan DEF Deactivate, LifeTypeOK, TypeOK, envVars
<1>3. /\ OnePassAtATime' /\ BooksAreAboutPending' /\ BooksOf(orphan)'
      /\ \A other \in Place : BooksOf(parked[other].pass)'
  BY <1>t, <1>p, CurrentIsOrphan DEF OnePassAtATime, BooksAreAboutPending, Pending, IdlePass, BooksOf
<1>4. Allowed \in Nat /\ Allowed' = Allowed + 1
  BY <1>t DEF Allowed, Threshold
<1>6. ASSUME NEW id \in Identity
      PROVE  /\ OrphanTurns(id)' <= OrphanTurns(id) + 1
             /\ ~CouldCount(pass, id) => OrphanTurns(id)' <= OrphanTurns(id)
  <2> DEFINE w == Waiting(id)
  <2>1. Cardinality(w') <= Cardinality(w \ {place}) + Turns(CouldCount(orphan, id))
    BY <1>p, ParkingCounts
  <2>2. /\ IsFiniteSet(w) /\ Cardinality(w) \in Nat /\ Cardinality(w') \in Nat
        /\ Cardinality(w \ {place}) = IF place \in w THEN Cardinality(w) - 1 ELSE Cardinality(w)
    BY TurnsType, FS_RemoveElement
  <2>3. Turns(CouldCount(orphan, id))' = Turns(CouldCount(pass, id))
    BY <1>t DEF Turns, CouldCount
  <2>4. /\ Turns(CouldCount(orphan, id)) \in {0, 1} /\ Turns(CouldCount(pass, id)) \in {0, 1}
        /\ ~CouldCount(pass, id) => Turns(CouldCount(pass, id)) = 0
    BY DEF Turns
  <2>5. /\ OrphanTurns(id) = Turns(CouldCount(orphan, id)) + Cardinality(w)
        /\ OrphanTurns(id)' = Turns(CouldCount(pass, id)) + Cardinality(w')
    BY <2>3 DEF OrphanTurns
  <2> HIDE DEF w
  <2> QED
    BY <2>1, <2>2, <2>4, <2>5
<1>7. \A id \in Identity : OrphanTurns(id)' <= stops'
  <2>1. ASSUME NEW id \in Identity PROVE OrphanTurns(id)' <= stops'
    <3>1. /\ OrphanTurns(id) \in Nat /\ OrphanTurns(id)' \in Nat
          /\ OrphanTurns(id)' <= OrphanTurns(id) + 1 /\ OrphanTurns(id) <= stops
      BY <1>6, <1>t, TurnsType
    <3> QED
      BY <3>1, <1>t
  <2> QED
    BY <2>1
<1>5. StreaksLeaveRoom'
  <2> SUFFICES ASSUME NEW id \in Identity, table[id] # None
               PROVE  /\ table[id].streak + Turns(MayCount(id)') + OrphanTurns(id)' <= Allowed'
                      /\ table[id].reason = "none" =>
                            table[id].streak + OrphanTurns(id)' < Allowed'
    BY <1>t DEF StreaksLeaveRoom, Stored, Turns
  <2> DEFINE turn  == OrphanTurns(id)
  <2> DEFINE turn2 == OrphanTurns(id)'
  <2> DEFINE more  == Turns(MayCount(id))
  <2>1. ~MayCount(id)'
    BY <1>t DEF IdlePass, NoRows, MayCount, Pending
  <2>2. Judging(id) => ~CouldCount(pass, id)
    BY DEF CouldCount, Judging
  <2>3. /\ turn \in Nat /\ turn2 \in Nat /\ turn2 <= turn + 1
        /\ more \in {0, 1} /\ Turns(MayCount(id)') = 0
        /\ MayCount(id) => more = 1
        /\ ~CouldCount(pass, id) => turn2 <= turn
        /\ Judging(id) => turn2 <= turn
    BY <1>6, <2>1, <2>2, TurnsType DEF Turns
  <2>4. /\ table[id].streak \in Nat
        /\ table[id].streak + more + turn <= Allowed
        /\ table[id].reason = "none" /\ ~Judging(id) => table[id].streak + turn < Allowed
    BY <1>t DEF LifeTypeOK, TypeOK, Table, Row, StreaksLeaveRoom, Stored
  <2> HIDE DEF turn, turn2, more
  <2>5. /\ table[id].streak + 0 + turn2 <= Allowed'
        /\ table[id].reason = "none" => table[id].streak + turn2 < Allowed'
    BY <1>4, <2>3, <2>4
  <2> QED
    BY <2>3, <2>5 DEF turn2
<1> QED
  BY <1>2, <1>3, <1>5, <1>7 DEF LifeInv

\* Every step keeps the invariant.
LEMMA LifeNextInv == ASSUME LifeInv, [LifeNext]_allVars PROVE LifeInv'
<1>t. /\ LifeTypeOK /\ stops \in Nat
      /\ orphan \in PassRecord /\ socket \subseteq {"pass", "handler"}
      /\ parked \in [Place -> [pass: PassRecord, wired: SUBSET {"pass", "handler"}]]
  BY DEF LifeInv, LifeTypeOK
<1>1. CASE AppRuns
  BY <1>1, <1>t, CoreStepInv DEF AppRuns, lifeVars
<1>2. CASE Deactivate
  BY <1>2, DeactivateInv
<1>3. CASE OrphanStep
  <2>1. /\ LifeTypeOK' /\ BooksOf(orphan)' /\ UNCHANGED <<loop, pass, parked, stops>>
    BY <1>3, OrphanMove DEF LifeInv
  <2>2. StreaksLeaveRoom' /\ \A id \in Identity : OrphanTurns(id)' <= OrphanTurns(id)
    BY <1>3, OrphanKeepsRoom
  <2>3. ASSUME NEW id \in Identity PROVE OrphanTurns(id)' <= stops'
    <3>1. /\ OrphanTurns(id) \in Nat /\ OrphanTurns(id)' \in Nat /\ stops' = stops
          /\ OrphanTurns(id)' <= OrphanTurns(id) /\ OrphanTurns(id) <= stops
      BY <2>1, <2>2, TurnsType DEF LifeInv
    <3> QED
      BY <3>1, <1>t
  <2> QED
    BY <2>1, <2>2, <2>3 DEF LifeInv, OnePassAtATime, BooksAreAboutPending, Pending, BooksOf
<1>4. CASE LifeOutside
  <2> DEFINE Parked == [Place -> [pass: PassRecord, wired: SUBSET {"pass", "handler"}]]
  <2>1. CASE /\ Outside /\ stops' = stops
             /\ orphan' \in {orphan, IdlePass} /\ socket' \in {socket, {}}
             /\ \/ parked' = parked
                \/ \E t \in Target : parked' = Cut(t)
                \/ parked' = [place \in Place |-> NoOrphan]
    <3>1. IdlePass \in PassRecord
      BY TargetsType DEF IdlePass, PassStage, NoRows, Primary, PassRecord
    <3>2. /\ parked' \in Parked
          /\ \A place \in Place : parked'[place].pass \in {parked[place].pass, IdlePass}
      BY <1>t, <2>1, <3>1 DEF Cut, NoOrphan
    <3> QED
      BY <2>1, <3>2, <1>t, CoreStepInv
  <2>2. CASE Orphan!PassFails /\ UNCHANGED <<pass, wired, active, parked, stops>>
    <3>1. /\ faults' = faults + 1 /\ orphan.at \notin {"idle", "done", "failed"}
          /\ orphan' = [IdlePass EXCEPT !.at = "failed", !.target = orphan.target]
          /\ socket' \subseteq socket
          /\ UNCHANGED <<table, secret, clock, up, jar, loop, reachable, handler, drift>>
          /\ UNCHANGED <<pass, wired, parked, stops>>
      BY <2>2 DEF Orphan!PassFails, Orphan!Fault, Orphan!PassEnds, Orphan!IdlePass, Orphan!NoRows,
                  Orphan!loopVars, IdlePass, NoRows
    <3>2. orphan' \in PassRecord /\ orphan'.at = "failed" /\ orphan'.rows = NoRows
      BY <1>t, <3>1 DEF IdlePass, NoRows, PassRecord, PassStage
    <3>3. LifeTypeOK'
      BY <1>t, <3>1, <3>2 DEF LifeTypeOK, TypeOK
    <3>4. /\ BooksOf(orphan)' /\ \A place \in Place : BooksOf(parked[place].pass)'
          /\ OnePassAtATime' /\ BooksAreAboutPending'
      BY <3>1, <3>2 DEF BooksOf, LifeInv, OnePassAtATime, BooksAreAboutPending, Pending
    <3>7. ASSUME NEW id \in Identity
          PROVE  OrphanTurns(id)' <= OrphanTurns(id) /\ OrphanTurns(id)' <= stops'
      <4>1. ~CouldCount(orphan, id)'
        BY <3>2 DEF CouldCount, NoRows
      <4>2. OrphanTurns(id)' <= OrphanTurns(id)
        BY <3>1, <4>1, NoMoreTurns DEF CouldCount
      <4>3. /\ OrphanTurns(id) \in Nat /\ OrphanTurns(id)' \in Nat /\ stops' = stops
            /\ OrphanTurns(id) <= stops
        BY <3>1, TurnsType DEF LifeInv
      <4> QED
        BY <1>t, <4>2, <4>3
    <3>5. Allowed' >= Allowed
      BY <1>t, <3>1, AllowedGrows DEF LifeTypeOK, TypeOK
    <3>6. StreaksLeaveRoom'
      BY <3>1, <3>3, <3>5, <3>7, NothingCounted DEF MayCount, Judging, Pending
    <3> QED
      BY <3>3, <3>4, <3>6, <3>7 DEF LifeInv
  <2> QED
    BY <1>4, <2>1, <2>2 DEF LifeOutside, Outside, lifeVars
<1>5. CASE UNCHANGED allVars \/ Activate
  <2>1. UNCHANGED <<vars, orphan, socket, parked, stops>>
    BY <1>5 DEF allVars, lifeVars, Activate
  <2>2. \A id : OrphanTurns(id)' = OrphanTurns(id)
    BY <2>1 DEF OrphanTurns, Turns, CouldCount, Waiting
  <2> QED
    BY <2>1, <2>2 DEF vars, LifeInv, LifeTypeOK, TypeOK, OnePassAtATime, BooksAreAboutPending,
                Pending, BooksOf, Turns, StreaksLeaveRoom, Stored, MayCount, Judging, Allowed
<1>6. CASE Switch
  BY <1>6, SwitchInv
<1> QED
  BY <1>1, <1>2, <1>3, <1>4, <1>5, <1>6 DEF LifeNext

\* The inductive invariant.
THEOREM LifeCorrect == LifeSpec => []LifeInv
<1>1. LifeInit => LifeInv
  BY LifeInitInv
<1>2. LifeInv /\ [LifeNext]_allVars => LifeInv'
  BY LifeNextInv
<1> QED
  BY <1>1, <1>2, PTL DEF LifeSpec

\* However often the app is switched off and on in the middle of a pass, a row's
\* streak outgrows the threshold by the interruptions at most (plugin.py,
\* deactivate; routes.py, the three statements of the pass).
THEOREM StreakBesideCorrect == LifeSpec => []StreakBoundedBeside
<1>1. LifeInv => StreakBoundedBeside
  <2> SUFFICES ASSUME LifeInv, NEW id \in Stored(table)
               PROVE  table[id].streak <= Threshold + faults + stops
    BY DEF StreakBoundedBeside
  <2>1. Allowed \in Nat /\ table[id].streak \in Nat
    BY DEF LifeInv, LifeTypeOK, TypeOK, Allowed, Threshold, Table, Row, Stored
  <2>2. table[id].streak + Turns(MayCount(id)) + OrphanTurns(id) <= Allowed
    BY DEF LifeInv, StreaksLeaveRoom
  <2>3. Turns(MayCount(id)) \in {0, 1} /\ OrphanTurns(id) \in Nat
    BY TurnsCount, TurnsType
  <2>4. table[id].streak <= Allowed
    BY <2>1, <2>2, <2>3
  <2> QED
    BY <2>4 DEF Allowed
<1> QED
  BY <1>1, LifeCorrect, PTL

\* No pass makes a row it or another has judged active again, or touches the value
\* that was judged.
LEMMA VerdictStays ==
    ASSUME LifeInv, [LifeNext]_allVars, handler' = handler, NEW id \in Stored(table),
           table[id].reason # "none", table'[id] # None
    PROVE  table'[id].reason # "none" /\ table'[id].enc = table[id].enc
<1>t. /\ TypeOK /\ LifeTypeOK /\ OnePassAtATime /\ BooksAreAboutPending
      /\ BooksOf(orphan) /\ id \in Identity /\ table[id] # None
  BY DEF LifeInv, LifeTypeOK, Stored
<1>1. ASSUME RowStays(id) PROVE table'[id].reason = table[id].reason /\ table'[id].enc = table[id].enc
  BY <1>1 DEF RowStays
<1>2. CASE table'[id] = table[id]
  BY <1>2
<1>3. CASE LoopStep \/ HandlerRequest \/ HandlerStep \/ Outside
  BY <1>t, <1>1, <1>2, <1>3, LoopMove, HandlerMove, OutsideMove
<1>4. CASE PassStep
  BY <1>t, <1>4, PassMove DEF PassMoves
<1>5. CASE OrphanStep
  BY <1>t, <1>5, OrphanMove DEF OrphanMoves
<1>6. CASE Orphan!PassFails
  BY <1>2, <1>6 DEF Orphan!PassFails
<1> QED
  BY <1>2, <1>3, <1>4, <1>5, <1>6
  DEF LifeNext, AppRuns, Deactivate, Activate, Switch, LifeOutside, Outside, allVars, vars

\* In every step of every behaviour: a quarantined row is made active by a request
\* only, and the value judged stays (routes.py, the pass: it may still change the
\* reason, from a rejection to a key that is lost).
THEOREM VerdictsCorrect == LifeSpec => VerdictsStand
<1> DEFINE Stands == \A id \in Stored(table) :
                       table[id].reason # "none" /\ table'[id] # None /\ handler' = handler
                         => table'[id].reason # "none" /\ table'[id].enc = table[id].enc
<1>1. LifeInv /\ [LifeNext]_allVars => [Stands]_allVars
  BY VerdictStays
<1>2. (LifeSpec => []LifeInv) => (LifeSpec => [][Stands]_allVars)
  BY <1>1, PTL DEF LifeSpec
<1> QED
  BY <1>2, LifeCorrect DEF VerdictsStand
=============================================================================
