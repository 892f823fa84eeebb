--------------------------- MODULE KeyGuardProofs ---------------------------
(***************************************************************************)
(* Proofs about the encryption key: its inductive invariant, for any       *)
(* cookies, sources and requests and any number of glitches and database   *)
(* errors, and the four properties that follow.                            *)
(***************************************************************************)
EXTENDS KeyGuard, TLAPS

\* What a row, a signature and a visit may be when n keys have been made.
Ciphers(n) == {Nothing} \cup 0..n
CallerStates(n) == [at: {"idle", "read", "guard", "write", "use", "refused"}, key: 0..n]

\* Making a key invalidates the type of nothing that is there.
LEMMA CiphersGrow ==
    ASSUME NEW n \in Nat
    PROVE  Ciphers(n) \subseteq Ciphers(n + 1) /\ CallerStates(n) \subseteq CallerStates(n + 1)
  BY DEF Ciphers, CallerStates

\* Nobody has asked for a key at first.
LEMMA KeyInitInv == KeyInit => KeyInv
  <1> SUFFICES ASSUME KeyInit PROVE KeyInv
    OBVIOUS
  <1> USE DEF KeyInit, Idle, Empty, Thread
  <1>1. madeBy \in Seq(Thread) /\ Len(madeBy) = 0 /\ job \in Seq(Items)
    OBVIOUS
  <1>2. KeyTypeOK
    BY <1>1 DEF KeyTypeOK
  <1>3. CallersAgree /\ NoGlitchYet /\ GuardHolds
    BY <1>1, NothingAssumption DEF CallersAgree, NoGlitchYet, GuardHolds
  <1>4. OneKeyWithoutGlitch /\ CookiesStayReadable
    BY <1>1 DEF OneKeyWithoutGlitch, CookiesStayReadable
  <1> QED BY <1>2, <1>3, <1>4 DEF KeyInv

USE DEF KeyInv, Thread, stores, bounds

-----------------------------------------------------------------------------
\* The key is looked up: what is read is the key, or a glitch is counted.
LEMMA ReadInv == ASSUME KeyInv, NEW who \in Thread, KeyRead(who) PROVE KeyInv'
  <1> USE DEF KeyRead
  <1>1. PICK key \in {secretKey, 0} :
            /\ glitches' = IF key = secretKey THEN glitches ELSE glitches + 1
            /\ caller' = [caller EXCEPT ![who] =
                             [at |-> IF key = 0 THEN "guard" ELSE "use", key |-> key]]
    OBVIOUS
  <1>2. key \in 0..Len(madeBy) /\ glitches' \in Nat
    BY <1>1 DEF KeyTypeOK, CallersAgree
  <1>3. KeyTypeOK'
    BY <1>1, <1>2 DEF KeyTypeOK
  <1>4. CallersAgree'
    BY <1>1, <1>2 DEF CallersAgree, KeyTypeOK, Needs, Item
  <1>5. NoGlitchYet'
    BY <1>1, <1>2 DEF NoGlitchYet, CallersAgree, KeyTypeOK
  <1>6. GuardHolds'
    BY <1>1, <1>2 DEF GuardHolds, CallersAgree, KeyTypeOK, HandlerMadeAll, Empty
  <1>7. (OneKeyWithoutGlitch /\ CookiesStayReadable)'
    BY <1>1, <1>2 DEF OneKeyWithoutGlitch, CookiesStayReadable, HandlerMadeAll, KeyTypeOK
  <1> QED BY <1>3, <1>4, <1>5, <1>6, <1>7

\* The guard lets a caller write only when the table is empty, or unreadable.
LEMMA GuardedInv == ASSUME KeyInv, NEW who \in Thread, KeyGuarded(who) PROVE KeyInv'
  <1> USE DEF KeyGuarded
  <1>1. PICK at \in {"refused", "write"} :
            /\ caller' = [caller EXCEPT ![who].at = at]
            /\ at = "write" => dbErrors' > 0 \/ rows = Empty
    BY DEF TableHasRows, KeyTypeOK
  <1>2. dbErrors' \in Nat /\ (dbErrors' = 0 => dbErrors = 0)
    BY DEF KeyTypeOK
  <1>3. KeyTypeOK'
    BY <1>1, <1>2 DEF KeyTypeOK
  <1>4. CallersAgree'
    BY <1>1 DEF CallersAgree, KeyTypeOK, Needs, Item
  <1>5. NoGlitchYet'
    BY <1>1 DEF NoGlitchYet, KeyTypeOK
  <1>6. GuardHolds'
    BY <1>1, <1>2 DEF GuardHolds, KeyTypeOK, HandlerMadeAll, Empty
  <1>7. (OneKeyWithoutGlitch /\ CookiesStayReadable)'
    BY <1>2 DEF OneKeyWithoutGlitch, CookiesStayReadable, HandlerMadeAll
  <1> QED BY <1>3, <1>4, <1>5, <1>6, <1>7

\* A key is made: without a glitch it is the first one, by the handler; and if
\* the handler made them all, the table is empty.
LEMMA WrittenInv == ASSUME KeyInv, NEW who \in Thread, KeyWritten(who) PROVE KeyInv'
  <1> USE DEF KeyWritten
  <1> DEFINE n == Len(madeBy)
  <1>1. /\ madeBy' \in Seq(Thread) /\ Len(madeBy') = n + 1 /\ n \in Nat
        /\ \A i \in DOMAIN madeBy : i \in DOMAIN madeBy' /\ madeBy'[i] = madeBy[i]
        /\ n + 1 \in DOMAIN madeBy' /\ madeBy'[n + 1] = who
    BY DEF KeyTypeOK
  <1>2. HandlerMadeAll' => HandlerMadeAll /\ who = "handler"
    BY <1>1 DEF HandlerMadeAll
  <1>3. KeyTypeOK'
    <2>1. rows' \in [Cookie -> Ciphers(n + 1)] /\ visit' \in [Cookie -> Ciphers(n + 1)]
          /\ signatures' \in [Source -> Ciphers(n + 1)]
      BY <1>1, CiphersGrow DEF KeyTypeOK, Ciphers
    <2>2. caller' \in [Thread -> CallerStates(n + 1)]
      <3>1. [at |-> "use", key |-> n + 1] \in CallerStates(n + 1)
        BY <1>1 DEF CallerStates
      <3>2. caller \in [Thread -> CallerStates(n + 1)]
        BY <1>1, CiphersGrow DEF KeyTypeOK, CallerStates
      <3> QED BY <1>1, <3>1, <3>2
    <2>3. secretKey' \in 0..(n + 1)
      BY <1>1
    <2> QED BY <1>1, <2>1, <2>2, <2>3 DEF KeyTypeOK, Ciphers, CallerStates
  <1>4. CallersAgree'
    BY <1>1 DEF CallersAgree, KeyTypeOK, Needs, Item
  <1>5. glitches = 0 => who = "handler" /\ n = 0 /\ caller["pass"].at = "idle"
    BY DEF NoGlitchYet, CallersAgree, KeyTypeOK
  <1>6. NoGlitchYet'
    BY <1>1, <1>5 DEF NoGlitchYet, CallersAgree, KeyTypeOK
  <1>7. GuardHolds'
    BY <1>1, <1>2 DEF GuardHolds, KeyTypeOK, Empty
  <1>8. OneKeyWithoutGlitch'
    BY <1>1, <1>5, NothingAssumption
    DEF OneKeyWithoutGlitch, KeyTypeOK, CallersAgree
  <1>9. CookiesStayReadable'
    BY <1>1, <1>2 DEF CookiesStayReadable, GuardHolds, Empty
  <1> QED BY <1>3, <1>4, <1>6, <1>7, <1>8, <1>9

-----------------------------------------------------------------------------
\* The first item of a request, and what is left after it.
LEMMA ItemType ==
    ASSUME KeyInv, job # <<>>
    PROVE  Item \in Items /\ Tail(job) \in Seq(Items)
  BY DEF KeyTypeOK, Item

\* A request arrives.
LEMMA RequestInv == ASSUME KeyInv, Request PROVE KeyInv'
  <1> USE DEF Request
  <1>1. KeyTypeOK'
    BY JobsAssumption DEF KeyTypeOK
  <1>2. CallersAgree'
    BY DEF CallersAgree, KeyTypeOK
  <1>3. (NoGlitchYet /\ GuardHolds /\ OneKeyWithoutGlitch /\ CookiesStayReadable)'
    BY DEF NoGlitchYet, GuardHolds, OneKeyWithoutGlitch, CookiesStayReadable, HandlerMadeAll
  <1> QED BY <1>1, <1>2, <1>3

\* The handler asks for the key.
LEMMA NeedsKeyInv == ASSUME KeyInv, ItemNeedsKey PROVE KeyInv'
  <1> USE DEF ItemNeedsKey, Calls
  <1>1. KeyTypeOK'
    BY DEF KeyTypeOK
  <1>2. CallersAgree'
    BY DEF CallersAgree, KeyTypeOK, Needs, Item
  <1>3. (NoGlitchYet /\ GuardHolds)'
    BY DEF NoGlitchYet, GuardHolds, KeyTypeOK, HandlerMadeAll
  <1>4. (OneKeyWithoutGlitch /\ CookiesStayReadable)'
    BY DEF OneKeyWithoutGlitch, CookiesStayReadable, HandlerMadeAll
  <1> QED BY <1>1, <1>2, <1>3, <1>4

\* A cookie without a value, or an emptied store.
LEMMA NeedsNoneInv == ASSUME KeyInv, ItemNeedsNone PROVE KeyInv'
  <1> USE DEF ItemNeedsNone
  <1>1. Item \in Items /\ Tail(job) \in Seq(Items)
    BY ItemType
  <1>2. caller["handler"].at = "idle"
    BY DEF CallersAgree
  <1>3. rows' \in [Cookie -> Ciphers(Len(madeBy))]
        /\ \A c \in Cookie : rows'[c] \in {Nothing, 0, rows[c]}
    BY <1>1 DEF Ciphers, Items, Needs, Empty, KeyTypeOK
  <1>4. KeyTypeOK'
    BY <1>1, <1>3 DEF KeyTypeOK, Ciphers
  <1>5. CallersAgree'
    BY <1>2 DEF CallersAgree, KeyTypeOK
  <1>6. (NoGlitchYet /\ GuardHolds)'
    BY <1>2 DEF NoGlitchYet, GuardHolds, KeyTypeOK, HandlerMadeAll
  <1>7. (OneKeyWithoutGlitch /\ CookiesStayReadable)'
    BY <1>3 DEF OneKeyWithoutGlitch, CookiesStayReadable, HandlerMadeAll
  <1> QED BY <1>4, <1>5, <1>6, <1>7

\* What is written is under the key the handler holds.
LEMMA DoneInv == ASSUME KeyInv, ItemDone PROVE KeyInv'
  <1> USE DEF ItemDone, Leaves, Idle
  <1> DEFINE key == caller["handler"].key
  <1>1. Item \in Items /\ Tail(job) \in Seq(Items)
    BY ItemType DEF CallersAgree
  <1>2. key \in 0..Len(madeBy) /\ key # 0
    BY DEF KeyTypeOK, CallersAgree
  <1>3. rows' \in [Cookie -> Ciphers(Len(madeBy))]
        /\ \A c \in Cookie : rows'[c] \in {rows[c], key}
    BY <1>1, <1>2 DEF Ciphers, Items, KeyTypeOK
  <1>4. signatures' \in [Source -> Ciphers(Len(madeBy))]
        /\ \A s \in Source : signatures'[s] \in {signatures[s], key}
    BY <1>1, <1>2 DEF Ciphers, Items, KeyTypeOK
  <1>5. KeyTypeOK'
    BY <1>1, <1>3, <1>4 DEF KeyTypeOK, Ciphers
  <1>6. CallersAgree'
    BY <1>2, <1>4 DEF CallersAgree, KeyTypeOK
  <1>7. (NoGlitchYet /\ GuardHolds)'
    BY DEF NoGlitchYet, GuardHolds, KeyTypeOK, HandlerMadeAll
  <1>8. (OneKeyWithoutGlitch /\ CookiesStayReadable)'
    BY <1>3, <1>4
    DEF OneKeyWithoutGlitch, CookiesStayReadable, HandlerMadeAll, NoGlitchYet, GuardHolds
  <1> QED BY <1>5, <1>6, <1>7, <1>8

\* The handler is refused a key.
LEMMA RefusedInv == ASSUME KeyInv, ItemRefused PROVE KeyInv'
  <1> USE DEF ItemRefused, Leaves, Idle
  <1>1. Tail(job) \in Seq(Items)
    BY ItemType DEF CallersAgree
  <1>2. KeyTypeOK'
    BY <1>1 DEF KeyTypeOK
  <1>3. CallersAgree'
    BY DEF CallersAgree, KeyTypeOK
  <1>4. (NoGlitchYet /\ GuardHolds /\ OneKeyWithoutGlitch /\ CookiesStayReadable)'
    BY DEF NoGlitchYet, GuardHolds, OneKeyWithoutGlitch, CookiesStayReadable,
           HandlerMadeAll, KeyTypeOK
  <1> QED BY <1>2, <1>3, <1>4

-----------------------------------------------------------------------------
\* A pass takes its snapshot.
LEMMA SnapshotInv == ASSUME KeyInv, PassSnapshots PROVE KeyInv'
  <1> USE DEF PassSnapshots
  <1>1. KeyTypeOK' /\ CallersAgree'
    BY DEF KeyTypeOK, CallersAgree, Needs, Item
  <1>2. (NoGlitchYet /\ GuardHolds /\ OneKeyWithoutGlitch /\ CookiesStayReadable)'
    BY DEF NoGlitchYet, GuardHolds, OneKeyWithoutGlitch, CookiesStayReadable, HandlerMadeAll
  <1> QED BY <1>1, <1>2

\* The pass asks for a key only for what has been encrypted under one.
LEMMA DeciphersInv == ASSUME KeyInv, PassDeciphers PROVE KeyInv'
  <1> USE DEF PassDeciphers, Calls
  <1>1. NextRow \in Cookie /\ visit[NextRow] # Nothing
    <2>1. \E c \in Cookie : visit[c] # Nothing
      BY DEF KeyTypeOK, Empty
    <2> QED BY <2>1 DEF NextRow
  <1>2. visit[NextRow] # 0 => secretKey # 0
    BY <1>1 DEF KeyTypeOK, CallersAgree
  <1>3. KeyTypeOK'
    <2>1. visit' \in [Cookie -> Ciphers(Len(madeBy))]
      BY DEF KeyTypeOK, Ciphers
    <2>2. caller' \in [Thread -> CallerStates(Len(madeBy))]
      <3>1. [at |-> "read", key |-> 0] \in CallerStates(Len(madeBy))
        BY DEF KeyTypeOK, CallerStates
      <3> QED BY <3>1 DEF KeyTypeOK, CallerStates
    <2> QED BY <2>1, <2>2 DEF KeyTypeOK, Ciphers, CallerStates
  <1>4. CallersAgree'
    BY <1>2 DEF CallersAgree, KeyTypeOK, Needs, Item
  <1>5. (NoGlitchYet /\ GuardHolds)'
    BY DEF NoGlitchYet, GuardHolds, KeyTypeOK, HandlerMadeAll, Empty
  <1>6. (OneKeyWithoutGlitch /\ CookiesStayReadable)'
    BY DEF OneKeyWithoutGlitch, CookiesStayReadable, HandlerMadeAll
  <1> QED BY <1>3, <1>4, <1>5, <1>6

\* The pass goes on, or ends.
LEMMA DecipheredInv == ASSUME KeyInv, PassDeciphered PROVE KeyInv'
  <1> USE DEF PassDeciphered, Leaves, Idle
  <1>1. visit' \in [Cookie -> Ciphers(Len(madeBy))]
    <2>1. Empty \in [Cookie -> Ciphers(Len(madeBy))]
      BY DEF Empty, Ciphers
    <2>2. [visit EXCEPT ![NextRow] = Nothing] \in [Cookie -> Ciphers(Len(madeBy))]
      BY DEF KeyTypeOK, Ciphers
    <2> QED BY <2>1, <2>2
  <1>2. KeyTypeOK'
    BY <1>1 DEF KeyTypeOK, Ciphers
  <1>3. CallersAgree'
    BY DEF CallersAgree, KeyTypeOK, Needs, Item
  <1>4. (NoGlitchYet /\ GuardHolds)'
    BY DEF NoGlitchYet, GuardHolds, KeyTypeOK, HandlerMadeAll, Empty
  <1>5. (OneKeyWithoutGlitch /\ CookiesStayReadable)'
    BY DEF OneKeyWithoutGlitch, CookiesStayReadable, HandlerMadeAll
  <1> QED BY <1>2, <1>3, <1>4, <1>5

\* Nothing happens.
LEMMA KeyStutterInv == ASSUME KeyInv, UNCHANGED keyVars PROVE KeyInv'
  <1> USE DEF keyVars
  <1>1. KeyTypeOK' /\ CallersAgree'
    BY DEF KeyTypeOK, CallersAgree, Needs, Item
  <1>2. (NoGlitchYet /\ GuardHolds /\ OneKeyWithoutGlitch /\ CookiesStayReadable)'
    BY DEF NoGlitchYet, GuardHolds, OneKeyWithoutGlitch, CookiesStayReadable,
           HandlerMadeAll, Empty
  <1> QED BY <1>1, <1>2

HIDE DEF KeyInv, Thread, stores, bounds

\* Every step keeps the invariant.
LEMMA KeyNextInv == ASSUME KeyInv, [KeyNext]_keyVars PROVE KeyInv'
  BY ReadInv, GuardedInv, WrittenInv, RequestInv, NeedsKeyInv, NeedsNoneInv, DoneInv,
     RefusedInv, SnapshotInv, DeciphersInv, DecipheredInv, KeyStutterInv
  DEF KeyNext

\* The inductive invariant.
THEOREM KeyCorrect == KeySpec => []KeyInv
  BY KeyInitInv, KeyNextInv, PTL DEF KeySpec

\* While the secrets facade tells the truth there is one key, and everything
\* is under it.
THEOREM OneKeyCorrect == KeySpec => []OneKeyWithoutGlitch
  <1>1. KeyInv => OneKeyWithoutGlitch
    BY DEF KeyInv
  <1> QED BY KeyCorrect, <1>1, PTL

\* When it does not, the guard keeps every cookie readable, but for a failing
\* SELECT and a pass that makes a key.
THEOREM ReadableCorrect == KeySpec => []CookiesStayReadable
  <1>1. KeyInv => CookiesStayReadable
    BY DEF KeyInv
  <1> QED BY KeyCorrect, <1>1, PTL

\* The guard refuses only when a key was lost, or when none was ever made and
\* the rows have no value.
THEOREM RefusalCorrect == KeySpec => []RefusedOnlyOnGlitch
  <1>1. KeyInv => RefusedOnlyOnGlitch
    BY NothingAssumption
    DEF KeyInv, KeyTypeOK, CallersAgree, NoGlitchYet, RefusedOnlyOnGlitch, Thread
  <1> QED BY KeyCorrect, <1>1, PTL

\* A signature loses its key only to a glitch, and only where the guard had no
\* rows to see, or let a pass through before.
THEOREM SignaturesCorrect == KeySpec => SignaturesOutlastKey
  <1> DEFINE Shielded(s) ==
        signatures[s] = secretKey /\ secretKey' # secretKey =>
            /\ glitches > 0
            /\ rows = Empty \/ dbErrors > 0 \/ caller["pass"].at = "write"
  <1>1. ASSUME KeyInv, [KeyNext]_keyVars, NEW s \in Source,
               signatures[s] = secretKey, secretKey' # secretKey
        PROVE  /\ glitches > 0
               /\ rows = Empty \/ dbErrors > 0 \/ caller["pass"].at = "write"
    <2>1. PICK who \in Thread : caller[who].at = "write"
      BY <1>1 DEF KeyNext, keyVars, KeyRead, KeyGuarded, KeyWritten, Request, ItemNeedsKey,
         ItemNeedsNone, ItemDone, ItemRefused, PassSnapshots, PassDeciphers, PassDeciphered
    <2>2. secretKey # 0 /\ glitches \in Nat /\ dbErrors \in Nat
      BY <1>1 DEF KeyInv, KeyTypeOK, CallersAgree
    <2>3. glitches # 0
      BY <1>1, <2>1, <2>2 DEF KeyInv, NoGlitchYet, Thread
    <2>4. who = "handler" => rows = Empty \/ dbErrors # 0
      BY <1>1, <2>1 DEF KeyInv, GuardHolds
    <2> QED BY <2>1, <2>2, <2>3, <2>4 DEF Thread
  <1>2. KeyInv /\ [KeyNext]_keyVars => [\A s \in Source : Shielded(s)]_keyVars
    BY <1>1
  <1> QED BY KeyCorrect, <1>2, PTL DEF KeySpec, SignaturesOutlastKey
=============================================================================
