------------------------------ MODULE KeyGuard ------------------------------
(***************************************************************************)
(* The one Fernet key (crypto.py) and everything encrypted under it: the   *)
(* cookie rows and the browser signatures (signature_store.py).  The key is*)
(* made on first use, by whichever of two threads needs it: the event loop,*)
(* where a handler encrypts and decrypts, and the worker thread, where the *)
(* pass decrypts the rows of its snapshot.  The secrets facade may answer  *)
(* that there is no key when there is one, and a SELECT may raise.         *)
(*                                                                         *)
(* A ciphertext is the version of its key; 0 stands for the empty value,   *)
(* which encrypt and decrypt leave as it is and need no key for.           *)
(***************************************************************************)
EXTENDS Naturals, Sequences

CONSTANTS
    Cookie, Source,     \* what rows and signatures are about
    Nothing,            \* no row
    Jobs,               \* the requests: sequences of what each does in turn
    MaxJobs, MaxGlitches, MaxDbErrors   \* bounds

\* a request persists cookies, or a signature and cookies, looks at a signature,
\* or empties the store
Items == [do: {"keep"}, id: Cookie, blank: BOOLEAN] \cup [do: {"sign", "look"}, id: Source]
         \cup [do: {"clear"}]

ASSUME JobsAssumption    == Jobs \subseteq Seq(Items)
ASSUME NothingAssumption == Nothing \notin Nat
ASSUME KeyBoundAssumption == MaxJobs \in Nat /\ MaxGlitches \in Nat /\ MaxDbErrors \in Nat

VARIABLES
    secretKey,      \* cookie_encryption_key, 0 for none
    madeBy,         \* who made the keys so far, in order
    rows,           \* the ciphertext of each cookie's row
    signatures,     \* the ciphertext of each source's signature
    caller,         \* the two threads in _get_or_create_key
    job,            \* what is left of the handler's request
    visit,          \* what is left of the pass's snapshot
    jobs, glitches, dbErrors

keyVars == <<secretKey, madeBy, rows, signatures, caller, job, visit, jobs, glitches, dbErrors>>
stores  == <<rows, signatures>>
bounds  == <<jobs, glitches, dbErrors>>

Thread == {"handler", "pass"}
Idle   == [at |-> "idle", key |-> 0]
Empty  == [c \in Cookie |-> Nothing]

KeyTypeOK ==
    /\ secretKey \in 0..Len(madeBy) /\ madeBy \in Seq(Thread)
    /\ rows \in [Cookie -> {Nothing} \cup 0..Len(madeBy)]
    /\ signatures \in [Source -> {Nothing} \cup 0..Len(madeBy)]
    /\ caller \in [Thread -> [at: {"idle", "read", "guard", "write", "use", "refused"},
                              key: 0..Len(madeBy)]]
    /\ visit \in [Cookie -> {Nothing} \cup 0..Len(madeBy)]
    /\ job \in Seq(Items)
    /\ jobs \in Nat /\ glitches \in Nat /\ dbErrors \in Nat

KeyInit ==
    /\ secretKey = 0 /\ madeBy = <<>>
    /\ rows = Empty /\ signatures = [s \in Source |-> Nothing]
    /\ caller = [who \in Thread |-> Idle]
    /\ job = <<>> /\ visit = Empty
    /\ jobs = 0 /\ glitches = 0 /\ dbErrors = 0

-----------------------------------------------------------------------------
(* _get_or_create_key                                                      *)

Calls(who) == caller' = [caller EXCEPT ![who] = [at |-> "read", key |-> 0]]
Leaves(who) == caller' = [caller EXCEPT ![who] = Idle]

KeyRead(who) ==
    /\ caller[who].at = "read"
    /\ \E key \in {secretKey, 0} :
        /\ glitches' = IF key = secretKey THEN glitches ELSE glitches + 1
        /\ caller' = [caller EXCEPT ![who] = [at |-> IF key = 0 THEN "guard" ELSE "use",
                                              key |-> key]]
    /\ glitches' <= MaxGlitches
    /\ UNCHANGED <<secretKey, madeBy, stores, job, visit, jobs, dbErrors>>

\* mutant: the guard is blind
TableHasRowsNever == FALSE

\* _table_has_rows: the cookies only, the signatures are not looked at
TableHasRows == rows # Empty

\* a database error counts as an empty table
KeyGuarded(who) ==
    /\ caller[who].at = "guard"
    /\ \/ /\ caller' = [caller EXCEPT ![who].at = IF TableHasRows THEN "refused" ELSE "write"]
          /\ UNCHANGED dbErrors
       \/ /\ dbErrors < MaxDbErrors /\ dbErrors' = dbErrors + 1
          /\ caller' = [caller EXCEPT ![who].at = "write"]
    /\ UNCHANGED <<secretKey, madeBy, stores, job, visit, jobs, glitches>>

\* mutant: the new key is used but not stored
KeyWrittenLost(who) ==
    /\ caller[who].at = "write"
    /\ madeBy' = Append(madeBy, who)
    /\ caller' = [caller EXCEPT ![who] = [at |-> "use", key |-> Len(madeBy')]]
    /\ UNCHANGED <<secretKey, stores, job, visit, bounds>>

KeyWritten(who) ==
    /\ caller[who].at = "write"
    /\ madeBy' = Append(madeBy, who)
    /\ secretKey' = Len(madeBy')
    /\ caller' = [caller EXCEPT ![who] = [at |-> "use", key |-> Len(madeBy')]]
    /\ UNCHANGED <<stores, job, visit, bounds>>

-----------------------------------------------------------------------------
(* The event loop: one request at a time.                                  *)

Request ==
    /\ job = <<>> /\ jobs < MaxJobs
    /\ job' \in Jobs /\ jobs' = jobs + 1
    /\ UNCHANGED <<secretKey, madeBy, stores, caller, visit, glitches, dbErrors>>

Item == Head(job)
Needs(item) == item.do \in {"sign", "look"} \/ (item.do = "keep" /\ ~item.blank)

\* a signature or a value is encrypted, a signature is decrypted
ItemNeedsKey ==
    /\ job # <<>> /\ caller["handler"].at = "idle" /\ Needs(Item)
    /\ Calls("handler")
    /\ UNCHANGED <<secretKey, madeBy, stores, job, visit, bounds>>

\* delete_all, or a cookie without a value
ItemNeedsNone ==
    /\ job # <<>> /\ ~Needs(Item)
    /\ rows' = IF Item.do = "clear" THEN Empty ELSE [rows EXCEPT ![Item.id] = 0]
    /\ job' = Tail(job)
    /\ UNCHANGED <<secretKey, madeBy, signatures, caller, visit, bounds>>

\* the two upserts; of a signature that is there captured_at stays
ItemDone ==
    /\ caller["handler"].at = "use"
    /\ rows' = IF Item.do = "keep" THEN [rows EXCEPT ![Item.id] = caller["handler"].key]
                                   ELSE rows
    /\ signatures' = IF Item.do = "sign"
                     THEN [signatures EXCEPT ![Item.id] = caller["handler"].key]
                     ELSE signatures
    /\ job' = Tail(job)
    /\ Leaves("handler")
    /\ UNCHANGED <<secretKey, madeBy, visit, bounds>>

\* RuntimeError: a signature is done without, anything else ends in a 500
ItemRefused ==
    /\ caller["handler"].at = "refused"
    /\ job' = IF Item.do = "sign" THEN Tail(job) ELSE <<>>
    /\ Leaves("handler")
    /\ UNCHANGED <<secretKey, madeBy, stores, visit, bounds>>

-----------------------------------------------------------------------------
(* The worker thread: a pass over the rows.                                *)

NextRow == CHOOSE c \in Cookie : visit[c] # Nothing

PassSnapshots ==
    /\ visit = Empty /\ rows # Empty
    /\ visit' = rows
    /\ UNCHANGED <<secretKey, madeBy, stores, caller, job, bounds>>

\* mutant: an empty value is deciphered like any other
PassDeciphersBlank ==
    /\ visit # Empty /\ caller["pass"].at = "idle"
    /\ Calls("pass") /\ UNCHANGED visit
    /\ UNCHANGED <<secretKey, madeBy, stores, job, bounds>>

PassDeciphers ==
    /\ visit # Empty /\ caller["pass"].at = "idle"
    /\ IF visit[NextRow] = 0
       THEN visit' = [visit EXCEPT ![NextRow] = Nothing] /\ UNCHANGED caller
       ELSE Calls("pass") /\ UNCHANGED visit
    /\ UNCHANGED <<secretKey, madeBy, stores, job, bounds>>

\* the row opens or is dead (CookieReconcile); a refusal is no ValueError and
\* ends the pass
PassDeciphered ==
    /\ caller["pass"].at \in {"use", "refused"}
    /\ visit' = IF caller["pass"].at = "refused" THEN Empty
                ELSE [visit EXCEPT ![NextRow] = Nothing]
    /\ Leaves("pass")
    /\ UNCHANGED <<secretKey, madeBy, stores, job, bounds>>

KeyNext ==
    \/ \E who \in Thread : KeyRead(who) \/ KeyGuarded(who) \/ KeyWritten(who)
    \/ Request \/ ItemNeedsKey \/ ItemNeedsNone \/ ItemDone \/ ItemRefused
    \/ PassSnapshots \/ PassDeciphers \/ PassDeciphered

KeySpec == KeyInit /\ [][KeyNext]_keyVars

-----------------------------------------------------------------------------
\* While the secrets facade tells the truth there is one key for ever, and
\* everything opens under it, though two threads may look for it at once and
\* the check and the write are two steps: the pass only ever asks for a key
\* that something has been encrypted under.
OneKeyWithoutGlitch ==
    glitches = 0 => /\ Len(madeBy) <= 1
                    /\ \A c \in Cookie : rows[c] \in {Nothing, 0, secretKey}
                    /\ \A s \in Source : signatures[s] \in {Nothing, secretKey}

HandlerMadeAll == \A i \in DOMAIN madeBy : madeBy[i] = "handler"

\* When it does not, the guard keeps a replacement key from orphaning "every
\* existing cookie" (crypto.py) - unless the guard's own SELECT fails, or the
\* replacement is made by a pass whose rows have been cleared meanwhile, beside
\* a request that holds the old key.
CookiesStayReadable ==
    dbErrors = 0 /\ HandlerMadeAll =>
        \A c \in Cookie : rows[c] \in {Nothing, 0, secretKey}

\* The guard never looks at the signatures, which are under the same key; it
\* shields them through the cookies.  So a signature that opens loses its key only
\* when the facade has denied that there is one, and then only while there is no
\* cookie row, after a SELECT that failed, or to a pass whose rows were cleared
\* between its snapshot and its guard.
SignaturesOutlastKey ==
    [][\A s \in Source :
          signatures[s] = secretKey /\ secretKey' # secretKey =>
              /\ glitches > 0
              /\ rows = Empty \/ dbErrors > 0 \/ caller["pass"].at = "write"]_keyVars

\* The guard refuses to make a key only when one has been lost: "almost
\* certainly a transient secrets-store read glitch, not a real first run"
\* (crypto.py).  There is one real first run it takes for a glitch: the first
\* cookies had no value, so that their rows are there and a key was never made.
RefusedOnlyOnGlitch ==
    \A who \in Thread : caller[who].at = "refused" =>
        glitches > 0 \/ (madeBy = <<>> /\ \A c \in Cookie : rows[c] \in {Nothing, 0})

\* What makes these inductive: who is in _get_or_create_key and with what, and
\* that the handler, which alone changes the table, finds it at the write as it
\* was at the guard.
CallersAgree ==
    /\ secretKey = Len(madeBy)
    /\ caller["handler"].at # "idle" => job # <<>> /\ Needs(Item)
    /\ caller["pass"].at # "idle" => secretKey # 0
    /\ \A who \in Thread : caller[who].at = "use" => caller[who].key # 0
    /\ \A s \in Source : signatures[s] # 0
NoGlitchYet ==
    glitches = 0 =>
        /\ caller["pass"].at \in {"idle", "read", "use"}
        /\ caller["handler"].at \in {"guard", "write", "refused"} => secretKey = 0
        /\ \A who \in Thread : caller[who].at = "use" => caller[who].key = secretKey
GuardHolds ==
    dbErrors = 0 =>
        /\ caller["handler"].at = "write" => rows = Empty
        /\ HandlerMadeAll /\ caller["handler"].at = "use" =>
              caller["handler"].key = secretKey
KeyInv ==
    /\ KeyTypeOK /\ CallersAgree /\ NoGlitchYet /\ GuardHolds
    /\ OneKeyWithoutGlitch /\ CookiesStayReadable
=============================================================================
