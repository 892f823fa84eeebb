---------------------------- MODULE ProxyService ----------------------------
(***************************************************************************)
(* The proxy process of proxy_server.py beside the app's own process: its  *)
(* threads serve /sync-cookies, /clear-cookies and /restore-cookies on     *)
(* their own connections to the same table and the same browsers, with no  *)
(* lock between the two processes.  A step is one probe, one dial, one CDP *)
(* command or one SQL statement, interleaved with every step of            *)
(* CookieReconcile.                                                        *)
(*                                                                         *)
(* The thread Main is the one of main(): it restores the cookies once, and *)
(* the server accepts requests only after that.                            *)
(***************************************************************************)
EXTENDS CookieReconcile

CONSTANTS
    Worker,     \* threads of the server's pool
    Main        \* the thread that starts the server

ASSUME MainAssumption == Main \notin Worker

VARIABLE thread     \* thread[w]: the request w is serving

pvars == <<vars, thread>>

Thread == Worker \cup {Main}

IdleThread == [op |-> "none", at |-> "dial", hop |-> 1, reach |-> {}, todo |-> {},
               live |-> {}, incoming |-> NoIncoming, key |-> 0, took |-> FALSE,
               wired |-> FALSE]
Restoring  == [IdleThread EXCEPT !.op = "restore", !.at = "key"]

ThreadRecord ==
    [op: {"none", "sync", "clear", "restore"},
     at: {"probe", "dial", "send", "key", "read", "persist"},
     hop: 1..Len(Targets), reach: SUBSET (1..Len(Targets)),
     todo: SUBSET SUBSET Identity, live: SUBSET SUBSET Identity,
     incoming: [Identity -> Incoming], key: Nat, took: BOOLEAN, wired: BOOLEAN]

ProxyTypeOK == TypeOK /\ thread \in [Thread -> ThreadRecord]

ProxyStarted == [w \in Thread |-> IF w = Main THEN Restoring ELSE IdleThread]

ProxyInit == Init /\ thread = ProxyStarted

-----------------------------------------------------------------------------
Becomes(w, record) == thread' = [thread EXCEPT ![w] = record]

Accepting(w) == /\ w \in Worker /\ thread[w].op = "none"
                /\ thread[Main].op = "none" /\ clock < MaxClock

ProxySyncRequest(w) ==
    /\ Accepting(w)
    /\ \E body \in SyncBodies, ttl \in {"session", "dated"} :
        Becomes(w, [IdleThread EXCEPT !.op = "sync", !.at = "probe", !.live = Units(body),
           !.incoming = [id \in Identity |->
               IF id \in body THEN [val |-> clock + 1, ttl |-> ttl] ELSE NoIncoming[id]]])
    /\ Tick
    /\ UNCHANGED <<table, jar, loopVars, pass, handler, wired>>

\* a cookie listed without a domain (and without a url) is not sent at all
ProxyClearRequest(w) ==
    /\ Accepting(w)
    /\ \E units \in {{Identity}} \cup
           {{LiveSelected(c) : c \in {c \in body : c.domain # Any}} : body \in ClearBodies} :
        Becomes(w, [IdleThread EXCEPT !.op = "clear", !.at = "probe", !.live = units])
    /\ Tick
    /\ UNCHANGED <<table, jar, loopVars, pass, handler, wired>>

RestoreRequest(w) ==
    /\ Accepting(w)
    /\ Becomes(w, Restoring)
    /\ Tick
    /\ UNCHANGED <<table, jar, loopVars, pass, handler, wired>>

-----------------------------------------------------------------------------
\* After the last browser a sync goes on to the store if any browser took any
\* of its cookies; everything else is answered.
AfterHops(r) == IF r.op = "sync" /\ r.took THEN [r EXCEPT !.at = "key", !.wired = FALSE]
                                           ELSE IdleThread

DialNext(r) == IF r.hop = Len(Targets) THEN AfterHops(r)
               ELSE [r EXCEPT !.at = "dial", !.hop = @ + 1, !.todo = {}, !.wired = FALSE]

\* _reachable_targets: all of them before any is dialled
Probe(w) ==
    LET r == [thread[w] EXCEPT !.reach =
                 IF up[Targets[thread[w].hop]] THEN @ \cup {thread[w].hop} ELSE @] IN
    /\ thread[w].op # "none" /\ thread[w].at = "probe"
    /\ Becomes(w, IF r.hop < Len(Targets) THEN [r EXCEPT !.hop = @ + 1]
                  ELSE IF r.reach = {} THEN IdleThread
                  ELSE [r EXCEPT !.at = "dial", !.hop = 1])

\* _restore_cookies probes a target only when its turn has come
DialHop(w) ==
    LET r == thread[w] IN
    /\ r.op # "none" /\ r.at = "dial"
    /\ Becomes(w, IF up[Targets[r.hop]] /\ (r.op = "restore" \/ r.hop \in r.reach)
                  THEN [r EXCEPT !.at = "send", !.todo = r.live, !.wired = TRUE]
                  ELSE DialNext(r))

\* Network.setCookie or deleteCookies; the answer may be lost, not the effect
SendOne(w) ==
    LET r == thread[w] IN
    /\ r.op # "none" /\ r.at = "send"
    /\ \E unit \in r.todo :
        \/ /\ Becomes(w, [r EXCEPT !.todo = @ \ {unit}])
           /\ UNCHANGED jar
        \/ /\ r.wired
           /\ r.op = "restore" => unit \cap Doomed = {}
           /\ jar' = [jar EXCEPT ![Targets[r.hop]] =
                [id \in Identity |-> IF id \in unit THEN r.incoming[id].val ELSE @[id]]]
           /\ \E answered \in BOOLEAN :
                Becomes(w, [r EXCEPT !.todo = @ \ {unit}, !.took = @ \/ answered])

\* all commands are sent, or one raised
LeaveHop(w) ==
    /\ thread[w].op # "none" /\ thread[w].at = "send"
    /\ Becomes(w, DialNext(thread[w]))

\* _fernet_key: None if the secret store cannot be read
ReadKey(w) ==
    LET r == thread[w] IN
    /\ r.op # "none" /\ r.at = "key"
    /\ \/ Becomes(w, IdleThread)
       \/ Becomes(w, [r EXCEPT !.key = secret,
                               !.at = IF r.op = "restore" THEN "read" ELSE "persist",
                               !.todo = IF r.op = "restore" THEN {} ELSE r.live])

\* every row the key opens, quarantined ones included
ReadRows(w) ==
    LET r    == thread[w]
        rows == {id \in Stored(table) : table[id].enc.key = r.key} IN
    /\ r.op = "restore" /\ r.at = "read"
    /\ Becomes(w, IF Stored(table) = {} THEN IdleThread
                  ELSE [r EXCEPT !.at = "dial", !.live = Units(rows),
                     !.incoming = [id \in Identity |->
                        IF id \in rows
                        THEN [val |-> AsPushed(table[id]).val, ttl |-> "session"]
                        ELSE NoIncoming[id]]])

\* mutant: ON CONFLICT leaves the columns of the quarantine alone
UpsertDirectKeepsStreak(id, enc, ttl) ==
    [table EXCEPT ![id] = [enc |-> enc, ttl |-> ttl, reason |-> "none",
                           streak |-> FailStreak(table, id)]]

UpsertDirect(id, enc, ttl) == Upsert(table, id, enc, ttl)

\* one upsert_direct; one that raises is logged, and the next is tried
PersistOne(w) ==
    LET r == thread[w] IN
    /\ r.op = "sync" /\ r.at = "persist"
    /\ \E id \in Identity :
        /\ {id} \in r.todo
        /\ Becomes(w, IF r.todo = {{id}} THEN IdleThread ELSE [r EXCEPT !.todo = @ \ {{id}}])
        /\ \/ /\ table' = UpsertDirect(id, [val |-> r.incoming[id].val, key |-> r.key],
                                       r.incoming[id].ttl)
              /\ UNCHANGED faults
           \/ Fault /\ UNCHANGED table

ProxyRequest ==
    \E w \in Worker : ProxySyncRequest(w) \/ ProxyClearRequest(w) \/ RestoreRequest(w)

ThreadStep ==
    \E w \in Thread :
        \/ /\ Probe(w) \/ DialHop(w) \/ LeaveHop(w) \/ ReadKey(w) \/ ReadRows(w)
           /\ UNCHANGED vars
        \/ /\ SendOne(w)
           /\ UNCHANGED <<table, loopVars, pass, handler, wired, envVars>>
        \/ /\ PersistOne(w)
           /\ UNCHANGED <<jar, loopVars, pass, handler, wired, secret, clock, up, drift>>

\* the supervisor starts the process again
ProxyRestarts ==
    /\ Fault
    /\ thread' = ProxyStarted
    /\ UNCHANGED <<table, jar, loopVars, pass, handler, wired, secret, clock, up, drift>>

\* a browser that stops takes its sockets with it
Cut == [w \in Thread |->
           LET t == Targets[thread[w].hop] IN
           [thread[w] EXCEPT !.wired = @ /\ (up[t] => up'[t])]]

AppStep == Next /\ thread' = Cut

ProxyNext == AppStep \/ ProxyRequest \/ ThreadStep \/ ProxyRestarts

ProxySpec     == ProxyInit /\ [][ProxyNext]_pvars
FairProxySpec == ProxySpec /\ Fairness      \* nothing is assumed of the proxy
=============================================================================
