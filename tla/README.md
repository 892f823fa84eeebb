# Verification of aw-app-proxy

TLA+ models of the proxy app: the pipeline that keeps a user's browser cookies
in an encrypted table and in every running browser. Paths are relative to the
repository root.

## The system

| part | source | state | operations |
|---|---|---|---|
| cookie store | `proxy_app/cookie_store.py`, `migrations/` | one Postgres table, key (name, domain, path): ciphertext, expiry, quarantine, `fail_streak` | upsert, delete, delete_all, all_rows, quarantine, bump_fail_streak, delete_expired |
| reconcile loop | `proxy_app/plugin.py` | `reachable_by_target`, log state | every 15 s, for every CDP target: probe, run a pass in a worker thread, collect it |
| reconcile pass | `proxy_app/routes.py` `restore_persisted_cookies` | snapshot of the active rows, a CDP socket | purge, read, connect, then per row: decrypt, setCookie, and for the primary target the bookkeeping about rejections |
| HTTP API | `proxy_app/routes.py` `build_app` | none of its own | sync, persist, forget, clear; status, keys, values, cookies-for only read |
| CDP client | `proxy_app/cdp.py` | a raw WebSocket | list, open, send_recv |
| encryption | `proxy_app/crypto.py` | one Fernet key in `ctx.secrets` | create once, encrypt, decrypt |
| proxy process | `proxy_app/proxy_server.py` | worker pool, tunnels | CONNECT and MITM, and its own sync, clear and restore endpoints on the same table |
| certificate authority | `proxy_app/mitm.py` | CA and leaf files, a cache | load or create, mint, rewrite headers |
| signatures | `proxy_app/signature_store.py` | a second table | upsert, read |
| matching | `proxy_app/cookie_match.py` | none | which stored cookies a URL would get |
| panel | `proxy_app/cookies_ui.py` | list in the page | refresh (persists what is not), forget |
| extensions | `extensions/` | source id, selection | post sync and clear requests |

How they interact. The app process has one event loop. The reconcile loop is a
coroutine on it; the HTTP handlers are `async def` without a single `await`, so
one handler runs at a time and never while the loop is computing. The pass is
the exception: `asyncio.to_thread` puts it on a worker thread, where it
interleaves with the handlers at every SQL statement and every CDP command, for
as long as the browser takes to answer. The proxy process is a second writer of
the table and of the browsers. Browsers stop, restart with or without their
profile, and lose or change cookies on their own.

What makes it hard, and what each part has to get right:

- *store*: an upsert gives a row a fresh start; nothing but an upsert creates a
  row, and only a delete or an expiry removes one;
- *pass*: pushes active rows only; one rejection counted per tick; quarantine
  after three consecutive rejections of the value the row holds; its UPDATEs
  never revive a row deleted meanwhile;
- *loop*: every running browser converges to the store, from any drift, without
  needing an edge of reachability, whatever the other targets do;
- *sync, clear*: the store first and unconditionally, then each browser on its
  own;
- *CDP client*: a verdict belongs to the command it is read for; every call ends;
- *key*: never replaced while something is encrypted under it;
- *proxy process*: the same promises as the app's handlers, on the same table;
- *tunnels*: one status line per CONNECT, a bounded number at a time;
- *CA*: one CA for ever, or none - never half a pair.

`PROJECT.json` lists the hazards with their lines and the properties about them;
the few without a property say why.

## Modules

- **CookieTable** - the table as a function from identity to row or `None`, and
  one operator per statement. `quarantine` and `bump_fail_streak` are UPDATEs: a
  row that is gone stays gone. An expiry to come is *dated*, past but inside the purge's
  grace of a day *expired*, past that too *lapsed*. `delete` and `delete_all` run a SELECT for their
  return value before a DELETE with the same WHERE clause, and so do one step.
- **CookieReconcile** - the core: loop, pass, handlers, browsers.

  | variable | in the code |
  |---|---|
  | `table` | the Postgres table |
  | `secret` | the Fernet key, as a version; a ciphertext opens under its own |
  | `loop`, `reachable` | the coroutine's position, its `reachable_by_target` |
  | `pass` | the worker thread: its statement, its target, the rows of its snapshot still to visit, the row whose rejection it is counting |
  | `handler` | the request that occupies the event loop: what is left to do at the store or in the browser of the current hop |
  | `wired` | whether the pass's and the handler's sockets still reach a browser |
  | `up`, `jar` | the browsers: the answer of `/json/list`, the version held of each cookie (0 for none) |
  | `clock`, `faults`, `drift` | versions handed out, interruptions, disturbances: the bounds |

  An action is the code between two points at which another actor can get in:
  one SQL statement or one CDP command. The rejection path is three steps,
  because it is three statements. `LoopStep` and the start of a handler exclude
  each other; `PassStep` excludes nothing. Rows are visited in any order: the
  code's ORDER BY leaves ties and nothing depends on it. The pass sends a row's expiry
  whether or not it is past (`routes.py:240-242`), and Chromium drops a cookie set with a
  past date: `AsPushed` is what a row comes to in the browser, judged as of the
  snapshot. A browser's own expiry afterwards is one of the drifts of its jar. A
  clear keeps apart what the store is asked to delete (`purge`, every path of a
  domain) and what the browser is (`live`, the root path). A command that is not
  answered may have been carried out. A rejection may be another row's - the
  client does not compare reply ids - so a `Flaky` cookie may be taken and
  counted as rejected at once.
- **CookieReconcileHistory** - the same with two history variables: rows counted
  in this tick, and rejections since the primary last took each value.
- **PluginLifecycle** - the core with `deactivate` and `activate`. Cancelling the
  loop's task does not reach the worker thread: a pass in flight becomes the
  `orphan`, a second instance of the core's own pass (`Orphan == INSTANCE
  CookieReconcile WITH pass <- orphan, wired <- socket`) on the same table, browsers
  and key, beside whatever a new loop starts. Nothing waits for an orphan, so that a
  second deactivation may leave another beside it: the others are `parked` with
  their sockets, and `Switch` gives any of them the next step. `Place` is the
  places there are for them.
- **CookieLedger** - the abstract specification of the table: entries that are
  put, dropped, struck, charged and judged, a verdict that only a new value lifts, and
  the evidence each verdict needs. `CookieReconcile!ImplementsLedger` is the
  refinement: `entry` is the table without ciphertexts and expiries, `charge` the row
  a pass is about to quarantine as rejected, `lost` whether a key has been replaced.
  Everything else of the core - loop, browsers, requests, sockets - stutters.
- **MCCookieReconcile**, **MCCookieHistory**, **MCPluginLifecycle** - instances: two
  cookies of one name and domain with different paths, so that selections by name,
  domain and path differ; one or two browsers.
- **CookieReconcileProofs**, **CookiePromisesProofs** - the theorems about the core,
  the second extending the first: its invariant, and what follows from a stronger one
  (the promises of sync and clear, the refinement of the ledger, one strike per tick).
  **PluginLifecycleProofs** - those about a life with an orphaned pass.
- **CookieParams** - what the live sync and the pass send for one cookie, and what
  Chromium refuses. No steps: the states are the cookies.
- **CookieMatch** - `cookie_match.py` on texts of a few characters, beside a
  reference that does not compare prefixes but sets: the domains a host lies in, the
  directories a path lies in. `Char` is the alphabet, `Text` its sequences: `Rows` and
  `Urls` are small sets in the run and any in the proofs.
- **CdpSession** - one use of the CDP client: `open_ws`, then `N` calls of
  `send_recv` over the socket, as a pass, a sync or a clear makes them. The
  stream into the client is a count of pieces, two per reply (header, payload);
  `written` and `read` say how far browser and client are in it, `frame` whose
  reply the client is inside of, `verdict` and `source` what each call returned
  and whose reply that was. Each way a `recv` can go - time out, come back short,
  come back empty because the peer has closed - is an action; the browser
  executes commands in order at its own pace and may hang up at any byte. The
  core uses of it that a verdict may be another command's (`Flaky`) and that a
  command that is not answered may have been carried out.
- **CdpSessionProofs** - the theorems about it.
- **ProxyService** - extends CookieReconcile by the proxy process: `thread[w]` is
  the request that worker `w` serves, where it is in it (probing, dialling, sending,
  reading the key, reading the rows, persisting), the browsers it found reachable
  and what is left to send or to persist. `Main` is the thread of `main()`, whose
  restore comes before the first request. A sync injects first and persists only
  if a browser took something; a clear evicts and leaves the table alone; a
  restore pushes every row the key opens. Any step of the app (`AppStep`) may come
  between any two of these.
- **MCProxyService** - its instance; **ProxyServiceProofs** - its theorems.
- **KeyGuard** - the Fernet key and what is encrypted under it: cookie rows,
  signatures. `caller` is the two threads that may be inside
  `_get_or_create_key` at once, each between reading, the guard's SELECT, and the
  write; `job` is what is left of the handler's request, `visit` of the pass's
  snapshot. The secrets facade may deny a key it has (`glitches`), the SELECT may
  raise (`dbErrors`), a value may be empty, which is stored as it is and needs no key.
- **KeyGuardProofs** - its theorems.
- **CookiesPanel** - the page's flows. A flow is one call of `refresh`, or a click
  on Forget with the refresh that follows it; each is a sequence of requests, between
  any two of which the other flow, the browser and the pass may act. A listing is a
  step when it is served and another when it is used.
- **ConnectTunnel** - the worker pool and the connections: `conn[c]` is where
  connection `c` is in `do_CONNECT`, `_mitm_connect`, `_tunnel` or `GET /mitm-ca.pem`;
  `kind[c]` is what it asks for, or that its client is not allowed (*barred*), which is
  decided once, by its address: only such a connection is hung up on at the start, every
  other waits for its turn at the lock.
  Extends MitmCa, whose lock the connections meet at. `cut` is the sockets
  `wrap_socket` has detached, `halves` the two forwarding threads of a tunnel.
- **MitmRelay** - `_relay_http` with the origin's answer as a stream of pieces: a
  head and what its framing adds, so that reading too little or too much leaves the
  stream out of step. The origin may stop or close at any piece.
- **MitmCa** - the CA and the leaves: files as versions (absent, torn between
  `open` and `write`, or whole), the globals, the holder of `_lock`; the process may
  end between any two steps, a write may raise. `Unmintable` is the hosts that
  `_mint_leaf` raises for with a healthy CA: a common name that is empty or longer than
  64 characters (`mitm.py:115`), a DNS name that is not ASCII (`:125`), a name no file can
  have (`:131`).
- **ConnectTunnelProofs** - the theorems about the CA and the connections that share it.
- **WireProofs** - those about MitmRelay, CookieMatch and CookieParams.
- **MCConnectTunnel**, **MCCookiesPanel** - instances. **MCParts** puts the seven
  small modules that share no state (CdpSession, KeyGuard, CookiesPanel, MitmRelay,
  MitmCa, CookieMatch, CookieParams) into one run: `part` names the one a behaviour is
  about, and the others stay as they are.

Definitions commented as a *mutant* are plausible wrong variants of the one that
follows; nothing uses them, they serve to see each property fail.

## Runs

| run | instance | asks |
|---|---|---|
| `races` | 2 cookies, 1 browser, 3 requests or page writes, 1 fault, 1 disturbance | do the store and its bookkeeping survive every interleaving of a pass with requests, key loss, exceptions, crashes and a browser that stops or changes its jar; is every step one of the ledger's |
| `fanout` | 1 cookie, 2 browsers, 1 request, 1 fault, 1 disturbance, fair | does a tick count a rejection once; do running browsers end up with what the store holds, the other one up or down |
| `retire` | 2 cookies, one always rejected, 1 request for either, 2 of: faults, disturbances, deactivations; 2 orphans; fair | what may orphaned passes do to the books; does an app that stays active converge and retire the doomed cookie |
| `proxy` | 1 cookie, 1 browser, `Main` and 1 worker, 2 requests, 1 fault, fair app | does the app's bookkeeping stay consistent beside a second writer, and does the browser still converge to the store |
| `tunnels` | 3 connections, 2 workers, 2 hosts, one of them unmintable, 1 restart, fair | one status line each, no raw splice without a reason, everything queued is served |
| `parts` | session: 3 commands; key: 2 cookies, 1 source, 3 requests, 1 glitch, 1 database error; panel: 2 cards with 3 cookies, 2 flows, 1 trouble; relay: 3 requests; CA: 3 hosts, one of them unmintable, 2 restarts, 1 failed write; matching and parameters: every input | the properties of the parts on their own |
| `consecutive` | 1 cookie, no fault | finding 1 |
| `fresh_chance` | 1 cookie, 1 key loss | finding 2 |
| `reinject` | 1 cookie, sync then clear | finding 3 |
| `spin` | 3 commands, fair client | finding 4 |
| `session_cookie` | 1 cookie, persist | finding 5 |
| `forget` | 1 card, 1 flow | finding 6 |

What the properties of `parts` say: replies are read in order, a verdict is a real
answer, late by at most one per call that gave up, and counts are earned; one key
while the facade tells the truth, cookies that stay readable when it does not,
signatures that lose their key in listed cases only; a panel whose flows end and which persists what is
live in the end; a relay that never hands a client another request's answer, never
takes a timeout for an end, and answers or closes; a CA whose pair matches, which a
client can trust for good once given it, with leaves of the CA that is served; URL
matching equal to its reference in both directions; setCookie parameters that
Chromium takes. The exceptions are part of the statements, and are listed under
Remarks.

Bounds. `MaxClock` bounds requests and page writes together; a race needs one
row and one request that overlaps a pass, hence two; in `races` three, because a
cookie may be one that a page writes and a request persists, before it is
forgotten or cleared. Ticks are not bounded: the
loop runs for ever in every instance and streaks reach the threshold and beyond.
One fault is enough to separate counting from quarantining, one disturbance to
stop a browser or to change a jar, and one deactivation to make two passes count the
same row; `MaxInterruptions` bounds the three together. Two let a deactivation meet a
fault, or two of them leave two orphans beside the app's own pass, which is the
most that the one `Place` of `retire` holds; there a request stores either cookie but
not both, since the passes meet at a row (`races`, `fanout` and `proxy` have the rows of
one pass meet). In `proxy` the requests of both
processes share `MaxClock`, so that any two of them can overlap, beside the restore
of `Main`, which is not counted. Three commands are enough for a verdict to be late
by one and by two and for a later one to be read correctly again or not. Two
workers and three connections let one connection wait while the others hold both
workers and one of them the CA's lock. The panel's third cookie has the name and domain of
the first and another path, so that a row of one hides the other. Two restarts of the CA's process let what the
first left be loaded, handed out and lost again. Three requests of a relay let a
response be read out of step after one that was read in step, and once more after
that. Two flows are what a click during a refresh makes. The texts of
CookieMatch go up to four characters for a domain and three for a path: enough for
every position of a separator, of a trailing one and of two in a row.

Deadlock is checked in the runs of the core, where the loop's ticks go on for ever. It is
not in `parts`, `tunnels`, `spin` and `forget`: a session, a pool whose connections are
all closed, a relay that is closed and a page nobody clicks on do stop.

Fairness. The event loop and the worker thread run: weak fairness of the loop,
the pass and the handler, and of the orphans: the one that runs, and, once it has
ended, the next (`Switch`). Every wait of theirs has a timeout
(3 s for the probe, 10 s for the socket) except the two loops in `cdp.py` that spin
when a peer closes inside a frame; weak fairness of the pass assumes it does not
(finding 4). Strong fairness of acceptance (and, for doomed cookies, of rejection): a
browser that is asked again every tick does not time out every time. Nothing is
assumed of requests, faults, and browsers' starts: a browser may stay down for
ever; the liveness properties of `retire` are about apps that stay active from
some time on. Nothing is assumed of the proxy process in `proxy`: its threads may stop
anywhere. In `CdpSession` and `MitmRelay` the client or relay is weakly fair, since
each of its reads returns data, nothing, or a timeout; its peers are not fair at
all. In `CookiesPanel` a request of the page is answered, or fails, in the end; the
user is not fair. In `ConnectTunnel` the workers are: a connection at the CA's lock gets
it in the end, since its holder always leaves; no socket of a client has a
timeout (`timeout = None`), so `EachIsServed` has to assume that each client goes in
the end, and that an origin which has been told so by a shutdown goes too - not
that an origin goes by itself.

## Findings

1. `fail_streak` is never reset by a success (`routes.py:251`), against "3
   consecutive rejections" of `migrations/0002`. Run `consecutive`: reject,
   accept, reject, accept, reject - quarantined.
2. A pass quarantines by key on the word of its snapshot (`routes.py:227`, `260`),
   against "a fresh sync gets a fresh chance" of `cookie_store.py:60`. Run
   `fresh_chance`: key lost, pass reads, sync upserts under the new key and
   answers, pass quarantines the new row as dead. Only another sync helps.
3. A pass in flight re-injects what a clear has purged, evicted and answered
   (`routes.py:243`), against the reason `routes.py:575` gives for purging first.
   Run `reinject`.
4. A peer that closes inside the handshake or a payload leaves the client in a
   loop that never ends (`cdp.py:75`, `105`), against the independence of targets
   promised in `plugin.py:99`. Run `spin`; `SessionEndsUnlessCut` in `parts` shows
   that it is the only way not to end.
5. Persisting a session cookie from the browser stores CDP's `expires` of -1
   (`routes.py:373`), which the purge takes for a date of 1969, against "session
   cookies are never touched" of `cookie_store.py:168`. Run `session_cookie`: persist,
   then one pass. A sync from the extension stores NULL, and its row stays.
6. Forget is undone by the refresh that follows it (`cookies_ui.py:218`), when
   the browser still holds the cookie, against "deletion is a deliberate choice" of
   `cookies_ui.py:13-15`. Run `forget`.

## Remarks

What the properties had to except, and what the models show without a statement in
the repository that it contradicts:

- *Verdicts are late.* `send_recv` takes the next frame for its answer and never
  compares ids (`cdp.py:98-107`). Command 1 times out, its refusal arrives, command 2
  reads it: a timeout is meant to be no cookie-level verdict (`routes.py:246`), and yet
  the refusal is counted against the next cookie. `LagIsExplained` bounds the damage.
- *A restore pushes quarantined rows.* `_restore_cookies` (`proxy_server.py:737-755`)
  reads every row, so that each restart of the proxy re-attempts what `migrations/0002`
  wants not "re-attempted forever". In the same way `GET /cookies-for` answers from
  quarantined and expired rows when the browser is down.
- *An orphan counts too.* Off and on with a pass in flight makes two passes, off and on
  again three; each orphan adds at most one to a streak (`StreakBoundedBeside`). None
  makes a judged row active again, but a row that one has judged as rejected another may
  mark as dead after a loss of the key, so that only its reason changes (`VerdictsStand`).
- *An expired row is nobody's.* Inside the purge's day of grace, and for good while the
  primary is down, a row whose date has passed is pushed on every tick and dropped by
  the browser: `Reconciled` is about the rows whose date is to come.
- *Hosts without a leaf.* A CONNECT to a host the certificate builder refuses is spliced
  raw every time, with a healthy CA (`SplicedOnlyWhenRefused`, `RefusedOnlyWhenTorn`).
- *Rows the pass loses.* `__Host-` cookies, and `__Secure-` or `SameSite=None` cookies
  not reported secure, are repaired by the live sync only; the pass gets them
  rejected, and three passes quarantine (`PassKeepsWhatSyncPut`).
- *A first run that looks like a glitch.* If the first cookies stored have empty
  values, there are rows and never was a key, and the guard of `crypto.py:36-46`
  refuses to make one for as long as they stay (`RefusedOnlyOnGlitch`).
- *The guard can miss.* A pass whose rows were cleared meanwhile may make a second
  key beside a request that holds the first; and a database error in the guard's
  SELECT counts as an empty table (`CookiesStayReadable`). Signatures are shielded by
  the cookies only: with no cookie row, one glitch replaces the key they are under
  (`SignaturesOutlastKey`).
- *A torn certificate is for good.* An end of the process between opening and
  writing `mitm_ca.crt` leaves a CA that is refused until someone removes the file
  (`RefusedOnlyWhenTorn`); `GET /mitm-ca.pem` has sent its 200 by then. A CA whose
  write failed is served and handed out until the process ends (`TrustLasts`).
- *The fallback is saved by a side effect.* After a failed interception `do_CONNECT`
  dials the origin and writes a second status line; the client does not see it only
  because `wrap_socket` has detached the socket (`OneAnswer`).
- *The relay's framings.* A response delimited by closing is passed on empty, and
  its body is read as the next head; a 1xx is passed on as the answer, after which
  client and relay wait for each other; a HEAD's Content-Length is waited for until
  the 30 s timeout; a body cut by the origin is passed on as complete
  (`AnswersMatch`, `AskedIsAnswered`, `WholeUnlessClosed`).
- *Hidden paths.* A row of one path hides a live cookie of another path of the same
  card from the listing, and so from being persisted (`LiveIsPersisted`).

## What is proved

`CookieReconcileProofs` proves, for every set of identities, list of targets,
request inputs and bounds, from the named assumptions of the modules only
(`NoneAssumption`, `NoneIsNoRow`: `None` is no identity and no row;
`TargetsAssumption`: the target list is a non-empty sequence of targets;
`InputAssumption`: the shape of request bodies; `BoundAssumption`):

- `InvCorrect`: `Spec => []IInv`; from it
- `TypeCorrect`, `PendingIsActive` (no pass holds a quarantined row) and
  `StreakCorrect` (a streak exceeds the threshold at most by the number of
  interruptions).

The argument. `StreakBounded` is not inductive: the step that counts must know
the row was below the threshold before. That is `ActiveBelowThreshold` - an
active row is below it outside the window between counting and acting, but for
interruptions - which needs that the pass counts only active rows
(`NoQuarantinedPending`), that the row it counts is one of its snapshot
(`BooksAreAboutPending`), and, so that the loop cannot discard a pass inside the
window, `OnePassAtATime`. Steps fall into four kinds with a lemma each: those
that touch neither table nor pass (`ElsewhereInv`), those after which the pass
has no rows (`PassOverInv`), statements of handlers (`StoreStepInv`), and
`Advance` (`AdvanceInv`); the three bookkeeping steps are done by hand.

`CookiePromisesProofs` adds what a request is told. `PromisesInv` joins to `IInv` that no
ciphertext is under a key still to come, that only the primary's pass purges and
keeps books, that what a sync has to store is either still on its list or stored
and unchanged but for expiry (`SyncUnderWay`), and that a row a clear selected, of
whatever path, is either still on its list or gone (`ClearUnderWay`). From it: `SyncCorrect`, `ClearCorrect`, and, as
a property of steps, `PassKeepsCorrect`.

The same module proves `LedgerImplemented`: `Spec => ImplementsLedger`, additionally
from `NoneIsNoEntry`. Initial states map to initial states; each action of the core
maps to one action of the ledger or to a stutter, one lemma per kind of step. The
invariant is needed in three places: a pass strikes and charges active rows only, a
charge is made at the threshold, and a row found dead is under an older key.

Its last theorem, `OneBumpCorrect`, is about the history variable `bumped`. Only the primary's
pass raises a streak (`RaisedByPrimary`), and it raises a row only while that is still on
its list and not yet judged (`MayCount`). `TickInv` says what that needs of the tick: the
pass is over the loop's target, nothing is counted before the primary's pass has read its
rows, and no row that it may still count has been counted. The theorem assumes
`PrimaryListedOnce`. `resolve_cdp_list_urls` copies the configured list without looking for
duplicates (`cdp.py:36-46`); a primary listed twice has two passes in a tick, and TLC
finds the property violated on such a list.

`PluginLifecycleProofs` proves `LifeInv`, and from it `StreakBesideCorrect` and
`VerdictsCorrect`, for any number of activations and any finite number of orphans
(`PlaceAssumption`). The core's `Bookkeeping` does not survive an
orphan: it may judge what the new pass holds as pending, and the other way round.
What does survive is an account (`StreaksLeaveRoom`): a row's streak, plus one for each of
the passes that may still count it (`OrphanTurns` counts the orphans), is within the
threshold, the interruptions and the deactivations; and an active row that the app's pass is
not judging is strictly below. A deactivation moves the pass's turn to the orphan and raises
the limit; a `Switch` moves turns from place to place and makes none (`ParkingCounts`). The
orphan needs no lemmas of its own: `Aside` is CookieReconcileProofs instantiated with the
orphan for the pass, so that `PassMove` - what any step of a pass may do to a row, whatever
else is at work - holds of both; a parked one does nothing.

`ProxyServiceProofs` proves `ProxyCorrect`: `ProxyTypeOK` and the core's `IInv` are
invariants of the two processes together (the run `proxy` checks `IInv`), for any set of workers (`MainAssumption`:
`Main` is not one of them). The steps of the app are covered by the core's lemmas; a
step of the proxy touches the table only by an upsert, and neither the pass nor the
loop (`BesideInv`), and an upsert leaves an active row with streak 0, which every
conjunct of `IInv` allows at any moment.

`CdpSessionProofs` proves, for any number of commands, `InvCorrect` and from it
`OrderCorrect` (replies are read in order and never twice) and `AnswersCorrect` (a
verdict is a real answer to a command sent before). From the same invariant,
`CountsCorrect`: two commands with the same verdict have different replies, so that the
verdicts counted are no more than the commands executed that way, by an injection into
them; and `LagCorrect`: the answered commands up to `c` have as many different replies, none
beyond `source[c]`, so that `c` minus that is at most the number of calls that returned
nothing. `CallsReturned` (every earlier call has returned) is needed for the second alone.
Neither of the first two is inductive alone: the
next reply is a later one than any used before because the replies used lie
behind `read` (`RepliesUsed`) while the client is inside the frame it reads
(`FrameIsCurrent`); a verdict stays true because the browser never executes a
command twice (`ExecutedInOrder`).

`KeyGuardProofs` proves `KeyInv` and from it `OneKeyCorrect`, `ReadableCorrect`,
`RefusalCorrect` and `SignaturesCorrect`, for any cookies, sources, requests and bounds
(`JobsAssumption`, `NothingAssumption`, `KeyBoundAssumption`). The strengthening says who can be
inside `_get_or_create_key` and with what: a pass asks only when there has been a key,
the handler finds the table at the write as it was at the guard, because it alone
changes it, and a key in hand is the current one.

`ConnectTunnelProofs` proves `MitmInv` and from it `PairCorrect`, `TrustCorrect`, `LeafCorrect` and
`RefusalExplained`, for any hosts, mintable or not, restarts and failed writes
(`PemAssumption`, `UnmintableAssumption`, `MitmBoundAssumption`). The certificate's file is written after the key's and is of the
same CA (`FilesMatch`), each step of the holder of the lock knows what is there
(`StepsAgree`), and without a failed write what is in memory is on the disk outside
the creation itself (`PersistedUnlessFailed`).

It then proves `TunnelImplementsCa`: `TunnelSpec => MitmSpec`, each step of a connection being a
step of the CA or none, so that those four hold of the pool too. `AnsweredOnce` and
`SplicedForAReason` follow from `TunnelInv`, for any finite set of connections, any number of
workers and any mixture of requests (`ConnAssumption`, `KindsAssumption`, `HostsAssumption`). `OneAnswer` is inductive
only with where an answer may have been given before (`AnswersSoFar`: on the way to the
fallback none, unless the socket has been cut), where a socket is cut (`CutByThen`), and that a
connection is in the queue once (`QueuedOnce`); `SplicedOnlyWhenRefused` with why each
connection on its way to the fallback is there (`FallbackExplained`), whose reasons last
(`TroubleLasts`), and with that the one at the CA is alone there (`AloneAtCa`), so that
what is refused is refused for its own host.

`WireProofs` proves the relay's `RelayInv` and from it `AnswersMatchCorrect` and `WholeCorrect`, for
any number of requests and any mixture of framings. The invariant is about the stream as a
whole, what has arrived and what is still to come: as long as no earlier response was
delimited by closing, all of it belongs to the current request, each piece may follow the
one before (`OneResponse`), and its first piece is one the relay's state expects
(`AtItsPiece`). Of the matching it proves `MatchSound` and `MatchComplete`, for texts of any length
over any alphabet with "/" and "." (`CharAssumption`, `RowsAssumption`, `UrlsAssumption`): `str.startswith`
and `str.endswith`, taken position by position (`PrefixAt`, `SuffixAt`), say the same as the
reference's sets of domains and directories (`DomainAgrees`, `PathAgrees`). `ParamsCorrect` is
`PassKeepsWhatSyncPut` for cookies of any strings.

Checked by proof only, and by no run of their own: the strengthenings `PromisesInv`, `TickInv`,
`LifeInv`, `KeyInv`, `MitmInv`, `TunnelInv`, `RelayInv` and the `IInv` of CdpSession, from which
properties that runs do check follow.

Every safety and action property of a passing run is so proved. Only model-checked are the
liveness properties, which need fairness and ENABLED and are out of the prover's reach:
`Converges`, `ConvergesWhileActive`, `RetiresWhileActive`, `ComesToRest`, `EachIsServed`,
`SessionEndsUnlessCut`, `AskedIsAnswered`, `FlowsEnd` and `LiveIsPersisted`. Nothing of CookiesPanel is
proved for that reason: its two promises are of this kind. No module declares a RECURSIVE
operator.

## Not modelled

- `_forward_http` for plain requests: it keeps no state, but may answer twice, since an
  origin that fails inside its body (`proxy_server.py:528`) makes it send a 502 behind
  the status line it has passed on. `OneAnswer` is about the kinds of connection that
  ConnectTunnel has, not about these;
- how the allowed networks are configured and request signing, the rewriting of headers, WebSocket
  framing bytes and what is on the wire after an upgrade, the contents of certificates;
- the log: summaries and the chronic streak of `plugin.py:141-163` decide the level and
  wording of lines only;
- the migrations; build, release and manifest files; the extensions' user interface,
  one click of which posts one request;
- `/json/list` beyond whether a page is there, `captured_at` and the listing of
  signatures, `counts` and the other routes that only read.

In what is modelled: a row whose date passes between a pass's snapshot and its command
is pushed as it was at the snapshot; the case of domains and
blanks around them are left out of CookieMatch, and there is no rule for IP
addresses in the code; an empty value is in KeyGuard only.
