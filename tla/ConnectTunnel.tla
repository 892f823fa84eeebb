---------------------------- MODULE ConnectTunnel ----------------------------
(***************************************************************************)
(* The connections of the proxy process (proxy_server.py) and the pool of  *)
(* workers that serves them: CONNECT to a host that is intercepted, CONNECT*)
(* to one that is not, GET /mitm-ca.pem, and either from a client that is  *)
(* not allowed.  An intercepted connection goes through the CA (MitmCa,    *)
(* under its lock), is answered 200, shakes hands with the client, dials   *)
(* the origin and relays (MitmRelay); when any of that raises, do_CONNECT  *)
(* falls back to a raw tunnel.                                             *)
(*                                                                         *)
(* wrap_socket takes the descriptor away from self.connection, so what the *)
(* fallback writes after that raises EBADF and ends the connection.        *)
(***************************************************************************)
EXTENDS MitmCa, FiniteSets, Sequences

CONSTANTS
    Conn,       \* the connections
    Kinds,      \* what each of them may ask for
    Workers     \* max_workers of the pool

ASSUME ConnAssumption  == IsFiniteSet(Conn)
Kind == {"raw", "pem", "barred"} \cup Host

ASSUME KindsAssumption == Kinds \subseteq [Conn -> Kind]
ASSUME HostsAssumption == {"raw", "pem", "barred"} \cap Host = {}

VARIABLES
    kind,       \* kind[c]: what c asks for; a host if it is to be intercepted
    conn,       \* conn[c]: where it is
    queue,      \* the pool's queue
    answers,    \* answers[c]: status lines c has been sent
    cut,        \* the connections whose socket wrap_socket has taken
    client, origin,     \* whether the two peers of c are still there
    halves,     \* halves[c]: the forwarding threads of c's tunnel that run
    told        \* the origins whose connection has been shut down for writing

connVars   == <<kind, conn, queue, answers, cut, client, origin, halves, told>>
tunnelVars == <<mitmVars, connVars>>
peers      == <<client, origin>>
splice     == <<halves, told>>

\* process_request has submitted every connection to the pool; a worker may take
\* its time, so that nothing is lost by their arriving at once
TunnelInit ==
    /\ MitmInit
    /\ kind \in Kinds
    /\ conn = [c \in Conn |-> "queued"]
    /\ queue \in {q \in [1..Cardinality(Conn) -> Conn] : {q[i] : i \in DOMAIN q} = Conn}
    /\ answers = [c \in Conn |-> 0]
    /\ cut = {}
    /\ client = Conn /\ origin = Conn
    /\ halves = [c \in Conn |-> {}] /\ told = {}

Busy == {c \in Conn : conn[c] \notin {"queued", "closed"}}

Goes(c, to) == conn' = [conn EXCEPT ![c] = to]
Answered(c) == answers' = [answers EXCEPT ![c] = @ + 1]

-----------------------------------------------------------------------------
\* a worker takes the oldest
WorkerTakes ==
    /\ queue # <<>> /\ Cardinality(Busy) < Workers
    /\ queue' = Tail(queue)
    /\ Goes(Head(queue), "start")
    /\ UNCHANGED <<mitmVars, kind, answers, cut, peers, splice>>

Asked(c) == IF kind[c] = "pem" THEN Pem ELSE kind[c]

\* do_CONNECT and _forward_http up to the CA: a client that is not allowed is hung
\* up on at once, any other waits for the lock; the pem's 200 is sent before it
Starts(c) ==
    /\ conn[c] = "start"
    /\ \/ kind[c] = "barred" /\ Goes(c, "closed") /\ UNCHANGED <<answers, mitmVars>>
       \/ kind[c] = "raw" /\ Goes(c, "dial") /\ UNCHANGED <<answers, mitmVars>>
       \/ kind[c] \in Host /\ Goes(c, "ca") /\ UNCHANGED answers /\ Acquire(Asked(c))
       \/ kind[c] = "pem" /\ Goes(c, "ca") /\ Answered(c) /\ Acquire(Asked(c))
    /\ UNCHANGED <<kind, queue, cut, peers, splice>>

CaWorks == CaStep /\ UNCHANGED connVars

\* a CA that raises leaves a CONNECT to the raw tunnel
LeavesCa(c) ==
    /\ conn[c] = "ca" /\ Release
    /\ Goes(c, IF kind[c] = "pem" THEN "closed" ELSE IF step = "raised" THEN "dial" ELSE "setup")
    /\ UNCHANGED <<kind, queue, answers, cut, peers, splice>>

\* 200; a client that has gone may make the write raise
SetsUp(c) ==
    /\ conn[c] = "setup"
    /\ \/ Goes(c, "shake") /\ Answered(c)
       \/ c \notin client /\ Goes(c, "dial") /\ UNCHANGED answers
    /\ UNCHANGED <<mitmVars, kind, queue, cut, peers, splice>>

\* mutant: the fallback still holds the client's socket
ShakesHandsWhole(c) ==
    /\ conn[c] = "shake"
    /\ \/ c \in client /\ Goes(c, "origin")
       \/ Goes(c, "dial")
    /\ UNCHANGED <<mitmVars, kind, queue, answers, cut, peers, splice>>

\* wrap_socket with the client: done, or refused by either side
ShakesHands(c) ==
    /\ conn[c] = "shake"
    /\ \/ c \in client /\ Goes(c, "origin")
       \/ Goes(c, "dial")
    /\ cut' = cut \cup {c}
    /\ UNCHANGED <<mitmVars, kind, queue, answers, peers, splice>>

\* create_connection and the TLS handshake with the origin
DialsOrigin(c) ==
    /\ conn[c] = "origin"
    /\ \/ c \in origin /\ Goes(c, "relay")
       \/ Goes(c, "dial")
    /\ UNCHANGED <<mitmVars, kind, queue, answers, cut, peers, splice>>

\* the relay reads the end of the client's requests
RelayEnds(c) ==
    /\ conn[c] = "relay" /\ c \notin client
    /\ Goes(c, "closed")
    /\ UNCHANGED <<mitmVars, kind, queue, answers, cut, peers, splice>>

\* a request to upgrade: what follows is no longer messages, and _tunnel takes the
\* timeouts off both sockets
Upgrades(c) ==
    /\ conn[c] = "relay" /\ c \in client
    /\ Goes(c, "upgraded")
    /\ halves' = [halves EXCEPT ![c] = {"up", "down"}]
    /\ UNCHANGED <<mitmVars, kind, queue, answers, cut, peers, told>>

\* the raw tunnel's own connection to the origin, and its 200 or 502
Dials(c) ==
    /\ conn[c] = "dial"
    /\ \E reached \in {(c \in origin), FALSE} :
        IF c \in cut THEN Goes(c, "closed") /\ UNCHANGED <<answers, halves>>
        ELSE \/ /\ Answered(c)
                /\ Goes(c, IF reached THEN "tunnel" ELSE "closed")
                /\ halves' = IF reached THEN [halves EXCEPT ![c] = {"up", "down"}] ELSE halves
             \/ /\ c \notin client
                /\ Goes(c, "closed") /\ UNCHANGED <<answers, halves>>
    /\ UNCHANGED <<mitmVars, kind, queue, cut, peers, told>>

Half      == {"up", "down"}
Source(c, half) == IF half = "up" THEN c \in client ELSE c \in origin

\* mutant: the sink is not told
HalfEndsMutely(c, half) ==
    /\ half \in halves[c]
    /\ halves' = [halves EXCEPT ![c] = @ \ {half}]
    /\ UNCHANGED <<mitmVars, kind, conn, queue, answers, cut, peers, told>>

\* a forwarder ends: its sink is shut down for writing
HalfEnds(c, half) ==
    /\ half \in halves[c]
    /\ halves' = [halves EXCEPT ![c] = @ \ {half}]
    /\ told' = IF half = "up" THEN told \cup {c} ELSE told
    /\ UNCHANGED <<mitmVars, kind, conn, queue, answers, cut, peers>>

\* the source has ended
SourceEnds(c, half) == ~Source(c, half) /\ HalfEnds(c, half)

\* both joins return
TunnelEnds(c) ==
    /\ conn[c] \in {"tunnel", "upgraded"} /\ halves[c] = {}
    /\ Goes(c, "closed")
    /\ UNCHANGED <<mitmVars, kind, queue, answers, cut, peers, splice>>

ServeStep(c) ==
    \/ Starts(c) \/ LeavesCa(c) \/ SetsUp(c) \/ ShakesHands(c) \/ DialsOrigin(c)
    \/ RelayEnds(c) \/ Dials(c) \/ TunnelEnds(c)
    \/ \E half \in Half : SourceEnds(c, half)

\* what peers that stay may bring about: a response that closes the connection,
\* an origin that is lost in the middle of one, data for a sink that has gone
PeersEnd(c) ==
    \/ /\ conn[c] = "relay"
       /\ Goes(c, "closed")
       /\ UNCHANGED <<mitmVars, kind, queue, answers, cut, peers, splice>>
    \/ Upgrades(c)
    \/ "up" \in halves[c] /\ c \notin origin /\ HalfEnds(c, "up")
    \/ "down" \in halves[c] /\ c \notin client /\ HalfEnds(c, "down")

-----------------------------------------------------------------------------
ClientGoes(c) ==
    /\ c \in client /\ c \in Busy
    /\ client' = client \ {c}
    /\ UNCHANGED <<mitmVars, kind, conn, queue, answers, cut, origin, splice>>

OriginGoes(c) ==
    /\ c \in origin /\ c \in Busy
    /\ origin' = origin \ {c}
    /\ UNCHANGED <<mitmVars, kind, conn, queue, answers, cut, client, splice>>

\* the proxy process ends and is started again: the connections it was serving
\* are lost, those that were waiting try again
ProxyDies ==
    /\ MitmCrash
    /\ conn' = [c \in Conn |-> IF c \in Busy THEN "closed" ELSE conn[c]]
    /\ halves' = [c \in Conn |-> {}]
    /\ UNCHANGED <<kind, queue, answers, cut, peers, told>>

TunnelNext ==
    \/ \E c \in Conn : ServeStep(c) \/ PeersEnd(c) \/ ClientGoes(c) \/ OriginGoes(c)
    \/ WorkerTakes \/ CaWorks \/ ProxyDies

\* The workers run.  No socket of a client has a timeout (timeout = None), so a
\* client has to go in the end; an origin may stay until it is told that its
\* client has.  Nothing is assumed of the lock's fairness: a connection takes it
\* once, so that those before it in the end leave it free, and it stays so.
TunnelFairness ==
    /\ WF_tunnelVars(WorkerTakes) /\ WF_tunnelVars(CaWorks)
    /\ \A c \in Conn : /\ WF_tunnelVars(ServeStep(c))
                       /\ WF_tunnelVars(ClientGoes(c))
                       /\ WF_tunnelVars(c \in told /\ OriginGoes(c))

TunnelSpec     == TunnelInit /\ [][TunnelNext]_tunnelVars
FairTunnelSpec == TunnelSpec /\ TunnelFairness

-----------------------------------------------------------------------------
\* A connection is answered at most once, though the interception and the
\* fallback after it each send a status line.
OneAnswer == \A c \in Conn : answers[c] <= 1

\* A host that is to be intercepted is spliced raw for one of three reasons only:
\* the CA was refused, no leaf can be minted for the host, or the client had gone
\* before it was told anything - never after a failed handshake, and never for an
\* origin that did not answer.
SplicedOnlyWhenRefused ==
    \A c \in Conn : conn[c] = "tunnel" /\ kind[c] \in Host =>
        tornCrt \/ failedWrites > 0 \/ kind[c] \in Unmintable \/ c \notin client

\* What makes the two above inductive.  No connection is in the queue twice; a
\* status line is sent once on every way to where a connection is; the socket is
\* gone once the handshake has been tried; the connection that is at the CA is
\* alone there, and the CA works for it; and an intercepted connection whose
\* socket is whole comes to the fallback for one of the three reasons.
Place == {"queued", "start", "ca", "setup", "shake", "origin", "relay", "upgraded",
          "dial", "tunnel", "closed"}

TunnelTypeOK ==
    /\ kind \in [Conn -> Kind] /\ conn \in [Conn -> Place]
    /\ queue \in Seq(Conn) /\ answers \in [Conn -> Nat]
    /\ cut \subseteq Conn /\ client \subseteq Conn
QueuedOnce ==
    /\ \A i \in 1..Len(queue) : conn[queue[i]] = "queued"
    /\ \A i, j \in 1..Len(queue) : queue[i] = queue[j] => i = j
AnswersSoFar ==
    \A c \in Conn :
        /\ conn[c] \in {"queued", "start", "setup"} => answers[c] = 0
        /\ conn[c] = "ca" => answers[c] = IF kind[c] = "pem" THEN 1 ELSE 0
        /\ conn[c] = "dial" => answers[c] = 0 \/ c \in cut
CutByThen ==
    \A c \in Conn : (conn[c] = "origin" => c \in cut) /\ (conn[c] = "tunnel" => c \notin cut)
AloneAtCa ==
    \A c \in Conn : conn[c] = "ca" =>
        /\ step # "free" /\ want = Asked(c)
        /\ \A d \in Conn : conn[d] = "ca" => d = c
FallbackExplained ==
    \A c \in Conn : conn[c] \in {"dial", "tunnel"} /\ kind[c] \in Host /\ c \notin cut =>
        tornCrt \/ failedWrites > 0 \/ kind[c] \in Unmintable \/ c \notin client
TunnelInv ==
    /\ MitmInv /\ TunnelTypeOK /\ QueuedOnce /\ AloneAtCa
    /\ AnswersSoFar /\ OneAnswer /\ CutByThen /\ FallbackExplained

\* The pool runs dry for as long as the peers of its connections stay and no
\* longer: everything queued is served in the end - no worker is lost to a CA
\* that raises, a handshake that fails or a tunnel with one end gone.
EachIsServed == <>(\A c \in Conn : conn[c] = "closed")
=============================================================================
