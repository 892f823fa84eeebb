----------------------------- MODULE CdpSession -----------------------------
(***************************************************************************)
(* One use of the CDP client of cdp.py: open_ws, then one send_recv after  *)
(* the other over that socket - what a pass, a sync or a clear does with a *)
(* browser.  send_recv takes whatever frame arrives next for its answer:   *)
(* it never compares the reply's id with its own.                          *)
(*                                                                         *)
(* The browser executes the commands in order and answers each with one    *)
(* frame, a header and a payload.  So the stream into the client is the    *)
(* numbers 1, 2, 3, ...: piece 2k-1 is the header of the reply to command  *)
(* k and piece 2k its payload, and two counters say how much of it has     *)
(* been written and read.  A client that starts a frame at a payload       *)
(* (because an earlier call gave up half way) takes its length from a text *)
(* and reads some garbled part of the stream.                              *)
(***************************************************************************)
EXTENDS Naturals, FiniteSets

CONSTANT N      \* the number of commands

ASSUME NAssumption == N \in Nat

VARIABLES
    stage,      \* where the client is
    cmd,        \* its current command, the msg_id
    frame,      \* whose reply's header it has read last, 0 for a garbled one
    open,       \* the browser's end of the connection is open
    greeted,    \* the browser has answered the handshake
    sent,       \* commands the browser has received
    executed,   \* commands it has executed
    written,    \* pieces of replies that arrive at the client
    read,       \* pieces the client has consumed
    outcome,    \* what the browser did with each command
    verdict,    \* what send_recv returned for it
    source      \* whose reply that was taken from

vars == <<stage, cmd, frame, open, greeted, sent, executed, written, read,
          outcome, verdict, source>>
browserVars == <<open, greeted, sent, executed, written, outcome>>

Command == 1..N
Stage   == {"dial", "handshake", "send", "header", "payload",
            "done", "raised", "spin"}
Over    == stage \in {"done", "raised"}

ConnectionOK == open \in BOOLEAN /\ greeted \in BOOLEAN
TypeOK ==
    /\ stage \in Stage
    /\ cmd \in 1..(N + 1)
    /\ frame \in 0..N
    /\ ConnectionOK
    /\ sent \in 0..N /\ executed \in 0..sent
    /\ written \in 0..(2 * executed) /\ read \in 0..written
    /\ outcome \in [Command -> {"none", "taken", "refused"}]
    /\ verdict \in [Command -> {"none", "taken", "refused", "unanswered"}]
    /\ source \in [Command -> 0..N]
    /\ stage \in {"header", "payload"} => cmd \in Command

Init ==
    /\ stage = "dial" /\ cmd = 1 /\ frame = 0
    /\ open = TRUE /\ greeted = FALSE
    /\ sent = 0 /\ executed = 0 /\ written = 0 /\ read = 0
    /\ outcome = [k \in Command |-> "none"]
    /\ verdict = [k \in Command |-> "none"]
    /\ source = [k \in Command |-> 0]

-----------------------------------------------------------------------------
(* open_ws.                                                                *)

Dial ==
    /\ stage = "dial"
    /\ stage' \in {"handshake", "raised"}
    /\ UNCHANGED <<cmd, frame, read, verdict, source, browserVars>>

\* the blank line is there: what the answer says is not looked at
HandshakeAnswered ==
    /\ stage = "handshake" /\ greeted
    /\ stage' = "send"
    /\ UNCHANGED <<cmd, frame, read, verdict, source, browserVars>>

\* ... it is not, and recv returns nothing, again and again; or it raises
HandshakeUnanswered ==
    /\ stage = "handshake" /\ ~greeted
    /\ stage' = IF open THEN "raised" ELSE "spin"
    /\ UNCHANGED <<cmd, frame, read, verdict, source, browserVars>>

-----------------------------------------------------------------------------
(* send_recv.                                                              *)

\* sendall is outside the try.  Into a connection the browser has closed it
\* raises, unless nobody has told the kernel yet.
Send ==
    /\ stage = "send" /\ cmd \in Command
    /\ \/ /\ open
          /\ sent' = cmd /\ stage' = "header"
       \/ /\ ~open
          /\ stage' \in {"header", "raised"} /\ UNCHANGED sent
    /\ UNCHANGED <<cmd, frame, open, greeted, executed, written, read, outcome,
                   verdict, source>>

Close ==
    /\ stage = "send" /\ cmd = N + 1
    /\ stage' = "done"
    /\ UNCHANGED <<cmd, frame, read, verdict, source, browserVars>>

\* send_recv returns v, taken from the reply to command k
Returns(v, k) ==
    /\ verdict' = [verdict EXCEPT ![cmd] = v]
    /\ source' = [source EXCEPT ![cmd] = k]
    /\ cmd' = cmd + 1
    /\ stage' = "send"

\* mutant: the result of the previous call is still in the variable
GivesUpWithLast ==
    IF cmd = 1 THEN Returns("unanswered", 0)
    ELSE Returns(verdict[cmd - 1], source[cmd - 1])

\* mutant: an empty result, which callers take for a rejection
GivesUpEmpty == Returns("refused", 0)

\* the except clause: any exception is None
GivesUp == Returns("unanswered", 0)

\* mutant: the header is read in a loop, as the payload is
HeaderMissingSpins ==
    /\ stage = "header"
    /\ IF open THEN GivesUp ELSE stage' = "spin" /\ UNCHANGED <<cmd, verdict, source>>
    /\ UNCHANGED <<frame, read, browserVars>>

\* recv(2) times out, or the connection is closed and header[1] fails
HeaderMissing ==
    /\ stage = "header"
    /\ GivesUp
    /\ UNCHANGED <<frame, read, browserVars>>

\* recv of the header or of the extended length returned fewer bytes
HeaderShort ==
    /\ stage = "header" /\ read < written
    /\ read' = read + 1
    /\ GivesUp
    /\ UNCHANGED <<frame, browserVars>>

HeaderRead ==
    /\ stage = "header" /\ read < written
    /\ \E k \in Command : read = 2 * (k - 1) /\ frame' = k
    /\ read' = read + 1
    /\ stage' = "payload"
    /\ UNCHANGED <<cmd, verdict, source, browserVars>>

\* the client is not at the start of a frame, and takes what is there for one
HeaderMisread ==
    /\ stage = "header" /\ read < written
    /\ \E k \in Command : read = 2 * k - 1
    /\ frame' = 0
    /\ read' \in (read + 1)..written
    /\ stage' = "payload"
    /\ UNCHANGED <<cmd, verdict, source, browserVars>>

PayloadRead ==
    /\ stage = "payload" /\ frame # 0 /\ read < written
    /\ read' = read + 1
    /\ Returns(outcome[frame], frame)
    /\ UNCHANGED <<frame, browserVars>>

\* a recv of the payload times out
PayloadLate ==
    /\ stage = "payload" /\ frame # 0 /\ open
    /\ GivesUp
    /\ UNCHANGED <<frame, read, browserVars>>

\* some stretch of the stream that is no JSON, or a timeout waiting for more
PayloadGarbled ==
    /\ stage = "payload" /\ frame = 0
    /\ read' \in read..written
    /\ GivesUp
    /\ UNCHANGED <<frame, browserVars>>

\* the connection is closed before payload_len bytes have come: recv returns
\* nothing, again and again
PayloadCut ==
    /\ stage = "payload" /\ ~open
    /\ frame = 0 \/ read = written
    /\ stage' = "spin"
    /\ UNCHANGED <<cmd, frame, read, verdict, source, browserVars>>

ClientStep ==
    \/ Dial \/ HandshakeAnswered \/ HandshakeUnanswered
    \/ Send \/ Close
    \/ HeaderMissing \/ HeaderShort \/ HeaderRead \/ HeaderMisread
    \/ PayloadRead \/ PayloadLate \/ PayloadGarbled \/ PayloadCut

-----------------------------------------------------------------------------
(* The browser.                                                            *)

Greet ==
    /\ open /\ ~greeted /\ stage = "handshake"
    /\ greeted' = TRUE
    /\ UNCHANGED <<stage, cmd, frame, open, sent, executed, written, read,
                   outcome, verdict, source>>

\* at its own pace, also when the client has given up or left
Execute ==
    /\ open /\ executed < sent
    /\ executed' = executed + 1
    /\ written' = written + 2
    /\ \E o \in {"taken", "refused"} :
        outcome' = [outcome EXCEPT ![executed + 1] = o]
    /\ UNCHANGED <<stage, cmd, frame, open, greeted, sent, read, verdict, source>>

\* it stops, or closes the page; pieces under way may be lost
Hangup ==
    /\ open /\ stage # "dial"
    /\ open' = FALSE
    /\ written' \in read..written
    /\ UNCHANGED <<stage, cmd, frame, greeted, sent, executed, read, outcome,
                   verdict, source>>

BrowserStep == Greet \/ Execute \/ Hangup

Next == ClientStep \/ BrowserStep

Spec == Init /\ [][Next]_vars

\* Every wait of the client has a timeout, so it goes on; nothing is assumed of
\* the browser.
FairSpec == Spec /\ WF_vars(ClientStep)

-----------------------------------------------------------------------------
Answered   == {c \in Command : source[c] # 0}
Unanswered == {c \in Command : verdict[c] = "unanswered"}

\* No reply is read for two commands, and replies are read in the order of the
\* commands, however many calls give up and at whatever byte.
AnswersInOrder ==
    \A c, d \in Answered : c < d => source[c] < source[d]

\* A verdict is a real answer of the browser to a command sent before: there is
\* no verdict without a reply.
AnswersAreReal ==
    \A c \in Command : verdict[c] \in {"taken", "refused"} =>
        c \in Answered /\ source[c] <= c /\ verdict[c] = outcome[source[c]]

\* What makes the two above inductive: the client is never ahead of the browser,
\* a frame it reads the payload of is the one it is inside of, the replies used
\* so far lie behind it, calls to come have neither verdict nor reply, and every
\* call made has returned something.
FrameIsCurrent == stage = "payload" /\ frame # 0 => read = 2 * frame - 1
ExecutedInOrder ==
    \A k \in Command : outcome[k] # "none" <=> k <= executed
VerdictsUpToNow ==
    \A c \in Command : c >= cmd => verdict[c] = "none" /\ source[c] = 0
CallsReturned ==
    \A c \in Command : c < cmd => verdict[c] # "none"
RepliesUsed ==
    \A c \in Answered : 2 * source[c] <= read
IInv ==
    /\ TypeOK
    /\ sent <= cmd
    /\ FrameIsCurrent /\ ExecutedInOrder
    /\ VerdictsUpToNow /\ CallsReturned /\ RepliesUsed
    /\ AnswersInOrder /\ AnswersAreReal

\* A verdict is late by at most one command for every call before it that gave
\* up; in particular, it is the command's own if none did.
LagIsExplained ==
    \A c \in Answered :
        c - source[c] <= Cardinality({d \in Unanswered : d < c})

\* The counts a caller reports (injected, rejected) never exceed what the
\* browser really took and refused.
CountsAreEarned ==
    \A v \in {"taken", "refused"} :
        Cardinality({c \in Command : verdict[c] = v})
            <= Cardinality({k \in Command : outcome[k] = v})

\* Liveness.  Unless the browser closes while the client is inside the handshake
\* or a payload, every use of the client comes to an end.
EndsUnlessCut ==
    [](open \/ stage \notin {"handshake", "payload"}) => <>Over

\* Whatever the browser does the client comes to an end, so that one target's
\* going down does not keep the loop from the others (plugin.py, the loop).
Ends == <>Over
=============================================================================
