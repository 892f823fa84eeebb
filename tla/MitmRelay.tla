------------------------------ MODULE MitmRelay ------------------------------
(***************************************************************************)
(* The relay inside an intercepted connection (proxy_server.py,            *)
(* _relay_http): it reads a request from the client, forwards it, reads the*)
(* origin's response to its end and forwards that, one exchange after the  *)
(* other.  The origin delimits a response in one of several ways, and may  *)
(* close at any piece of it; the client waits for a response before it asks*)
(* again, and may leave.                                                   *)
(*                                                                         *)
(* A message is a few pieces: a head, then what _read_body reads.          *)
(***************************************************************************)
EXTENDS Naturals, Sequences

CONSTANT MaxRequests        \* bound: requests of the client
ASSUME RelayBoundAssumption == MaxRequests \in Nat

VARIABLES
    relay,              \* where it is
    asked, waiting,     \* requests the client has sent; whether it waits
    present,            \* the client is there
    outbox, wire,       \* pieces the origin has still to send, and has sent
    origin,             \* the origin's end is open
    unended,            \* the responses that only closing would end
    response,           \* what the relay has read of the current response
    received            \* the last one the client received

relayVars == <<relay, asked, waiting, present, outbox, wire, origin, unended, response,
               received>>

\* how a response says where it ends; an early hint has none and another follows,
\* the answer to a HEAD has a Content-Length and no body
Framing == {"length", "chunked", "untilClose", "hint", "head"}

Body == [length     |-> <<"body">>,
         chunked    |-> <<"chunk", "chunk", "last", "blank">>,
         untilClose |-> <<"body">>,
         hint       |-> <<"length", "body">>,
         head       |-> <<>>]

\* the pieces of response k; a head is the name of its framing
Message(k, framing) == [i \in 1..(1 + Len(Body[framing])) |->
                          [of |-> k, is |-> (<<framing>> \o Body[framing])[i]]]

NoResponse == [of |-> 0, is |-> "length", whole |-> TRUE]

RelayInit ==
    /\ relay = "request" /\ asked = 0 /\ waiting = FALSE /\ present = TRUE
    /\ outbox = <<>> /\ wire = <<>> /\ origin = TRUE /\ unended = {}
    /\ response = NoResponse /\ received = NoResponse

-----------------------------------------------------------------------------
ClientAsks ==
    /\ present /\ ~waiting /\ relay \notin {"closed", "spliced"} /\ asked < MaxRequests
    /\ asked' = asked + 1 /\ waiting' = TRUE
    /\ UNCHANGED <<relay, present, outbox, wire, origin, unended, response,
                   received>>

ClientLeaves ==
    /\ present /\ present' = FALSE
    /\ UNCHANGED <<relay, asked, waiting, outbox, wire, origin, unended, response,
                   received>>

\* the origin answers the request it has got: pieces, headed by the number
OriginAnswers ==
    /\ origin /\ outbox = <<>> /\ relay = "head" /\ wire = <<>>
    /\ \E framing \in Framing :
        /\ outbox' = Message(asked, framing)
        /\ unended' = IF framing = "untilClose" THEN unended \cup {asked} ELSE unended
    /\ UNCHANGED <<relay, asked, waiting, present, wire, origin, response, received>>

OriginSends ==
    /\ origin /\ outbox # <<>>
    /\ wire' = Append(wire, Head(outbox)) /\ outbox' = Tail(outbox)
    /\ UNCHANGED <<relay, asked, waiting, present, origin, unended, response,
                   received>>

OriginCloses ==
    /\ origin /\ origin' = FALSE /\ outbox' = <<>>
    /\ UNCHANGED <<relay, asked, waiting, present, wire, unended, response,
                   received>>

-----------------------------------------------------------------------------
PeersUnchanged == UNCHANGED <<asked, present, outbox, origin, unended>>

\* _read_message_head of the client, _read_body and the request's way out; after
\* a request to upgrade the two sockets are spliced (ConnectTunnel)
RelayForwards ==
    /\ relay = "request"
    /\ \/ waiting /\ received.of < asked /\ relay' \in {"head", "spliced"}
       \/ ~present /\ relay' = "closed"
    /\ PeersUnchanged /\ UNCHANGED <<waiting, wire, response, received>>

Reads == wire # <<>> /\ wire' = Tail(wire)

\* whatever comes next is taken for a head; what is none has no framing
RelayReadsHead ==
    /\ relay = "head" /\ Reads
    /\ LET p == Head(wire) IN
        /\ response' = [of |-> p.of, is |-> p.is,
                        whole |-> p.is \in Framing \ {"untilClose"}]
        /\ relay' = CASE p.is \in {"length", "head"} -> "body"
                      [] p.is = "chunked"            -> "chunks"
                      [] OTHER                       -> "answer"
    /\ PeersUnchanged /\ UNCHANGED <<waiting, received>>

\* mutant: the blank line after the last chunk is left in the stream
RelayReadsBodyShort ==
    /\ relay \in {"body", "chunks"} /\ Reads
    /\ relay' = IF Head(wire).is = "chunk" THEN "chunks" ELSE "answer"
    /\ PeersUnchanged /\ UNCHANGED <<waiting, response, received>>

\* _read_body
RelayReadsBody ==
    /\ relay \in {"body", "chunks", "trailer"} /\ Reads
    /\ relay' = CASE Head(wire).is = "chunk" -> "chunks"
                  [] Head(wire).is = "last"  -> "trailer"
                  [] OTHER                -> "answer"
    /\ PeersUnchanged /\ UNCHANGED <<waiting, response, received>>

\* the end of the stream: before a head it ends the relay; inside a body it ends
\* the body
RelayReadsEnd ==
    /\ relay \in {"head", "body", "chunks", "trailer"} /\ wire = <<>> /\ ~origin
    /\ relay' = IF relay = "head" THEN "closed" ELSE "answer"
    /\ response' = IF relay \in {"body", "chunks"}
                   THEN [response EXCEPT !.whole = response.is = "head"] ELSE response
    /\ PeersUnchanged /\ UNCHANGED <<waiting, wire, received>>

\* mutant: what has been read by then is the body
RelayTimesOutShort ==
    /\ relay \in {"head", "body", "chunks", "trailer"} /\ wire = <<>> /\ origin
    /\ relay' = IF relay = "head" THEN "closed" ELSE "answer"
    /\ response' = [response EXCEPT !.whole = relay = "trailer"]
    /\ PeersUnchanged /\ UNCHANGED <<waiting, wire, received>>

\* mutant: the timeout of the dial is taken off again
RelayTimesOutNever == FALSE /\ UNCHANGED relayVars

\* the timeout the connection was dialled with
RelayTimesOut ==
    /\ relay \in {"head", "body", "chunks", "trailer"} /\ wire = <<>> /\ origin
    /\ relay' = "closed"
    /\ PeersUnchanged /\ UNCHANGED <<waiting, wire, response, received>>

\* the response with a Content-Length of what was read; either side may have
\* asked for the connection to be closed after it.  A client takes a hint for
\* what it is, and waits on.
RelayAnswers ==
    /\ relay = "answer"
    /\ \/ /\ present
          /\ received' = response /\ waiting' = (response.is = "hint")
          /\ relay' \in {"request", "closed"}
       \/ /\ ~present
          /\ relay' = "closed" /\ UNCHANGED <<received, waiting>>
    /\ PeersUnchanged /\ UNCHANGED <<wire, response>>

RelayStep == \/ RelayForwards \/ RelayReadsHead \/ RelayReadsBody \/ RelayReadsEnd
             \/ RelayTimesOut \/ RelayAnswers

RelayNext == \/ ClientAsks \/ ClientLeaves \/ OriginAnswers \/ OriginSends \/ OriginCloses
             \/ RelayStep

RelaySpec     == RelayInit /\ [][RelayNext]_relayVars
FairRelaySpec == RelaySpec /\ WF_relayVars(RelayStep)

-----------------------------------------------------------------------------
\* Whatever mixture of framings the origin uses, a client never gets the answer
\* to another request, nor a piece of one - but for one case: _read_body takes a
\* response that is delimited by closing for an empty one, and what is left of
\* it in the stream is read as the next head.
AnswersMatch ==
    ~waiting /\ received.of # asked => \E k \in unended : k < asked

\* A response that is passed on as complete is complete, unless the origin closed
\* inside it or delimits it by closing: a timeout never passes for an end.
WholeUnlessClosed == received.whole \/ ~origin \/ unended # {}

\* What makes the two above inductive.  The origin's current response, what of it
\* has arrived and what is still to come, is all that is in the stream, and the
\* relay is at the piece its state says - unless an earlier response was one that
\* only closing ends.
Kind  == Framing \cup {"body", "chunk", "last", "blank"}
Piece == [of: Nat, is: Kind]
After == [length |-> {"body"}, chunked |-> {"chunk"}, untilClose |-> {"body"},
          hint |-> {"length"}, head |-> {}, chunk |-> {"chunk", "last"},
          last |-> {"blank"}, body |-> {}, blank |-> {}]
May   == [head |-> Framing, body |-> {"body"}, chunks |-> {"chunk", "last"},
          trailer |-> {"blank"}]
Inside == {"body", "chunks", "trailer"}

RelayTypeOK ==
    /\ relay \in {"request", "head", "answer", "closed", "spliced"} \cup Inside
    /\ asked \in Nat /\ waiting \in BOOLEAN /\ present \in BOOLEAN /\ origin \in BOOLEAN
    /\ outbox \in Seq(Piece) /\ wire \in Seq(Piece) /\ unended \subseteq Nat
    /\ response \in [of: Nat, is: Kind, whole: BOOLEAN]
    /\ received \in [of: Nat, is: Kind, whole: BOOLEAN]

Clean == \A k \in unended : k >= asked
Rest  == wire \o outbox

OneResponse(rest) ==
    /\ \A i \in 1..Len(rest) :
            /\ rest[i].of = asked
            /\ rest[i].is = "untilClose" => asked \in unended
    /\ \A i \in 1..(Len(rest) - 1) : rest[i + 1].is \in After[rest[i].is]
AtItsPiece(rest) ==
    /\ relay \in DOMAIN May /\ rest # <<>> => rest[1].is \in May[relay]
    /\ relay = "answer" /\ rest # <<>> => asked \in unended \/ response.is = "hint"
    /\ relay = "request" /\ rest # <<>> =>
            asked \in unended \/ (waiting /\ received.of = asked)
    /\ relay = "request" /\ waiting /\ received.of # asked => rest = <<>>
AnswersCurrent ==
    /\ relay \in Inside \cup {"answer"} => response.of = asked
    /\ ~waiting => received.of = asked

RelayInv ==
    /\ RelayTypeOK
    /\ ~origin => outbox = <<>>
    /\ relay \in Inside \cup {"head", "answer"} => waiting
    /\ Clean => OneResponse(Rest) /\ AtItsPiece(Rest) /\ AnswersCurrent
    /\ response.whole \/ ~origin \/ unended # {}
    /\ WholeUnlessClosed

\* A request is answered, or the connection closed on it, in the end - whether
\* or not the origin ever answers - or it was one to upgrade.  The exception is an early
\* hint, after which client and relay wait for each other.
AskedIsAnswered ==
    waiting ~> (~waiting \/ relay \in {"closed", "spliced"} \/ received.is = "hint")
=============================================================================
