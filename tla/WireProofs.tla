------------------------------ MODULE WireProofs ------------------------------
(***************************************************************************)
(* What goes over the wire: the relay inside an intercepted connection,    *)
(* which cookies a request gets from the store, and what a cookie is when  *)
(* a browser is sent it.                                                   *)
(*                                                                         *)
(* The relay: for any number of exchanges and any mixture of framings, a   *)
(* client gets the answer to its own request and gets all of it, with the  *)
(* exceptions MitmRelay names.  The tests of cookie_match.py: on every     *)
(* text they agree with what RFC 6265 compares.                            *)
(***************************************************************************)
EXTENDS MitmRelay, CookieMatch, CookieParams, WellFoundedInduction, SequenceTheorems, TLAPS

-----------------------------------------------------------------------------
(* The relay's stream.                                                     *)

\* Sending a piece leaves the stream as it is, reading one takes its first.
LEMMA SendKeepsRest ==
  ASSUME NEW w \in Seq(Piece), NEW o \in Seq(Piece), o # <<>>
  PROVE  /\ Append(w, Head(o)) \in Seq(Piece) /\ Tail(o) \in Seq(Piece)
         /\ Append(w, Head(o)) \o Tail(o) = w \o o
<1>1. /\ Head(o) \in Piece /\ Head(o) = o[1]
      /\ Tail(o) \in Seq(Piece) /\ Len(Tail(o)) = Len(o) - 1 /\ Len(o) \in Nat \ {0}
      /\ \A i \in 1..(Len(o) - 1) : Tail(o)[i] = o[i + 1]
  BY HeadTailProperties
<1>2. /\ Append(w, Head(o)) \in Seq(Piece) /\ Len(Append(w, Head(o))) = Len(w) + 1
      /\ Append(w, Head(o))[Len(w) + 1] = o[1] /\ Len(w) \in Nat
      /\ \A i \in 1..Len(w) : Append(w, Head(o))[i] = w[i]
  BY <1>1
<1> DEFINE a == Append(w, Head(o))
           t == Tail(o)
<1>3. /\ a \o t \in Seq(Piece) /\ w \o o \in Seq(Piece) /\ Len(a \o t) = Len(w \o o)
      /\ Len(a \o t) = Len(w) + Len(o)
  BY <1>1, <1>2
<1>4. \A i \in 1..Len(a \o t) : (a \o t)[i] = (w \o o)[i]
  <2> HIDE DEF a, t
  <2>1. /\ a \in Seq(Piece) /\ t \in Seq(Piece) /\ Len(a) = Len(w) + 1 /\ Len(t) = Len(o) - 1
        /\ a[Len(w) + 1] = o[1] /\ \A i \in 1..Len(w) : a[i] = w[i]
        /\ \A i \in 1..(Len(o) - 1) : t[i] = o[i + 1]
    BY <1>1, <1>2 DEF a, t
  <2> TAKE i \in 1..Len(a \o t)
  <2>2. (a \o t)[i] = IF i <= Len(a) THEN a[i] ELSE t[i - Len(a)]
    BY <2>1, <1>3, ConcatProperties
  <2>3. (w \o o)[i] = IF i <= Len(w) THEN w[i] ELSE o[i - Len(w)]
    BY <2>1, <1>3, ConcatProperties
  <2>4. CASE i <= Len(w)
    BY <2>1, <2>2, <2>3, <2>4, <1>2
  <2>5. CASE i = Len(w) + 1
    BY <2>1, <2>2, <2>3, <2>5, <1>2
  <2>6. CASE i > Len(w) + 1
    <3>1. /\ i - Len(a) \in 1..(Len(o) - 1) /\ (i - Len(a)) + 1 = i - Len(w)
          /\ ~(i <= Len(a)) /\ ~(i <= Len(w))
      BY <2>1, <2>6, <1>1, <1>2, <1>3
    <3>2. t[i - Len(a)] = o[(i - Len(a)) + 1]
      BY <3>1, <2>1
    <3> QED
      BY <3>1, <3>2, <2>2, <2>3
  <2> QED
    BY <2>4, <2>5, <2>6, <1>2, <1>3
<1> HIDE DEF a, t
<1>5. a \o t = w \o o
  BY <1>3, <1>4, SeqEqual
<1> QED
  BY <1>1, <1>2, <1>5 DEF a, t

\* Reading a piece takes the first of what is on its way.
LEMMA ReadTakesFirst ==
  ASSUME NEW w \in Seq(Piece), NEW o \in Seq(Piece), w # <<>>
  PROVE  LET r == w \o o
         IN  /\ Tail(w) \in Seq(Piece) /\ Tail(w) \o o \in Seq(Piece) /\ r \in Seq(Piece)
             /\ Head(w) \in Piece /\ r # <<>> /\ Head(w) = r[1]
             /\ Len(r) \in Nat \ {0} /\ Len(Tail(w) \o o) = Len(r) - 1
             /\ \A i \in 1..(Len(r) - 1) : (Tail(w) \o o)[i] = r[i + 1]
<1> DEFINE r == w \o o
           t == Tail(w)
<1>1. /\ Head(w) \in Piece /\ Head(w) = w[1] /\ Len(w) \in Nat \ {0} /\ Len(o) \in Nat
      /\ t \in Seq(Piece) /\ Len(t) = Len(w) - 1
      /\ \A i \in 1..(Len(w) - 1) : t[i] = w[i + 1]
  BY HeadTailProperties
<1> HIDE DEF t
<1>2. /\ r \in Seq(Piece) /\ Len(r) = Len(w) + Len(o)
      /\ \A i \in 1..Len(r) : r[i] = IF i <= Len(w) THEN w[i] ELSE o[i - Len(w)]
  BY ConcatProperties
<1>3. /\ t \o o \in Seq(Piece) /\ Len(t \o o) = Len(r) - 1
      /\ \A i \in 1..Len(t \o o) : (t \o o)[i] = IF i <= Len(t) THEN t[i] ELSE o[i - Len(t)]
  <2>1. /\ t \o o \in Seq(Piece) /\ Len(t \o o) = Len(t) + Len(o)
        /\ \A i \in 1..(Len(t) + Len(o)) :
              (t \o o)[i] = IF i <= Len(t) THEN t[i] ELSE o[i - Len(t)]
    BY <1>1, ConcatProperties
  <2>2. Len(t) + Len(o) = Len(r) - 1
    BY <1>1, <1>2
  <2> QED
    BY <2>1, <2>2
<1> HIDE DEF r
<1>4. r # <<>> /\ Head(w) = r[1] /\ Len(r) \in Nat \ {0}
  BY <1>1, <1>2
<1>5. ASSUME NEW i \in 1..(Len(r) - 1)
      PROVE  (t \o o)[i] = r[i + 1]
  BY <1>1, <1>2, <1>3
<1> QED
  BY <1>1, <1>2, <1>3, <1>4, <1>5 DEF r, t

\* What is left of one response after its first piece is of that response.
LEMMA TailOfResponse ==
  ASSUME NEW r \in Seq(Piece), NEW t \in Seq(Piece), Len(r) \in Nat \ {0}, Len(t) = Len(r) - 1,
         \A i \in 1..(Len(r) - 1) : t[i] = r[i + 1], OneResponse(r)
  PROVE  OneResponse(t) /\ (t # <<>> => t[1].is \in After[r[1].is])
<1>1. \A i \in 1..Len(t) : i + 1 \in 1..Len(r) /\ t[i] = r[i + 1]
  OBVIOUS
<1>2. \A i \in 1..Len(t) : t[i].of = asked /\ (t[i].is = "untilClose" => asked \in unended)
  BY <1>1 DEF OneResponse
<1>3. \A i \in 1..(Len(t) - 1) : t[i + 1].is \in After[t[i].is]
  <2> TAKE i \in 1..(Len(t) - 1)
  <2>1. i + 1 \in 1..(Len(r) - 1) /\ t[i] = r[i + 1] /\ t[i + 1] = r[(i + 1) + 1]
    OBVIOUS
  <2> QED
    BY <2>1 DEF OneResponse
<1>4. t # <<>> => t[1].is \in After[r[1].is]
  <2> SUFFICES ASSUME t # <<>> PROVE t[1].is \in After[r[1].is]
    OBVIOUS
  <2>1. 1 \in 1..(Len(r) - 1) /\ t[1] = r[1 + 1]
    OBVIOUS
  <2> QED
    BY <2>1 DEF OneResponse
<1> QED
  BY <1>2, <1>3, <1>4 DEF OneResponse

\* A response as the origin composes it is one.
IsResponse(m, k, framing) ==
    /\ m \in Seq(Piece) /\ m # <<>> /\ m[1].is = framing
    /\ \A i \in 1..Len(m) : m[i].of = k /\ (m[i].is = "untilClose" => framing = "untilClose")
    /\ \A i \in 1..(Len(m) - 1) : m[i + 1].is \in After[m[i].is]

\* What the origin writes for a request is one response to it, framed as such.
LEMMA MessageIsOne ==
  ASSUME NEW k \in Nat, NEW framing \in Framing
  PROVE  IsResponse(Message(k, framing), k, framing)
<1> DEFINE m == Message(k, framing)
<1> DEFINE b == Body[framing]
<1>1. /\ b \in Seq(Kind) /\ \A i \in 1..Len(b) : b[i] # "untilClose"
      /\ \A i \in 1..(Len(b) - 1) : b[i + 1] \in After[b[i]]
      /\ b # <<>> => b[1] \in After[framing]
  <2>1. CASE framing \in {"length", "untilClose"}
    <3>1. b = <<"body">>
      BY <2>1 DEF Body
    <3> QED
      BY <2>1, <3>1 DEF After, Kind
  <2>2. CASE framing = "chunked"
    <3>1. b = <<"chunk", "chunk", "last", "blank">>
      BY <2>2 DEF Body
    <3> HIDE DEF b
    <3>2. /\ Len(b) = 4 /\ b[1] = "chunk" /\ b[2] = "chunk" /\ b[3] = "last" /\ b[4] = "blank"
          /\ b \in Seq(Kind)
      BY <3>1 DEF Kind
    <3> QED
      BY <2>2, <3>2 DEF After
  <2>3. CASE framing = "hint"
    <3>1. b = <<"length", "body">>
      BY <2>3 DEF Body
    <3> QED
      BY <2>3, <3>1 DEF After, Kind, Framing
  <2>4. CASE framing = "head"
    <3>1. b = <<>>
      BY <2>4 DEF Body
    <3> QED
      BY <3>1
  <2> QED
    BY <2>1, <2>2, <2>3, <2>4 DEF Framing
<1> HIDE DEF b
<1>2. Len(b) \in Nat /\ framing \in Kind
  BY <1>1 DEF Kind
<1>3. \A i \in 1..(1 + Len(b)) : (<<framing>> \o b)[i] = IF i = 1 THEN framing ELSE b[i - 1]
  <2>1. <<framing>> \in Seq(Kind) /\ Len(<<framing>>) = 1 /\ <<framing>>[1] = framing
    BY <1>2
  <2>2. \A i \in 1..(Len(<<framing>>) + Len(b)) :
           (<<framing>> \o b)[i] = IF i <= Len(<<framing>>) THEN <<framing>>[i]
                                   ELSE b[i - Len(<<framing>>)]
    BY <1>1, <2>1, ConcatProperties
  <2> QED
    BY <1>2, <2>1, <2>2
<1>4. /\ m = [i \in 1..(1 + Len(b)) |-> [of |-> k, is |-> IF i = 1 THEN framing ELSE b[i - 1]]]
  BY <1>3 DEF Message, b
<1>5. \A i \in 1..(1 + Len(b)) : (IF i = 1 THEN framing ELSE b[i - 1]) \in Kind
  BY <1>1, <1>2
<1>6. m \in Seq(Piece) /\ Len(m) = 1 + Len(b)
  BY <1>2, <1>4, <1>5 DEF Piece
<1> HIDE DEF m
<1>7. \A i \in 1..Len(m) : /\ m[i].of = k
                           /\ m[i].is = IF i = 1 THEN framing ELSE b[i - 1]
  BY <1>4, <1>6
<1>8. \A i \in 1..(Len(m) - 1) : m[i + 1].is \in After[m[i].is]
  <2> TAKE i \in 1..(Len(m) - 1)
  <2>1. /\ i \in 1..Len(m) /\ i + 1 \in 1..Len(m) /\ i \in 1..Len(b)
        /\ i + 1 # 1 /\ (i + 1) - 1 = i
    BY <1>2, <1>6
  <2>2. m[i + 1].is = b[i] /\ m[i].is = IF i = 1 THEN framing ELSE b[i - 1]
    BY <2>1, <1>7
  <2>3. CASE i = 1
    BY <2>1, <2>2, <2>3, <1>1
  <2>4. CASE i # 1
    <3>1. i - 1 \in 1..(Len(b) - 1) /\ (i - 1) + 1 = i
      BY <2>1, <2>4, <1>2
    <3> QED
      BY <3>1, <2>2, <2>4, <1>1
  <2> QED
    BY <2>3, <2>4
<1>9. \A i \in 1..Len(m) : m[i].is = "untilClose" => framing = "untilClose"
  BY <1>1, <1>2, <1>6, <1>7
<1> QED
  BY <1>2, <1>6, <1>7, <1>8, <1>9 DEF IsResponse, m

-----------------------------------------------------------------------------
(* The invariant, step by step.                                            *)

\* The client and the origin.
LEMMA PeersInv ==
  RelayInv /\ (ClientAsks \/ ClientLeaves \/ OriginAnswers \/ OriginSends \/ OriginCloses)
      => RelayInv'
<1> SUFFICES ASSUME RelayInv,
                    ClientAsks \/ ClientLeaves \/ OriginAnswers \/ OriginSends \/ OriginCloses
             PROVE  RelayInv'
  OBVIOUS
<1> USE DEF RelayInv, RelayTypeOK
<1>1. CASE ClientAsks
  <2>1. relay = "request" /\ ~waiting /\ asked' = asked + 1 /\ waiting'
        /\ UNCHANGED <<relay, present, outbox, wire, origin, unended, response, received>>
    BY <1>1 DEF ClientAsks, Inside
  <2>2. ASSUME Clean' PROVE OneResponse(Rest)' /\ AtItsPiece(Rest)' /\ AnswersCurrent'
    <3>1. Clean /\ asked \notin unended
      BY <2>1, <2>2 DEF Clean
    <3>2. Rest = <<>> /\ Rest' = <<>>
      BY <3>1, <2>1 DEF AtItsPiece, Rest
    <3> QED
      BY <3>2, <2>1 DEF OneResponse, AtItsPiece, AnswersCurrent, May, Inside
  <2> QED
    BY <2>1, <2>2 DEF WholeUnlessClosed, Inside
<1>2. CASE ClientLeaves
  <2>1. UNCHANGED <<relay, asked, waiting, outbox, wire, origin, unended, response, received>>
        /\ present' \in BOOLEAN
    BY <1>2 DEF ClientLeaves
  <2> QED
    BY <2>1 DEF Clean, Rest, OneResponse, AtItsPiece, AnswersCurrent, WholeUnlessClosed
<1>3. CASE OriginAnswers
  <2>1. PICK framing \in Framing :
            /\ outbox' = Message(asked, framing)
            /\ unended' = IF framing = "untilClose" THEN unended \cup {asked} ELSE unended
    BY <1>3 DEF OriginAnswers
  <2>2. /\ origin /\ relay = "head" /\ wire = <<>>
        /\ UNCHANGED <<relay, asked, waiting, present, wire, origin, response, received>>
    BY <1>3 DEF OriginAnswers
  <2>3. Rest' = outbox' /\ IsResponse(Rest', asked, framing)
    <3>1. IsResponse(outbox', asked, framing)
      BY <2>1, MessageIsOne
    <3>2. outbox' \in Seq(Piece)
      BY <3>1 DEF IsResponse
    <3>3. Rest' = outbox'
      BY <2>2, <3>2, ConcatEmptySeq DEF Rest
    <3> QED
      BY <3>1, <3>3
  <2>4. /\ outbox' \in Seq(Piece) /\ unended' \subseteq Nat /\ unended \subseteq unended'
        /\ framing = "untilClose" => asked \in unended'
    BY <2>1, <2>3 DEF IsResponse
  <2>5. RelayTypeOK'
    BY <2>2, <2>4
  <2>6. Clean' => OneResponse(Rest)' /\ AtItsPiece(Rest)' /\ AnswersCurrent'
    <3>1. OneResponse(Rest)'
      <4>1. asked' = asked
        BY <2>2
      <4> QED
        BY <4>1, <2>3, <2>4 DEF OneResponse, IsResponse
    <3>2. AtItsPiece(Rest)'
      <4>1. relay' = "head" /\ May["head"] = Framing
        BY <2>2 DEF May
      <4> QED
        BY <4>1, <2>3 DEF AtItsPiece, IsResponse
    <3>3. Clean' => Clean
      BY <2>2, <2>4 DEF Clean
    <3> QED
      BY <3>1, <3>2, <3>3, <2>2 DEF AnswersCurrent
  <2> QED
    BY <2>2, <2>4, <2>5, <2>6 DEF WholeUnlessClosed
<1>4. CASE OriginSends
  <2>1. /\ outbox # <<>> /\ wire' = Append(wire, Head(outbox)) /\ outbox' = Tail(outbox)
        /\ origin /\ UNCHANGED <<relay, asked, waiting, present, origin, unended, response, received>>
    BY <1>4 DEF OriginSends
  <2>2. Rest' = Rest /\ wire' \in Seq(Piece) /\ outbox' \in Seq(Piece)
    BY <2>1, SendKeepsRest DEF Rest
  <2> QED
    BY <2>1, <2>2 DEF Clean, OneResponse, AtItsPiece, AnswersCurrent, WholeUnlessClosed
<1>5. CASE OriginCloses
  <2>1. /\ ~origin' /\ outbox' = <<>>
        /\ UNCHANGED <<relay, asked, waiting, present, wire, unended, response, received>>
    BY <1>5 DEF OriginCloses
  <2>2. RelayTypeOK'
    <3>1. outbox' \in Seq(Piece) /\ origin' \in BOOLEAN
      <4>1. origin' = FALSE
        BY <1>5 DEF OriginCloses
      <4>2. origin' \in BOOLEAN
        BY <4>1, Zenon
      <4> QED
        BY <4>2, <2>1, EmptySeq
    <3> QED
      BY <3>1, <2>1
  <2>3. /\ Rest' = wire /\ Rest \in Seq(Piece) /\ Len(wire) \in Nat /\ Len(Rest) \in Nat
        /\ Len(wire) <= Len(Rest) /\ \A i \in 1..Len(wire) : wire[i] = Rest[i]
    BY <2>1, ConcatProperties, ConcatEmptySeq DEF Rest
  <2>4. ASSUME Clean' PROVE OneResponse(Rest)' /\ AtItsPiece(Rest)' /\ AnswersCurrent'
    <3>1. Clean
      BY <2>1, <2>4 DEF Clean
    <3>2. OneResponse(Rest)'
      <4>1. OneResponse(Rest)
        BY <3>1
      <4>2. \A i \in 1..Len(wire) : i \in 1..Len(Rest) /\ wire[i] = Rest[i]
        BY <2>3
      <4>3. \A i \in 1..(Len(wire) - 1) : /\ i \in 1..(Len(Rest) - 1) /\ i \in 1..Len(wire)
                                          /\ i + 1 \in 1..Len(wire)
        BY <2>3
      <4>4. OneResponse(wire)
        BY <4>1, <4>2, <4>3 DEF OneResponse
      <4> QED
        BY <4>4, <2>1, <2>3 DEF OneResponse
    <3>3. wire # <<>> => Rest # <<>> /\ wire[1] = Rest[1]
      BY <2>3
    <3>4. AtItsPiece(Rest)'
      BY <3>1, <3>3, <2>1, <2>3 DEF AtItsPiece
    <3> QED
      BY <3>1, <3>2, <3>4, <2>1 DEF AnswersCurrent
  <2> QED
    BY <2>1, <2>2, <2>4 DEF WholeUnlessClosed
<1> QED
  BY <1>1, <1>2, <1>3, <1>4, <1>5

\* The relay.
LEMMA RelayStepInv == RelayInv /\ RelayStep => RelayInv'
<1> SUFFICES ASSUME RelayInv, RelayStep PROVE RelayInv'
  OBVIOUS
<1> USE DEF RelayInv, RelayTypeOK, PeersUnchanged
<1>1. CASE RelayForwards
  <2>1. /\ \/ waiting /\ received.of < asked /\ relay' \in {"head", "spliced"}
           \/ relay' = "closed"
        /\ relay = "request"
        /\ UNCHANGED <<asked, present, outbox, origin, unended, waiting, wire, response, received>>
    BY <1>1 DEF RelayForwards
  <2>2. RelayTypeOK' /\ (relay' \in Inside \cup {"head", "answer"} => waiting')
    BY <2>1 DEF Inside
  <2>3. ASSUME Clean' PROVE OneResponse(Rest)' /\ AtItsPiece(Rest)' /\ AnswersCurrent'
    <3>1. Clean /\ OneResponse(Rest)' /\ Rest' = Rest
      BY <2>1, <2>3 DEF Clean, OneResponse, Rest
    <3>2. AtItsPiece(Rest)'
      BY <3>1, <2>1 DEF AtItsPiece, May
    <3>3. AnswersCurrent'
      BY <3>1, <2>1 DEF AnswersCurrent, Inside
    <3> QED
      BY <3>1, <3>2, <3>3
  <2> QED
    BY <2>1, <2>2, <2>3 DEF WholeUnlessClosed
<1>2. ASSUME wire # <<>>, wire' = Tail(wire),
             RelayReadsHead \/ RelayReadsBody
      PROVE  RelayInv'
  <2> DEFINE p == Head(wire)
  <2>1. UNCHANGED <<asked, present, outbox, origin, unended, waiting, received>>
    BY <1>2 DEF RelayReadsHead, RelayReadsBody
  <2>2. /\ wire' \in Seq(Piece) /\ Rest' \in Seq(Piece) /\ Rest \in Seq(Piece) /\ p \in Piece
        /\ Rest # <<>> /\ p = Rest[1] /\ Len(Rest) \in Nat \ {0} /\ Len(Rest') = Len(Rest) - 1
        /\ \A i \in 1..(Len(Rest) - 1) : Rest'[i] = Rest[i + 1]
    BY <1>2, <2>1, ReadTakesFirst DEF Rest
  <2>3. ASSUME Clean
        PROVE  /\ OneResponse(Rest)' /\ p.of = asked
               /\ p.is = "untilClose" => asked \in unended
               /\ Rest' # <<>> => Rest'[1].is \in After[p.is]
    <3>1. OneResponse(Rest)
      BY <2>3
    <3>2. OneResponse(Rest') /\ (Rest' # <<>> => Rest'[1].is \in After[Rest[1].is])
      BY <3>1, <2>2, TailOfResponse
    <3>3. OneResponse(Rest)'
      BY <3>2, <2>1 DEF OneResponse
    <3> QED
      BY <3>1, <3>2, <3>3, <2>2 DEF OneResponse
  <2>4. Clean' <=> Clean
    BY <2>1 DEF Clean
  <2>5. CASE RelayReadsHead
    <3>1. /\ relay = "head"
          /\ response' = [of |-> p.of, is |-> p.is, whole |-> p.is \in Framing \ {"untilClose"}]
          /\ relay' = CASE p.is \in {"length", "head"} -> "body"
                        [] p.is = "chunked"            -> "chunks"
                        [] OTHER                       -> "answer"
      BY <2>5 DEF RelayReadsHead
    <3>2. response' \in [of: Nat, is: Kind, whole: BOOLEAN] /\ relay' \in Inside \cup {"answer"}
      BY <3>1, <2>2 DEF Piece, Inside
    <3>3. RelayTypeOK' /\ waiting'
      BY <3>1, <3>2, <2>1, <2>2
    <3>4. ASSUME Clean
          PROVE  p.is \in Framing /\ AtItsPiece(Rest)' /\ AnswersCurrent'
      <4>1. p.is \in Framing
        BY <3>1, <3>4, <2>2 DEF AtItsPiece, May
      <4>2. relay' = "body" /\ Rest' # <<>> => Rest'[1].is = "body"
        BY <4>1, <3>1, <3>4, <2>3 DEF After, Framing
      <4>3. relay' = "chunks" /\ Rest' # <<>> => Rest'[1].is = "chunk"
        BY <4>1, <3>1, <3>4, <2>3 DEF After, Framing
      <4>4. relay' = "answer" => p.is = "untilClose" \/ p.is = "hint"
        BY <4>1, <3>1 DEF Framing
      <4>5. AtItsPiece(Rest)'
        BY <4>2, <4>3, <4>4, <3>1, <3>2, <3>4, <2>1, <2>3 DEF AtItsPiece, May, Inside
      <4> QED
        BY <4>1, <4>5, <3>1, <3>3, <3>4, <2>1, <2>3 DEF AnswersCurrent
    <3>5. response'.whole \/ unended # {}
      <4>1. CASE Clean
        BY <4>1, <3>1, <3>4, <2>3
      <4>2. CASE ~Clean
        BY <4>2 DEF Clean
      <4> QED
        BY <4>1, <4>2
    <3> QED
      BY <3>3, <3>4, <3>5, <2>1, <2>3, <2>4 DEF WholeUnlessClosed
  <2>6. CASE RelayReadsBody
    <3>1. /\ relay \in Inside /\ response' = response
          /\ relay' = CASE p.is = "chunk" -> "chunks"
                        [] p.is = "last"  -> "trailer"
                        [] OTHER          -> "answer"
      BY <2>6 DEF RelayReadsBody, Inside
    <3>2. RelayTypeOK' /\ waiting'
      BY <3>1, <2>1, <2>2 DEF Inside
    <3>3. ASSUME Clean
          PROVE  AtItsPiece(Rest)' /\ AnswersCurrent'
      <4>1. p.is \in {"body", "chunk", "last", "blank"}
        BY <3>1, <3>3, <2>2 DEF AtItsPiece, May, Inside
      <4>2. relay' \in DOMAIN May /\ Rest' # <<>> => Rest'[1].is \in May[relay']
        BY <4>1, <3>1, <3>3, <2>3 DEF After, May
      <4>3. relay' = "answer" => Rest' = <<>>
        BY <4>1, <3>1, <3>3, <2>3 DEF After
      <4>4. relay' # "request"
        BY <3>1
      <4>5. AtItsPiece(Rest)'
        BY <4>2, <4>3, <4>4 DEF AtItsPiece
      <4> QED
        BY <4>5, <3>1, <3>2, <3>3, <2>1 DEF AnswersCurrent
    <3> QED
      BY <3>1, <3>2, <3>3, <2>1, <2>3, <2>4 DEF WholeUnlessClosed
  <2> QED
    BY <1>2, <2>5, <2>6
<1>3. CASE RelayReadsEnd
  <2>1. /\ relay \in Inside \cup {"head"} /\ wire = <<>> /\ ~origin
        /\ relay' = IF relay = "head" THEN "closed" ELSE "answer"
        /\ UNCHANGED <<asked, present, outbox, origin, unended, waiting, wire, received>>
    BY <1>3 DEF RelayReadsEnd, Inside
  <2>2. /\ response' \in [of: Nat, is: Kind, whole: BOOLEAN] /\ response'.of = response.of
    BY <1>3 DEF RelayReadsEnd
  <2>3. RelayTypeOK' /\ waiting'
    BY <2>1, <2>2 DEF Inside
  <2>4. Rest = <<>> /\ Rest' = <<>>
    BY <2>1 DEF Rest
  <2>5. ASSUME Clean' PROVE OneResponse(Rest)' /\ AtItsPiece(Rest)' /\ AnswersCurrent'
    <3>1. Clean
      BY <2>1, <2>5 DEF Clean
    <3>2. OneResponse(Rest)' /\ AtItsPiece(Rest)'
      BY <2>4 DEF OneResponse, AtItsPiece
    <3>3. AnswersCurrent'
      BY <3>1, <2>1, <2>2, <2>3 DEF AnswersCurrent, Inside
    <3> QED
      BY <3>2, <3>3
  <2> QED
    BY <2>1, <2>3, <2>5 DEF WholeUnlessClosed
<1>4. CASE RelayTimesOut
  <2>1. /\ relay \in Inside \cup {"head"} /\ relay' = "closed"
        /\ UNCHANGED <<asked, present, outbox, origin, unended, waiting, wire, response, received>>
    BY <1>4 DEF RelayTimesOut, Inside
  <2>2. RelayTypeOK' /\ waiting'
    BY <2>1
  <2>3. Clean' => OneResponse(Rest)' /\ AtItsPiece(Rest)' /\ AnswersCurrent'
    BY <2>1, <2>2 DEF Clean, OneResponse, Rest, AtItsPiece, AnswersCurrent, May, Inside
  <2> QED
    BY <2>1, <2>2, <2>3 DEF WholeUnlessClosed, Inside
<1>5. CASE RelayAnswers
  <2>1. /\ relay = "answer" /\ waiting /\ relay' \in {"request", "closed"}
        /\ UNCHANGED <<asked, present, outbox, origin, unended, wire, response>>
        /\ \/ received' = response /\ waiting' = (response.is = "hint")
           \/ relay' = "closed" /\ UNCHANGED <<received, waiting>>
    BY <1>5 DEF RelayAnswers
  <2>2. RelayTypeOK' /\ WholeUnlessClosed'
    BY <2>1 DEF WholeUnlessClosed
  <2>3. ASSUME Clean' PROVE OneResponse(Rest)' /\ AtItsPiece(Rest)' /\ AnswersCurrent'
    <3>1. Clean /\ OneResponse(Rest)' /\ Rest' = Rest
      BY <2>1, <2>3 DEF Clean, OneResponse, Rest
    <3>2. response.of = asked /\ (Rest # <<>> => asked \in unended \/ response.is = "hint")
      BY <3>1, <2>1 DEF AnswersCurrent, AtItsPiece
    <3>3. AtItsPiece(Rest)'
      BY <3>1, <3>2, <2>1 DEF AtItsPiece, May
    <3>4. AnswersCurrent'
      BY <3>2, <2>1 DEF AnswersCurrent, Inside
    <3> QED
      BY <3>1, <3>3, <3>4
  <2> QED
    BY <2>1, <2>2, <2>3 DEF Inside
<1> QED
  BY <1>1, <1>2, <1>3, <1>4, <1>5 DEF RelayStep, RelayReadsHead, RelayReadsBody, Reads

\* For any number of requests and any framing, however the origin stops or closes:
\* until one is delimited by closing, the relay reads in step with them (_relay_http).
THEOREM RelayInvCorrect == RelaySpec => []RelayInv
<1>1. RelayInit => RelayInv
  <2> SUFFICES ASSUME RelayInit PROVE RelayInv
    OBVIOUS
  <2>1. RelayTypeOK
    <3>1. NoResponse \in [of: Nat, is: Kind, whole: BOOLEAN]
      BY DEF NoResponse, Kind, Framing
    <3>2. waiting \in BOOLEAN /\ present \in BOOLEAN /\ origin \in BOOLEAN
      BY Zenon DEF RelayInit
    <3> QED
      BY <3>1, <3>2, EmptySeq DEF RelayInit, RelayTypeOK
  <2>2. Rest = <<>>
    BY DEF RelayInit, Rest
  <2>3. OneResponse(Rest) /\ AtItsPiece(Rest) /\ AnswersCurrent
    BY <2>2 DEF RelayInit, OneResponse, AtItsPiece, AnswersCurrent, Inside, NoResponse, May
  <2> QED
    BY <2>1, <2>3 DEF RelayInit, RelayInv, WholeUnlessClosed, NoResponse, Inside
<1>2. RelayInv /\ [RelayNext]_relayVars => RelayInv'
  <2>1. CASE UNCHANGED relayVars
    BY <2>1 DEF relayVars, RelayInv, RelayTypeOK, Clean, Rest, OneResponse, AtItsPiece,
                AnswersCurrent, WholeUnlessClosed
  <2> QED
    BY <2>1, PeersInv, RelayStepInv DEF RelayNext
<1> QED
  BY <1>1, <1>2, PTL DEF RelaySpec

\* A client never gets the answer to another request, nor a piece of one, until a
\* response that only closing ends has been before (_relay_http, _read_body).
THEOREM AnswersMatchCorrect == RelaySpec => []AnswersMatch
<1>1. RelayInv => AnswersMatch
  BY DEF RelayInv, RelayTypeOK, AnswersMatch, Clean, AnswersCurrent
<1> QED
  BY <1>1, RelayInvCorrect, PTL

\* A response that is passed on as complete is complete, unless the origin closed
\* inside it or delimits it by closing.
THEOREM WholeCorrect == RelaySpec => []WholeUnlessClosed
<1>1. RelayInv => WholeUnlessClosed
  BY DEF RelayInv
<1> QED
  BY <1>1, RelayInvCorrect, PTL

-----------------------------------------------------------------------------
(* Texts, position by position.                                            *)

\* str.startswith, position by position.
LEMMA PrefixAt ==
  ASSUME NEW s \in Text, NEW t \in Text
  PROVE  IsPrefix(s, t) <=> Len(s) <= Len(t) /\ \A i \in 1..Len(s) : s[i] = t[i]
<1> USE DEF Text
<1>1. Len(s) \in Nat /\ Len(t) \in Nat
  OBVIOUS
<1>2. SubSeq(s, 1, Len(s)) = s
  BY SubSeqFull
<1>3. ASSUME Len(s) <= Len(t)
      PROVE  s = SubSeq(t, 1, Len(s)) <=> \A i \in 1..Len(s) : s[i] = t[i]
  <2>1. /\ SubSeq(t, 1, Len(s)) \in Text /\ Len(SubSeq(t, 1, Len(s))) = Len(s)
        /\ \A i \in 1..Len(s) : SubSeq(t, 1, Len(s))[i] = t[i]
    BY <1>1, <1>3
  <2> QED
    BY <2>1, SeqEqual
<1> QED
  BY <1>2, <1>3 DEF IsPrefix

\* str.endswith, position by position.
LEMMA SuffixAt ==
  ASSUME NEW s \in Text, NEW t \in Text
  PROVE  IsSuffix(s, t) <=> /\ Len(s) <= Len(t)
                            /\ \A i \in 1..Len(s) : s[i] = t[Len(t) - Len(s) + i]
<1> USE DEF Text
<1>1. Len(s) \in Nat /\ Len(t) \in Nat
  OBVIOUS
<1>2. \A u \in Text : /\ Reverse(u) \in Text /\ Len(Reverse(u)) = Len(u)
                      /\ \A i \in 1..Len(u) : Reverse(u)[i] = u[(Len(u) - i) + 1]
  BY DEF Reverse
<1>3. IsSuffix(s, t) <=> /\ Len(s) <= Len(t)
                         /\ \A i \in 1..Len(s) : s[(Len(s) - i) + 1] = t[(Len(t) - i) + 1]
  BY <1>1, <1>2, PrefixAt DEF IsSuffix
<1>4. ASSUME Len(s) <= Len(t), \A i \in 1..Len(s) : s[(Len(s) - i) + 1] = t[(Len(t) - i) + 1]
      PROVE  \A i \in 1..Len(s) : s[i] = t[Len(t) - Len(s) + i]
  <2> TAKE i \in 1..Len(s)
  <2>1. (Len(s) - i) + 1 \in 1..Len(s)
    BY <1>1
  <2>2. s[(Len(s) - ((Len(s) - i) + 1)) + 1] = t[(Len(t) - ((Len(s) - i) + 1)) + 1]
    BY <2>1, <1>4
  <2>3. (Len(s) - ((Len(s) - i) + 1)) + 1 = i
        /\ (Len(t) - ((Len(s) - i) + 1)) + 1 = Len(t) - Len(s) + i
    BY <1>1
  <2> QED
    BY <2>2, <2>3
<1>5. ASSUME Len(s) <= Len(t), \A i \in 1..Len(s) : s[i] = t[Len(t) - Len(s) + i]
      PROVE  \A i \in 1..Len(s) : s[(Len(s) - i) + 1] = t[(Len(t) - i) + 1]
  <2> TAKE i \in 1..Len(s)
  <2>1. (Len(s) - i) + 1 \in 1..Len(s)
    BY <1>1
  <2>2. s[(Len(s) - i) + 1] = t[Len(t) - Len(s) + ((Len(s) - i) + 1)]
    BY <2>1, <1>5
  <2>3. Len(t) - Len(s) + ((Len(s) - i) + 1) = (Len(t) - i) + 1
    BY <1>1
  <2> QED
    BY <2>2, <2>3
<1> QED
  BY <1>3, <1>4, <1>5

\* A set of numbers up to a bound has a greatest.
LEMMA MaxExists ==
  ASSUME NEW n \in Nat, NEW S \in SUBSET (0..n), S # {}
  PROVE  Max(S) \in S
<1> DEFINE U == {k \in Nat : \A x \in S : x <= k}
<1>1. U \subseteq Nat /\ U # {}
  <2>1. n \in U
    OBVIOUS
  <2> QED
    BY <2>1
<1> HIDE DEF U
<1>2. PICK m \in U : \A k \in U : ~(k < m)
  <2> DEFINE R == OpToRel(<, Nat)
  <2>1. IsWellFoundedOn(R, Nat)
    BY NatLessThanWellFounded
  <2>2. \A x, y \in Nat : x < y => <<x, y>> \in R
    BY Zenon DEF OpToRel
  <2> HIDE DEF R
  <2>3. \E m \in U : \A k \in U : ~(<<k, m>> \in R)
    BY <1>1, <2>1, WFMin
  <2> QED
    BY <1>1, <2>2, <2>3
<1>3. m \in Nat /\ \A x \in S : x <= m
  BY DEF U
<1>4. m \in S
  <2> SUFFICES ASSUME m \notin S PROVE FALSE
    OBVIOUS
  <2>1. \A x \in S : x < m /\ x \in Nat
    BY <1>3
  <2>2. m # 0
    <3>1. PICK x \in S : TRUE
      OBVIOUS
    <3> QED
      BY <3>1, <2>1
  <2>3. m - 1 \in Nat /\ m - 1 < m /\ \A x \in S : x <= m - 1
    BY <1>3, <2>1, <2>2
  <2>4. m - 1 \in U
    BY <2>3 DEF U
  <2> QED
    BY <2>3, <2>4, <1>2
<1>5. \A y \in S : m >= y
  BY <1>3
<1> QED
  BY <1>4, <1>5 DEF Max

\* A host without its trailing dots is a text.
LEMMA RstripType == \A host \in Text : Rstrip(host) \in Text
<1> SUFFICES ASSUME NEW host \in Text PROVE Rstrip(host) \in Text
  OBVIOUS
<1> DEFINE S == {0} \cup {i \in DOMAIN host : host[i] # "."}
<1>1. S \subseteq 0..Len(host) /\ S # {} /\ Len(host) \in Nat
  BY DEF Text
<1> HIDE DEF S
<1>2. Max(S) \in 0..Len(host)
  BY <1>1, MaxExists
<1>3. SubSeq(host, 1, Max(S)) \in Text
  BY <1>1, <1>2 DEF Text
<1> QED
  BY <1>3 DEF Rstrip, S

-----------------------------------------------------------------------------
(* The tests of the code agree with the reference, on every text.          *)

\* domain_matches finds a host in a domain when the domain is one the host lies in.
LEMMA DomainAgrees ==
  ASSUME NEW d \in Text, NEW h \in Text, h # <<>>
  PROVE  DomainMatches(d, h) <=>
            \/ d = h
            \/ d # <<>> /\ Head(d) = "." /\ Tail(d) \in Domains(h)
<1> USE DEF Text
<1>1. CASE d = <<>>
  BY <1>1 DEF DomainMatches
<1>2. CASE d # <<>> /\ Head(d) # "."
  BY <1>2 DEF DomainMatches
<1>3. CASE d # <<>> /\ Head(d) = "."
  <2>1. /\ Len(d) \in Nat \ {0} /\ Len(h) \in Nat \ {0} /\ d[1] = "."
        /\ Tail(d) \in Text /\ Len(Tail(d)) = Len(d) - 1
        /\ \A i \in 1..(Len(d) - 1) : Tail(d)[i] = d[i + 1]
    BY <1>3
  <2>2. SubSeq(h, 0 + 1, Len(h)) = h
    BY SubSeqFull
  <2>3. \A j \in 1..Len(h) : /\ SubSeq(h, j + 1, Len(h)) \in Text
                             /\ Len(SubSeq(h, j + 1, Len(h))) = Len(h) - j
                             /\ \A i \in 1..(Len(h) - j) : SubSeq(h, j + 1, Len(h))[i] = h[j + i]
    BY <2>1
  <2>4. ASSUME NEW j \in 1..Len(h), h[j] = ".", Tail(d) = SubSeq(h, j + 1, Len(h))
        PROVE  IsSuffix(d, h)
    <3>1. Len(d) = Len(h) - j + 1
      BY <2>1, <2>3, <2>4
    <3>2. \A i \in 1..Len(d) : d[i] = h[Len(h) - Len(d) + i]
      <4> TAKE i \in 1..Len(d)
      <4>1. CASE i = 1
        BY <4>1, <3>1, <2>1, <2>4
      <4>2. CASE i # 1
        <5>1. i - 1 \in 1..(Len(d) - 1) /\ i - 1 \in 1..(Len(h) - j) /\ (i - 1) + 1 = i
              /\ Len(h) - Len(d) + i = j + (i - 1)
          BY <4>2, <3>1, <2>1
        <5>2. d[i] = Tail(d)[i - 1]
          BY <5>1, <2>1
        <5>3. Tail(d)[i - 1] = h[j + (i - 1)]
          BY <5>1, <2>3, <2>4
        <5> QED
          BY <5>1, <5>2, <5>3
      <4> QED
        BY <4>1, <4>2
    <3>3. Len(d) <= Len(h)
      BY <3>1, <2>1
    <3> QED
      BY <3>2, <3>3, SuffixAt
  <2>5. ASSUME IsSuffix(d, h)
        PROVE  \E j \in 1..Len(h) : h[j] = "." /\ Tail(d) = SubSeq(h, j + 1, Len(h))
    <3> DEFINE j == Len(h) - Len(d) + 1
    <3>1. Len(d) <= Len(h) /\ \A i \in 1..Len(d) : d[i] = h[Len(h) - Len(d) + i]
      BY <2>5, SuffixAt
    <3>2. j \in 1..Len(h) /\ h[j] = "."
      BY <3>1, <2>1
    <3>3. Len(SubSeq(h, j + 1, Len(h))) = Len(Tail(d))
      BY <3>2, <2>1, <2>3
    <3>4. \A i \in 1..Len(Tail(d)) : Tail(d)[i] = SubSeq(h, j + 1, Len(h))[i]
      <4> TAKE i \in 1..Len(Tail(d))
      <4>1. i \in 1..(Len(d) - 1) /\ i + 1 \in 1..Len(d) /\ i \in 1..(Len(h) - j)
            /\ Len(h) - Len(d) + (i + 1) = j + i
        BY <2>1
      <4>2. Tail(d)[i] = h[Len(h) - Len(d) + (i + 1)]
        BY <4>1, <3>1, <2>1
      <4>3. SubSeq(h, j + 1, Len(h))[i] = h[j + i]
        BY <4>1, <3>2, <2>3
      <4> QED
        BY <4>1, <4>2, <4>3
    <3> HIDE DEF j
    <3>5. SubSeq(h, j + 1, Len(h)) \in Text
      BY <3>2, <2>3
    <3>6. Tail(d) = SubSeq(h, j + 1, Len(h))
      BY <3>3, <3>4, <3>5, <2>1, SeqEqual
    <3> QED
      BY <3>2, <3>6
  <2>6. Tail(d) \in Domains(h) <=>
            Tail(d) = h \/ \E j \in 1..Len(h) : h[j] = "." /\ Tail(d) = SubSeq(h, j + 1, Len(h))
    <3>1. DOMAIN h = 1..Len(h) /\ 0 \notin 1..Len(h)
      OBVIOUS
    <3>2. \A t : t \in Domains(h) <=>
                \/ t = SubSeq(h, 0 + 1, Len(h))
                \/ \E j \in 1..Len(h) : h[j] = "." /\ t = SubSeq(h, j + 1, Len(h))
      BY <3>1 DEF Domains
    <3> QED
      BY <2>2, <3>2
  <2>7. d = h => IsSuffix(d, h)
    BY <2>1, SuffixAt
  <2> QED
    BY <1>3, <2>4, <2>5, <2>6, <2>7 DEF DomainMatches
<1> QED
  BY <1>1, <1>2, <1>3

\* path_matches finds a path under a cookie's when its directory is one of the path's.
LEMMA PathAgrees ==
  ASSUME NEW c \in Text, c # <<>>, NEW r \in Text
  PROVE  c = r \/ (IsPrefix(c, r) /\ (Last(c) = "/" \/ r[Len(c) + 1] = "/"))
            <=> c = r \/ Directory(c) \in Directories(r)
<1> USE DEF Text
<1>1. Len(c) \in Nat \ {0} /\ Len(r) \in Nat
  OBVIOUS
<1>2. \A i \in 1..Len(r) : /\ SubSeq(r, 1, i) \in Text /\ Len(SubSeq(r, 1, i)) = i
                           /\ \A k \in 1..i : SubSeq(r, 1, i)[k] = r[k]
  BY <1>1
<1>3. \A s : s \in Directories(r) <=> \E i \in 1..Len(r) : r[i] = "/" /\ s = SubSeq(r, 1, i)
  BY <1>1 DEF Directories
<1>4. CASE Last(c) = "/"
  <2>1. ASSUME IsPrefix(c, r)
        PROVE  c \in Directories(r)
    <3>1. Len(c) \in 1..Len(r) /\ \A i \in 1..Len(c) : c[i] = r[i]
      BY <2>1, <1>1, PrefixAt
    <3>2. c = SubSeq(r, 1, Len(c)) /\ r[Len(c)] = "/"
      BY <3>1, <1>1, <1>2, <1>4, SeqEqual DEF Last
    <3> QED
      BY <3>1, <3>2, <1>3
  <2>2. ASSUME c \in Directories(r)
        PROVE  IsPrefix(c, r)
    BY <2>2, <1>1, <1>2, <1>3, PrefixAt
  <2> QED
    BY <2>1, <2>2, <1>4 DEF Directory
<1>5. CASE Last(c) # "/"
  <2>1. /\ Append(c, "/") \in Text /\ Len(Append(c, "/")) = Len(c) + 1
        /\ Append(c, "/")[Len(c) + 1] = "/"
        /\ \A i \in 1..Len(c) : Append(c, "/")[i] = c[i]
    BY CharAssumption
  <2>2. ASSUME IsPrefix(c, r), r[Len(c) + 1] = "/", c # r
        PROVE  Append(c, "/") \in Directories(r)
    <3>1. Len(c) <= Len(r) /\ \A i \in 1..Len(c) : c[i] = r[i]
      BY <2>2, PrefixAt
    <3>2. Len(c) # Len(r)
      BY <3>1, <2>2, SeqEqual
    <3>3. Len(c) + 1 \in 1..Len(r)
      BY <3>1, <3>2, <1>1
    <3>4. \A i \in 1..(Len(c) + 1) : Append(c, "/")[i] = r[i]
      BY <3>1, <2>1, <2>2, <1>1
    <3>5. Append(c, "/") = SubSeq(r, 1, Len(c) + 1)
      BY <3>3, <3>4, <2>1, <1>2, SeqEqual
    <3> QED
      BY <3>3, <3>5, <2>2, <1>3
  <2>3. ASSUME Append(c, "/") \in Directories(r)
        PROVE  IsPrefix(c, r) /\ r[Len(c) + 1] = "/"
    <3>1. PICK i \in 1..Len(r) : r[i] = "/" /\ Append(c, "/") = SubSeq(r, 1, i)
      BY <2>3, <1>3
    <3>2. i = Len(c) + 1
      BY <3>1, <2>1, <1>2
    <3>3. Len(c) <= Len(r) /\ \A k \in 1..Len(c) : c[k] = r[k]
      BY <3>1, <3>2, <2>1, <1>1, <1>2
    <3> QED
      BY <3>1, <3>2, <3>3, PrefixAt
  <2> QED
    BY <2>2, <2>3, <1>5 DEF Directory
<1> QED
  BY <1>4, <1>5

\* select takes a cookie for a URL exactly when the reference does.
LEMMA MatchesAgrees ==
  ASSUME NEW cookie \in Rows, NEW u \in Urls
  PROVE  Matches(cookie, u) <=>
            /\ InDomain(cookie, u) /\ InPath(cookie, u)
            /\ u.scheme = "https" \/ (u.scheme = "http" /\ ~cookie.secure)
<1> DEFINE h == Rstrip(u.host)
           c == Defaulted(cookie.path)
           r == Rooted(Defaulted(u.path))
<1>1. /\ cookie.domain \in Text /\ cookie.path \in Text /\ cookie.secure \in BOOLEAN
      /\ u.host \in Text /\ u.path \in Text
  BY RowsAssumption, UrlsAssumption
<1>2. h \in Text
  BY <1>1, RstripType
<1>3. c \in Text /\ c # <<>>
  BY <1>1, CharAssumption DEF Defaulted, Text
<1>4. r \in Text
  <2>1. Defaulted(u.path) \in Text
    BY <1>1, CharAssumption DEF Defaulted, Text
  <2> QED
    BY <2>1, CharAssumption DEF Rooted, Text
<1> HIDE DEF h, c, r
<1>5. h # <<>> /\ DomainMatches(cookie.domain, h) <=> InDomain(cookie, u)
  BY <1>1, <1>2, DomainAgrees DEF InDomain, h
<1>6. DomainMatches(cookie.domain, h) => h # <<>>
  BY DEF DomainMatches
<1>7. PathMatches(cookie.path, u.path) <=> InPath(cookie, u)
  BY <1>3, <1>4, PathAgrees DEF PathMatches, InPath, c, r
<1> QED
  BY <1>5, <1>6, <1>7 DEF Matches, h

\* A cookie leaves the store only for its own domain and directory and, if it is
\* secure, over TLS (cookie_match.py).
THEOREM MatchSound == MatchInit => NothingForeign
  BY MatchesAgrees DEF MatchInit, NothingForeign

\* ... and for every such URL it does.
THEOREM MatchComplete == MatchInit => NothingWithheld
  BY MatchesAgrees DEF MatchInit, NothingWithheld

-----------------------------------------------------------------------------
\* The live sync repairs what the extensions leave out; the pass keeps it, but for
\* the cookies only the live sync repairs.
THEOREM ParamsCorrect ==
    synced \in [prefix: STRING, sameSite: STRING, secure: BOOLEAN, path: STRING, domain: STRING]
        => PassKeepsWhatSyncPut
  BY DEF PassKeepsWhatSyncPut, Taken, LiveParams, PassParams, Persisted, Absence
===============================================================================
