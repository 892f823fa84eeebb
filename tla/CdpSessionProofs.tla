-------------------------- MODULE CdpSessionProofs --------------------------
(***************************************************************************)
(* For any number of commands: replies are read in order, none twice, a    *)
(* verdict is always a real answer of the browser, at most one command     *)
(* late for every call that gave up, and no count is higher than the       *)
(* browser's own.                                                          *)
(***************************************************************************)
EXTENDS CdpSession, FiniteSetTheorems, TLAPS

USE NAssumption DEF Command

\* The steps of the browser and those of the client that neither read nor
\* return leave the books of the client alone.
LEMMA BrowserInv == IInv /\ BrowserStep => IInv'
<1> SUFFICES ASSUME IInv, BrowserStep PROVE IInv'
  OBVIOUS
<1> USE DEF IInv, TypeOK, ConnectionOK, Stage, FrameIsCurrent, ExecutedInOrder, VerdictsUpToNow,
            CallsReturned, RepliesUsed, AnswersInOrder, AnswersAreReal, Answered
<1>1. CASE Greet
  BY <1>1 DEF Greet
<1>2. CASE Execute
  <2>1. executed + 1 \in Command /\ executed + 1 <= sent
    BY <1>2 DEF Execute
  <2>2. PICK o \in {"taken", "refused"} : outcome' = [outcome EXCEPT ![executed + 1] = o]
    BY <1>2 DEF Execute
  <2>3. TypeOK'
    BY <1>2, <2>1, <2>2 DEF Execute
  <2>4. ExecutedInOrder'
    BY <1>2, <2>1, <2>2 DEF Execute
  <2>5. \A c \in Answered : source[c] <= executed
    OBVIOUS
  <2>6. AnswersAreReal'
    BY <1>2, <2>1, <2>2, <2>5 DEF Execute
  <2> QED
    BY <1>2, <2>1, <2>3, <2>4, <2>6 DEF Execute
<1>3. CASE Hangup
  <2>1. TypeOK'
    <3>1. ConnectionOK'
      BY <1>3, Zenon DEF Hangup, ConnectionOK
    <3> QED
      BY <3>1, <1>3 DEF Hangup
  <2>2. UNCHANGED <<stage, cmd, frame, sent, executed, read, outcome, verdict, source>>
    BY <1>3 DEF Hangup
  <2> QED
    BY <2>1, <2>2
<1> QED
  BY <1>1, <1>2, <1>3 DEF BrowserStep

\* A call that gives up, having consumed nothing or some of what there is.
LEMMA GivesUpInv ==
  ASSUME IInv, stage \in {"header", "payload"}, GivesUp,
         read' \in read..written, UNCHANGED <<frame, browserVars>>
  PROVE  IInv'
<1> USE DEF IInv, TypeOK, ConnectionOK, Stage, GivesUp, Returns, browserVars
<1>1. TypeOK'
  OBVIOUS
<1>2. sent' <= cmd' /\ FrameIsCurrent' /\ ExecutedInOrder'
  BY DEF FrameIsCurrent, ExecutedInOrder
<1>3. VerdictsUpToNow' /\ CallsReturned'
  BY DEF VerdictsUpToNow, CallsReturned
<1>4. RepliesUsed' /\ AnswersInOrder' /\ AnswersAreReal'
  BY DEF RepliesUsed, AnswersInOrder, AnswersAreReal, Answered
<1> QED
  BY <1>1, <1>2, <1>3, <1>4

\* A call that returns the reply it has read: one the browser wrote, later than
\* all that were used before.
LEMMA PayloadReadInv == IInv /\ PayloadRead => IInv'
<1> SUFFICES ASSUME IInv, PayloadRead PROVE IInv'
  OBVIOUS
<1> USE DEF IInv, TypeOK, ConnectionOK, Stage, PayloadRead, Returns, browserVars
<1>1. /\ frame \in Command /\ cmd \in Command
      /\ read = 2 * frame - 1 /\ frame <= executed /\ frame <= cmd
      /\ outcome[frame] \in {"taken", "refused"}
  BY DEF FrameIsCurrent, ExecutedInOrder
<1>2. TypeOK'
  BY <1>1
<1>3. sent' <= cmd' /\ FrameIsCurrent' /\ ExecutedInOrder'
  BY DEF FrameIsCurrent, ExecutedInOrder
<1>4. VerdictsUpToNow' /\ CallsReturned'
  BY <1>1 DEF VerdictsUpToNow, CallsReturned
<1>5. \A c \in Answered : c < cmd /\ source[c] < frame
  BY <1>1 DEF RepliesUsed, VerdictsUpToNow, Answered
<1>6. Answered' = Answered \cup {cmd}
  BY <1>1 DEF Answered
<1>7. RepliesUsed' /\ AnswersInOrder' /\ AnswersAreReal'
  BY <1>1, <1>5, <1>6 DEF RepliesUsed, AnswersInOrder, AnswersAreReal, Answered
<1> QED
  BY <1>2, <1>3, <1>4, <1>7

\* No step of the client, whichever way its recv goes, breaks the invariant.
LEMMA ClientInv == IInv /\ ClientStep => IInv'
<1> SUFFICES ASSUME IInv, ClientStep PROVE IInv'
  OBVIOUS
<1> USE DEF IInv, browserVars
\* the steps that neither consume a payload nor return
<1>1. ASSUME \/ Dial \/ HandshakeAnswered \/ HandshakeUnanswered \/ Send \/ Close
             \/ HeaderRead \/ HeaderMisread \/ PayloadCut
      PROVE  IInv'
  <2> USE DEF TypeOK, ConnectionOK, Stage, FrameIsCurrent, ExecutedInOrder, VerdictsUpToNow,
              CallsReturned, RepliesUsed, AnswersInOrder, AnswersAreReal, Answered
  <2>1. CASE Dial \/ HandshakeAnswered \/ HandshakeUnanswered \/ Close \/ PayloadCut
    <3>1. stage' \in Stage \ {"header", "payload"}
      BY <2>1 DEF Dial, HandshakeAnswered, HandshakeUnanswered, Close, PayloadCut
    <3>2. UNCHANGED <<cmd, frame, read, verdict, source, browserVars>>
      BY <2>1 DEF Dial, HandshakeAnswered, HandshakeUnanswered, Close, PayloadCut
    <3>3. TypeOK'
      BY <3>1, <3>2 DEF ConnectionOK
    <3> QED
      BY <3>1, <3>2, <3>3
  <2>2. CASE Send
    <3>1. TypeOK' /\ sent' <= cmd'
      BY <2>2 DEF Send
    <3>2. UNCHANGED <<cmd, frame, executed, read, outcome, verdict, source>>
      BY <2>2 DEF Send
    <3>3. FrameIsCurrent'
      BY <2>2 DEF Send
    <3> QED
      BY <3>1, <3>2, <3>3
  <2>3. CASE HeaderRead
    BY <2>3 DEF HeaderRead
  <2>4. CASE HeaderMisread
    BY <2>4 DEF HeaderMisread
  <2> QED
    BY <1>1, <2>1, <2>2, <2>3, <2>4
<1>2. ASSUME HeaderMissing \/ HeaderShort \/ PayloadLate \/ PayloadGarbled
      PROVE  IInv'
  <2>1. /\ stage \in {"header", "payload"} /\ GivesUp
        /\ read' \in read..written /\ UNCHANGED <<frame, browserVars>>
    BY <1>2 DEF HeaderMissing, HeaderShort, PayloadLate, PayloadGarbled, TypeOK
  <2> QED
    BY <2>1, GivesUpInv
<1> QED
  BY <1>1, <1>2, PayloadReadInv DEF ClientStep

\* IInv is an invariant, for every number of commands.
THEOREM InvCorrect == Spec => []IInv
<1>1. Init => IInv
  <2> SUFFICES ASSUME Init PROVE IInv
    OBVIOUS
  <2>1. TypeOK
    <3>1. ConnectionOK
      BY Zenon DEF Init, ConnectionOK
    <3> QED
      BY <3>1 DEF Init, TypeOK, Stage
  <2>2. sent <= cmd /\ FrameIsCurrent /\ ExecutedInOrder /\ VerdictsUpToNow /\ CallsReturned
    BY DEF Init, FrameIsCurrent, ExecutedInOrder, VerdictsUpToNow, CallsReturned
  <2>3. RepliesUsed /\ AnswersInOrder /\ AnswersAreReal
    BY DEF Init, RepliesUsed, AnswersInOrder, AnswersAreReal, Answered
  <2> QED
    BY <2>1, <2>2, <2>3 DEF IInv
<1>2. IInv /\ [Next]_vars => IInv'
  <2>1. CASE UNCHANGED vars
    BY <2>1 DEF vars, IInv, TypeOK, ConnectionOK, Stage, FrameIsCurrent, ExecutedInOrder,
         VerdictsUpToNow, CallsReturned, RepliesUsed, AnswersInOrder, AnswersAreReal, Answered
  <2> QED
    BY <2>1, BrowserInv, ClientInv DEF Next
<1> QED
  BY <1>1, <1>2, PTL DEF Spec

\* No reply is read for two commands, and replies are read in order.
THEOREM OrderCorrect == Spec => []AnswersInOrder
<1>1. IInv => AnswersInOrder
  BY DEF IInv
<1> QED
  BY <1>1, InvCorrect, PTL

\* A verdict is a real answer of the browser to a command sent before.
THEOREM AnswersCorrect == Spec => []AnswersAreReal
<1>1. IInv => AnswersAreReal
  BY DEF IInv
<1> QED
  BY <1>1, InvCorrect, PTL

-----------------------------------------------------------------------------
(* What is counted.                                                        *)

\* The commands of a session are finitely many, so that they can be counted.
LEMMA CommandsFinite == IsFiniteSet(Command)
<1>1. 1 \in Int /\ N \in Int
  OBVIOUS
<1> QED
  BY <1>1, FS_Interval

\* Distinct commands take their answers from distinct replies, so as many
\* verdicts v as were returned the browser has given.
LEMMA CountsFollow == IInv => CountsAreEarned
<1> SUFFICES ASSUME IInv, NEW v \in {"taken", "refused"}
             PROVE  Cardinality({c \in Command : verdict[c] = v})
                        <= Cardinality({k \in Command : outcome[k] = v})
  BY DEF CountsAreEarned
<1> DEFINE S == {c \in Command : verdict[c] = v}
           T == {k \in Command : outcome[k] = v}
           f == [c \in S |-> source[c]]
<1>1. IsFiniteSet(T)
  BY CommandsFinite, FS_Subset, T \subseteq Command
<1>2. \A c \in S : c \in Answered /\ source[c] \in T
  BY DEF IInv, TypeOK, AnswersAreReal, Answered
<1>3. \A c, d \in S : source[c] = source[d] => c = d
  <2> SUFFICES ASSUME NEW c \in S, NEW d \in S, source[c] = source[d], c # d
               PROVE  FALSE
    OBVIOUS
  <2>1. c \in Answered /\ d \in Answered
    BY <1>2
  <2>2. source[c] \in Nat /\ c \in Nat /\ d \in Nat
    BY DEF IInv, TypeOK
  <2>3. source[c] < source[d] \/ source[d] < source[c]
    BY <2>1, <2>2 DEF IInv, AnswersInOrder
  <2> QED
    BY <2>2, <2>3
<1>4. f \in Injection(S, T)
  BY <1>2, <1>3 DEF Injection, IsInjective
<1> HIDE DEF S, T, f
<1>5. Cardinality(S) <= Cardinality(T)
  BY <1>1, <1>4, FS_Injection
<1> QED
  BY <1>5 DEF S, T

\* Of the commands up to an answered one, c, those that were answered have as many
\* replies among the first source[c]; the others gave up.
LEMMA LagFollows == IInv => LagIsExplained
<1> SUFFICES ASSUME IInv, NEW c \in Answered
             PROVE  c - source[c] <= Cardinality({d \in Unanswered : d < c})
  BY DEF LagIsExplained
<1> DEFINE A == {a \in Answered : a <= c}
           U == {d \in Unanswered : d < c}
           f == [a \in A |-> source[a]]
<1>1. c \in Command /\ c \in Nat /\ source[c] \in 1..N /\ c < cmd
  BY DEF IInv, TypeOK, Answered, VerdictsUpToNow
<1>2. IsFiniteSet(A) /\ IsFiniteSet(U)
  <2>1. A \subseteq Command /\ U \subseteq Command
    BY DEF Answered, Unanswered
  <2> QED
    BY <2>1, CommandsFinite, FS_Subset
<1>3. 1..c \subseteq A \cup U
  <2> SUFFICES ASSUME NEW d \in 1..c, d \notin U PROVE d \in A
    OBVIOUS
  <2>1. d \in Command /\ d <= c /\ d < cmd
    BY <1>1 DEF IInv, TypeOK
  <2>2. CASE d = c
    BY <2>2, <2>1
  <2>3. CASE d # c
    <3>1. verdict[d] \in {"taken", "refused"}
      BY <2>1, <2>3, <1>1 DEF IInv, TypeOK, CallsReturned, Unanswered
    <3> QED
      BY <3>1, <2>1 DEF IInv, AnswersAreReal
  <2> QED
    BY <2>2, <2>3
<1>4. \A a \in A : source[a] \in 1..source[c]
  BY <1>1 DEF IInv, TypeOK, AnswersInOrder, Answered
<1>5. \A a, b \in A : source[a] = source[b] => a = b
  <2> SUFFICES ASSUME NEW a \in A, NEW b \in A, source[a] = source[b], a # b
               PROVE  FALSE
    OBVIOUS
  <2>1. a \in Answered /\ b \in Answered /\ a \in Nat /\ b \in Nat /\ source[a] \in Nat
    BY DEF IInv, TypeOK, Answered
  <2>2. source[a] < source[b] \/ source[b] < source[a]
    BY <2>1 DEF IInv, AnswersInOrder
  <2> QED
    BY <2>1, <2>2
<1>6. f \in Injection(A, 1..source[c])
  BY <1>4, <1>5 DEF Injection, IsInjective
<1> HIDE DEF A, U, f
<1>7. Cardinality(1..c) = c /\ IsFiniteSet(1..source[c]) /\ Cardinality(1..source[c]) = source[c]
  BY <1>1, FS_Interval, 1 \in Int, c \in Int, source[c] \in Int, ~(1 > c), ~(1 > source[c])
<1>8. Cardinality(A) <= source[c]
  BY <1>6, <1>7, FS_Injection
<1>9. IsFiniteSet(A \cup U) /\ Cardinality(A \cup U) <= Cardinality(A) + Cardinality(U)
  <2>1. /\ IsFiniteSet(A \cup U)
        /\ Cardinality(A \cup U) = Cardinality(A) + Cardinality(U) - Cardinality(A \cap U)
    BY <1>2, FS_Union
  <2>2. Cardinality(A) \in Nat /\ Cardinality(U) \in Nat /\ Cardinality(A \cap U) \in Nat
    BY <1>2, FS_CardinalityType, FS_Intersection
  <2> QED
    BY <2>1, <2>2
<1>10. c <= Cardinality(A \cup U)
  <2>1. Cardinality(1..c) <= Cardinality(A \cup U)
    BY <1>3, <1>9, FS_Subset
  <2> QED
    BY <2>1, <1>7
<1>11. /\ Cardinality(A) \in Nat /\ Cardinality(U) \in Nat
       /\ Cardinality(A \cup U) \in Nat /\ source[c] \in Nat
  BY <1>1, <1>2, <1>9, FS_CardinalityType
<1>12. c - source[c] <= Cardinality(U)
  BY <1>1, <1>8, <1>9, <1>10, <1>11
<1> QED
  BY <1>12 DEF U

\* The counts a caller reports never exceed what the browser took and refused.
THEOREM CountsCorrect == Spec => []CountsAreEarned
  BY CountsFollow, InvCorrect, PTL

\* A verdict is late by at most one command for every call before it that gave up.
THEOREM LagCorrect == Spec => []LagIsExplained
  BY LagFollows, InvCorrect, PTL
=============================================================================
