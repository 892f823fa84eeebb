------------------------- MODULE ConnectTunnelProofs -------------------------
(***************************************************************************)
(* Proofs about the tunnels.  First the certificate authority: its         *)
(* inductive invariant and its four properties, for every set of hosts and *)
(* any number of crashes and failed writes.  Then the connections that use *)
(* it: they take no step it does not allow, so that all of this holds of   *)
(* the running process too, and for any number of connections and workers  *)
(* each is answered at most once and falls back only for a reason.         *)
(***************************************************************************)
EXTENDS ConnectTunnel, FiniteSetTheorems, TLAPS

-----------------------------------------------------------------------------
(* The certificate authority (MitmCa).                                     *)

\* Nothing is made, stored or handed out at first.
LEMMA MitmInitInv == MitmInit => MitmInv
  <1> SUFFICES ASSUME MitmInit PROVE MitmInv
    OBVIOUS
  <1> USE DEF MitmInit, Absent, NoLeaf
  <1>1. Absent \in File
    BY DEF File
  <1>2. leaf \in [Host -> [key: Nat, crt: Nat, ca: Nat]]
    OBVIOUS
  <1>3. MitmTypeOK
    BY <1>1, <1>2 DEF MitmTypeOK, Step
  <1>4. FilesMatch /\ StepsAgree /\ PersistedUnlessFailed
    BY DEF FilesMatch, StepsAgree, PersistedUnlessFailed, Creating, Torn
  <1>5. PairMatches /\ LeafMatches /\ RefusedOnlyWhenTorn
    BY DEF PairMatches, LeafMatches, RefusedOnlyWhenTorn
  <1> QED BY <1>3, <1>4, <1>5 DEF MitmInv

USE DEF MitmInv, MitmTypeOK, FilesMatch, StepsAgree, PersistedUnlessFailed, PairMatches,
        LeafMatches, RefusedOnlyWhenTorn, Creating, Torn, Whole, File, Step,
        files, memory, leaves, counts

\* A caller that gets the lock finds a CA in memory, or looks for one.
LEMMA AcquireInv == ASSUME MitmInv, NEW what \in Host \cup {Pem}, Acquire(what)
                    PROVE  MitmInv'
  BY DEF Acquire

\* A CA that is not there is made in memory first.
LEMMA LookInv == ASSUME MitmInv, Look PROVE MitmInv'
  BY DEF Look, BothThere

\* The two files are loaded one after the other, and are of the same CA.
LEMMA LoadInv == ASSUME MitmInv, LoadKey \/ LoadCrt PROVE MitmInv'
  BY DEF LoadKey, LoadCrt

\* The key's file is written while there is none of the certificate.
LEMMA WriteKeyInv == ASSUME MitmInv, OpenKey \/ WriteKey PROVE MitmInv'
  <1>1. CASE OpenKey
    BY <1>1 DEF OpenKey
  <1>2. CASE WriteKey
    BY <1>2 DEF WriteKey
  <1> QED BY <1>1, <1>2

\* The certificate's file follows, for the same CA.
LEMMA WriteCrtInv == ASSUME MitmInv, OpenCrt \/ WriteCrt PROVE MitmInv'
  <1>1. CASE OpenCrt
    BY <1>1 DEF OpenCrt
  <1>2. CASE WriteCrt
    <2> USE DEF WriteCrt
    <2>1. MitmTypeOK'
      BY <1>2
    <2>2. FilesMatch'
      BY <1>2
    <2>3. StepsAgree'
      BY <1>2
    <2>4. PersistedUnlessFailed'
      BY <1>2
    <2>5. (PairMatches /\ (cache # {} => caCert # 0) /\ RefusedOnlyWhenTorn)'
      BY <1>2
    <2>6. LeafMatches'
      BY <1>2
    <2> QED BY <2>1, <2>2, <2>3, <2>4, <2>5, <2>6
  <1> QED BY <1>1, <1>2

\* What is handed out is what is on the disk.
LEMMA HaveInv == ASSUME MitmInv, Have PROVE MitmInv'
  BY PemAssumption DEF Have

\* The two files of a leaf are of one mint before it is in the cache.
LEMMA MintInv == ASSUME MitmInv, MintKey \/ MintCrt PROVE MitmInv'
  <1>1. CASE MintKey
    <2> USE DEF MintKey
    <2>a. leaf[want] \in [key: Nat, crt: Nat, ca: Nat] /\ want \in Host \ cache
      BY <1>1
    <2>b. [leaf[want] EXCEPT !.key = minted + 1] \in [key: Nat, crt: Nat, ca: Nat]
      BY <1>1, <2>a
    <2>c. leaf' = [leaf EXCEPT ![want] = [leaf[want] EXCEPT !.key = minted + 1]]
      BY <1>1, <2>a
    <2>d. leaf' \in [Host -> [key: Nat, crt: Nat, ca: Nat]]
      BY <2>a, <2>b, <2>c
    <2>e. leaf'[want].key = minted + 1 /\ \A h \in cache : leaf'[h] = leaf[h]
      BY <2>a, <2>c
    <2>1. MitmTypeOK'
      BY <1>1, <2>a, <2>d, <2>e
    <2>2. FilesMatch'
      BY <1>1, <2>a, <2>d, <2>e
    <2>3. StepsAgree'
      BY <1>1, <2>a, <2>d, <2>e
    <2>4. PersistedUnlessFailed'
      BY <1>1, <2>a, <2>d, <2>e
    <2>5. (PairMatches /\ (cache # {} => caCert # 0) /\ RefusedOnlyWhenTorn)'
      BY <1>1, <2>a, <2>d, <2>e
    <2>6. LeafMatches'
      BY <1>1, <2>a, <2>d, <2>e
    <2> QED BY <2>1, <2>2, <2>3, <2>4, <2>5, <2>6
  <1>2. CASE MintCrt
    <2> USE DEF MintCrt
    <2>a. leaf[want] \in [key: Nat, crt: Nat, ca: Nat] /\ want \in Host
      BY <1>2
    <2>b. [leaf[want] EXCEPT !.crt = minted, !.ca = caKey] \in [key: Nat, crt: Nat, ca: Nat]
      BY <1>2, <2>a
    <2>c. leaf' = [leaf EXCEPT ![want] = [leaf[want] EXCEPT !.crt = minted, !.ca = caKey]]
      BY <1>2, <2>a
    <2>d. leaf' \in [Host -> [key: Nat, crt: Nat, ca: Nat]]
      BY <2>a, <2>b, <2>c
    <2>e. /\ leaf'[want].key = minted /\ leaf'[want].crt = minted /\ leaf'[want].ca = caKey
          /\ \A h \in cache : leaf'[h] = leaf[h] \/ h = want
      BY <1>2, <2>a, <2>c
    <2>1. MitmTypeOK'
      BY <1>2, <2>a, <2>d, <2>e
    <2>2. FilesMatch'
      BY <1>2, <2>a, <2>d, <2>e
    <2>3. StepsAgree'
      BY <1>2, <2>a, <2>d, <2>e
    <2>4. PersistedUnlessFailed'
      BY <1>2, <2>a, <2>d, <2>e
    <2>5. (PairMatches /\ (cache # {} => caCert # 0) /\ RefusedOnlyWhenTorn)'
      BY <1>2, <2>a, <2>d, <2>e
    <2>6. LeafMatches'
      BY <1>2, <2>a, <2>d, <2>e
    <2> QED BY <2>1, <2>2, <2>3, <2>4, <2>5, <2>6
  <1> QED BY <1>1, <1>2

\* A host that cannot be certified leaves the CA, and everything else, as it is.
LEMMA MintRefusedInv == ASSUME MitmInv, MintRefused PROVE MitmInv'
  BY DEF MintRefused

\* A write that fails, or the end of the process, may leave a torn file.
LEMMA InterruptInv == ASSUME MitmInv, WriteFails \/ MitmCrash PROVE MitmInv'
  <1>1. CASE WriteFails
    BY <1>1 DEF WriteFails
  <1>2. CASE MitmCrash
    BY <1>2 DEF MitmCrash
  <1> QED BY <1>1, <1>2

\* The lock is released with everything as it is.
LEMMA ReleaseInv == ASSUME MitmInv, Release PROVE MitmInv'
  BY DEF Release

\* Every step keeps the invariant.
LEMMA MitmNextInv == ASSUME MitmInv, [MitmNext]_mitmVars PROVE MitmInv'
  <1>1. CASE UNCHANGED mitmVars
    <2> USE DEF mitmVars
    <2>1. MitmTypeOK'
      BY <1>1
    <2>2. FilesMatch'
      BY <1>1
    <2>3. StepsAgree'
      BY <1>1
    <2>4. PersistedUnlessFailed'
      BY <1>1
    <2>5. (PairMatches /\ (cache # {} => caCert # 0) /\ RefusedOnlyWhenTorn)'
      BY <1>1
    <2>6. LeafMatches'
      BY <1>1
    <2> QED BY <2>1, <2>2, <2>3, <2>4, <2>5, <2>6
  <1>2. CASE \E what \in Host \cup {Pem} : Acquire(what)
    BY <1>2, AcquireInv
  <1>3. CASE CaStep
    BY <1>3, LookInv, LoadInv, WriteKeyInv, WriteCrtInv, HaveInv, MintRefusedInv, MintInv,
       InterruptInv
    DEF CaStep
  <1>4. CASE Release \/ MitmCrash
    BY <1>4, ReleaseInv, InterruptInv
  <1> QED BY <1>1, <1>2, <1>3, <1>4 DEF MitmNext

HIDE DEF MitmInv, MitmTypeOK, FilesMatch, StepsAgree, PersistedUnlessFailed, PairMatches,
         LeafMatches, RefusedOnlyWhenTorn, Creating, Torn, Whole, File, Step,
         files, memory, leaves, counts

\* The inductive invariant: files, memory, the caller's place and the leaves agree.
THEOREM MitmCorrect == MitmSpec => []MitmInv
  <1>1. MitmInit => MitmInv
    BY MitmInitInv
  <1>2. MitmInv /\ [MitmNext]_mitmVars => MitmInv'
    BY MitmNextInv
  <1> QED BY <1>1, <1>2, PTL DEF MitmSpec

\* The key that signs is the key of the certificate that is served.
THEOREM PairCorrect == MitmSpec => []PairMatches
  BY MitmCorrect, PTL DEF MitmInv

\* While no write has failed, a certificate once handed out is the one that is
\* served ever after, whatever the moments the process ended at.
THEOREM TrustCorrect == MitmSpec => []TrustLasts
  <1>1. MitmInv => TrustLasts
    BY DEF MitmInv, MitmTypeOK, FilesMatch, StepsAgree, PersistedUnlessFailed, TrustLasts,
           Creating, Whole, Torn, File
  <1> QED BY MitmCorrect, <1>1, PTL

\* A cached leaf's files are of one mint, signed by the CA that is served.
THEOREM LeafCorrect == MitmSpec => []LeafMatches
  BY MitmCorrect, PTL DEF MitmInv

\* A caller is refused only when a certificate has been torn or a write has failed,
\* or for a host that no leaf can be minted for, and then the CA is in memory.
THEOREM RefusalExplained == MitmSpec => []RefusedOnlyWhenTorn
  BY MitmCorrect, PTL DEF MitmInv

-----------------------------------------------------------------------------
(* The connections (ConnectTunnel).                                        *)

\* Whatever a connection does, the CA takes one of its own steps or none.
LEMMA TunnelStepsCa == TunnelNext => [MitmNext]_mitmVars
<1> SUFFICES ASSUME TunnelNext PROVE [MitmNext]_mitmVars
  OBVIOUS
<1>1. ASSUME NEW c \in Conn, ServeStep(c) \/ PeersEnd(c) \/ ClientGoes(c) \/ OriginGoes(c)
      PROVE  [MitmNext]_mitmVars
  <2>1. CASE Starts(c)
    <3>1. kind[c] = "pem" \/ kind[c] \in Host => Asked(c) \in Host \cup {Pem}
      BY HostsAssumption DEF Asked
    <3> QED
      BY <2>1, <3>1 DEF Starts, MitmNext
  <2>2. CASE LeavesCa(c)
    BY <2>2 DEF LeavesCa, MitmNext
  <2>3. ASSUME ~Starts(c), ~LeavesCa(c)
        PROVE  UNCHANGED mitmVars
    BY <1>1, <2>3 DEF ServeStep, PeersEnd, ClientGoes, OriginGoes, SetsUp, ShakesHands, DialsOrigin,
                RelayEnds, Dials, TunnelEnds, SourceEnds, HalfEnds, Upgrades
  <2> QED
    BY <2>1, <2>2, <2>3
<1>2. CASE WorkerTakes
  BY <1>2 DEF WorkerTakes
<1>3. CASE CaWorks \/ ProxyDies
  BY <1>3 DEF CaWorks, ProxyDies, MitmNext
<1> QED
  BY <1>1, <1>2, <1>3 DEF TunnelNext

\* A torn certificate and a failed write are not forgotten.
LEMMA TroubleLasts ==
  ASSUME MitmInv, [MitmNext]_mitmVars
  PROVE  (tornCrt => tornCrt') /\ (failedWrites > 0 => failedWrites' > 0)
<1>1. failedWrites \in Nat
  BY DEF MitmInv, MitmTypeOK
<1>2. CASE UNCHANGED <<tornCrt, failedWrites>>
  BY <1>2
<1>3. CASE WriteFails
  BY <1>1, <1>3 DEF WriteFails
<1>4. CASE MitmCrash
  BY <1>4 DEF MitmCrash
<1>5. CASE ~WriteFails /\ ~MitmCrash
  BY <1>2, <1>5 DEF MitmNext, CaStep, Acquire, Look, LoadKey, LoadCrt, OpenKey, WriteKey, OpenCrt,
           WriteCrt, Have, MintRefused, MintKey, MintCrt, Release, mitmVars, counts
<1> QED
  BY <1>3, <1>4, <1>5

\* What the invariant says of one connection.
Sound(c) ==
    /\ answers[c] <= 1
    /\ conn[c] \in {"queued", "start", "setup"} => answers[c] = 0
    /\ conn[c] = "ca" => answers[c] = IF kind[c] = "pem" THEN 1 ELSE 0
    /\ conn[c] = "dial" => answers[c] = 0 \/ c \in cut
    /\ conn[c] = "origin" => c \in cut
    /\ conn[c] = "tunnel" => c \notin cut
    /\ conn[c] \in {"dial", "tunnel"} /\ kind[c] \in Host /\ c \notin cut =>
          tornCrt \/ failedWrites > 0 \/ kind[c] \in Unmintable \/ c \notin client

\* The CA works on for the caller it works for, and nobody else comes to it.
LEMMA StillAlone ==
  ASSUME AloneAtCa, CaStep \/ UNCHANGED mitmVars, UNCHANGED kind,
         \A d \in Conn : conn'[d] = "ca" => conn[d] = "ca"
  PROVE  AloneAtCa'
<1>1. want' = want /\ (step # "free" => step' # "free")
  <2>1. CASE UNCHANGED mitmVars
    BY <2>1 DEF mitmVars
  <2>2. CASE CaStep
    BY <2>2 DEF CaStep, Look, LoadKey, LoadCrt, OpenKey, WriteKey, OpenCrt, WriteCrt, Have,
                MintRefused, MintKey, MintCrt, WriteFails
  <2> QED
    BY <2>1, <2>2
<1> QED
  BY <1>1 DEF AloneAtCa, Asked

\* The invariants of the connections, one connection at a time.
LEMMA AllSound ==
  AnswersSoFar /\ OneAnswer /\ CutByThen /\ FallbackExplained <=> \A c \in Conn : Sound(c)
  BY DEF AnswersSoFar, OneAnswer, CutByThen, FallbackExplained, Sound

\* A step that moves no connection.
LEMMA NoneMoves ==
  ASSUME TunnelInv, CaStep \/ UNCHANGED mitmVars,
         UNCHANGED <<kind, conn, queue, answers, cut>>, client' \subseteq client
  PROVE  TunnelInv'
<1> USE DEF TunnelInv
<1>0. [MitmNext]_mitmVars
  BY DEF MitmNext
<1>1. MitmInv'
  BY <1>0, MitmNextInv
<1>2. TunnelTypeOK' /\ QueuedOnce'
  BY DEF TunnelTypeOK, QueuedOnce
<1>a. AloneAtCa'
  BY StillAlone
<1>3. \A c \in Conn : Sound(c)'
  BY <1>0, AllSound, TroubleLasts DEF Sound
<1>4. (AnswersSoFar /\ OneAnswer /\ CutByThen /\ FallbackExplained)'
  BY <1>3 DEF AnswersSoFar, OneAnswer, CutByThen, FallbackExplained, Sound
<1> QED
  BY <1>1, <1>2, <1>a, <1>4

\* A step that moves one connection, which is no longer in the queue.
LEMMA OneMoves ==
  ASSUME TunnelInv, [MitmNext]_mitmVars, NEW c \in Conn, NEW to \in Place, Goes(c, to),
         conn[c] # "queued", UNCHANGED <<kind, queue, client>>,
         answers' = answers \/ Answered(c), cut' \in {cut, cut \cup {c}}, Sound(c)', AloneAtCa'
  PROVE  TunnelInv'
<1> USE DEF TunnelInv, TunnelTypeOK
<1>1. MitmInv'
  BY MitmNextInv
<1>2. /\ conn' \in [Conn -> Place] /\ \A d \in Conn \ {c} : conn'[d] = conn[d]
      /\ answers' \in [Conn -> Nat] /\ \A d \in Conn \ {c} : answers'[d] = answers[d]
      /\ cut' \subseteq Conn
  <2>1. conn' \in [Conn -> Place] /\ \A d \in Conn \ {c} : conn'[d] = conn[d]
    BY DEF Goes
  <2>2. answers' \in [Conn -> Nat] /\ \A d \in Conn \ {c} : answers'[d] = answers[d]
    <3>1. CASE answers' = answers
      BY <3>1
    <3>2. CASE Answered(c)
      BY <3>2 DEF Answered
    <3> QED
      BY <3>1, <3>2
  <2>3. cut' \subseteq Conn
    OBVIOUS
  <2> QED
    BY <2>1, <2>2, <2>3
<1>3. TunnelTypeOK'
  BY <1>2
<1>4. QueuedOnce'
  BY <1>2 DEF QueuedOnce
<1>5. \A d \in Conn : Sound(d)'
  <2> SUFFICES ASSUME NEW d \in Conn, d # c PROVE Sound(d)'
    OBVIOUS
  <2>1. Sound(d)
    BY AllSound
  <2> QED
    BY <2>1, <1>2, TroubleLasts DEF Sound
<1>6. (AnswersSoFar /\ OneAnswer /\ CutByThen /\ FallbackExplained)'
  BY <1>5 DEF AnswersSoFar, OneAnswer, CutByThen, FallbackExplained, Sound
<1> QED
  BY <1>1, <1>3, <1>4, <1>6

\* A step that moves one connection, but not to the CA, and leaves that as it is.
LEMMA MovesOn ==
  ASSUME TunnelInv, UNCHANGED mitmVars, NEW c \in Conn, NEW to \in Place \ {"ca"}, Goes(c, to),
         conn[c] # "queued", UNCHANGED <<kind, queue, client>>,
         answers' = answers \/ Answered(c), cut' \in {cut, cut \cup {c}}, Sound(c)'
  PROVE  TunnelInv'
<1>1. \A d \in Conn : conn'[d] = "ca" => conn[d] = "ca"
  BY DEF Goes, TunnelInv, TunnelTypeOK
<1>2. AloneAtCa'
  BY <1>1, StillAlone DEF TunnelInv
<1> QED
  BY <1>2, OneMoves

\* The ways of one connection.
LEMMA ServeInv ==
  ASSUME TunnelInv, NEW c \in Conn, ServeStep(c) \/ PeersEnd(c) \/ ClientGoes(c) \/ OriginGoes(c)
  PROVE  TunnelInv'
<1>0. [MitmNext]_mitmVars
  BY TunnelStepsCa DEF TunnelNext
<1>a. Sound(c)
  BY AllSound DEF TunnelInv
<1>b. /\ kind[c] \in Kind /\ "pem" \notin Host /\ "raw" \notin Host
      /\ answers[c] \in Nat /\ answers \in [Conn -> Nat]
      /\ conn \in [Conn -> Place] /\ tornCrt \in BOOLEAN
  BY HostsAssumption DEF TunnelInv, TunnelTypeOK, MitmInv, MitmTypeOK
<1>c. ASSUME UNCHANGED mitmVars
      PROVE  tornCrt' = tornCrt /\ failedWrites' = failedWrites
  BY <1>c DEF mitmVars
<1>1. CASE Starts(c)
  <2>1. /\ conn[c] = "start" /\ UNCHANGED <<kind, queue, client, cut>>
        /\ \/ Goes(c, "closed") /\ UNCHANGED answers
           \/ kind[c] = "raw" /\ Goes(c, "dial") /\ UNCHANGED answers
           \/ kind[c] \in Host /\ Goes(c, "ca") /\ UNCHANGED answers
           \/ kind[c] = "pem" /\ Goes(c, "ca") /\ Answered(c)
        /\ \/ UNCHANGED mitmVars /\ (Goes(c, "closed") \/ Goes(c, "dial"))
           \/ Acquire(Asked(c)) /\ Goes(c, "ca")
    BY <1>1 DEF Starts, peers
  <2>2. PICK to \in {"closed", "dial", "ca"} : Goes(c, to)
    BY <2>1
  <2>3. Sound(c)'
    BY <2>1, <1>a, <1>b DEF Sound, Goes, Answered
  <2>4. to \in Place /\ (answers' = answers \/ Answered(c))
    BY <2>1 DEF Place
  <2>5. AloneAtCa'
    <3>1. CASE UNCHANGED mitmVars /\ (Goes(c, "closed") \/ Goes(c, "dial"))
      <4>1. \A d \in Conn : conn'[d] = "ca" => conn[d] = "ca"
        BY <3>1, <1>b DEF Goes
      <4> QED
        BY <2>1, <3>1, <4>1, StillAlone DEF TunnelInv
    <3>2. CASE Acquire(Asked(c)) /\ Goes(c, "ca")
      <4>1. \A d \in Conn : conn[d] # "ca"
        BY <3>2 DEF Acquire, AloneAtCa, TunnelInv
      <4>2. step' # "free" /\ want' = Asked(c)'
        BY <3>2, <2>1 DEF Acquire, Asked
      <4>3. \A d \in Conn : conn'[d] = "ca" => d = c
        BY <4>1, <3>2, <1>b DEF Goes
      <4> QED
        BY <4>2, <4>3 DEF AloneAtCa
    <3> QED
      BY <2>1, <3>1, <3>2
  <2> QED
    BY <2>1, <2>2, <2>3, <2>4, <2>5, <1>0, OneMoves
<1>2. CASE LeavesCa(c)
  <2> DEFINE to == IF kind[c] = "pem" THEN "closed" ELSE IF step = "raised" THEN "dial" ELSE "setup"
  <2>1. /\ conn[c] = "ca" /\ UNCHANGED <<kind, queue, client, answers, cut>> /\ Goes(c, to)
    BY <1>2 DEF LeavesCa, peers
  <2>2. step = "raised" /\ kind[c] # "pem" => \/ tornCrt' \/ failedWrites' > 0
                                               \/ kind[c] \in Unmintable
    <3>1. step = "raised" => tornCrt \/ failedWrites > 0 \/ want \in Unmintable
      BY DEF TunnelInv, MitmInv, RefusedOnlyWhenTorn
    <3>2. kind[c] # "pem" => want = kind[c]
      BY <2>1 DEF TunnelInv, AloneAtCa, Asked
    <3> QED
      BY <3>1, <3>2, <1>0, TroubleLasts DEF TunnelInv
  <2>3. Sound(c)'
    BY <2>1, <2>2, <1>a, <1>b DEF Sound, Goes
  <2>4. to \in Place
    BY DEF Place
  <2>5. AloneAtCa'
    BY <2>1, <1>b DEF Goes, AloneAtCa, TunnelInv
  <2> QED
    BY <2>1, <2>3, <2>4, <2>5, <1>0, OneMoves
<1>3. CASE SetsUp(c)
  <2>1. /\ conn[c] = "setup" /\ UNCHANGED <<mitmVars, kind, queue, client, cut>>
        /\ \/ Goes(c, "shake") /\ Answered(c)
           \/ c \notin client /\ Goes(c, "dial") /\ UNCHANGED answers
    BY <1>3 DEF SetsUp, peers
  <2>2. Sound(c)'
    BY <2>1, <1>a, <1>b DEF Sound, Goes, Answered
  <2>3. {"shake", "dial"} \subseteq Place \ {"ca"}
    BY DEF Place
  <2> QED
    BY <2>1, <2>2, <2>3, MovesOn
<1>4. CASE ShakesHands(c)
  <2>1. /\ conn[c] = "shake" /\ UNCHANGED <<mitmVars, kind, queue, client, answers>>
        /\ cut' = cut \cup {c}
        /\ Goes(c, "origin") \/ Goes(c, "dial")
    BY <1>4 DEF ShakesHands, peers
  <2>2. Sound(c)'
    BY <2>1, <1>a, <1>b DEF Sound, Goes
  <2>3. {"origin", "dial"} \subseteq Place \ {"ca"}
    BY DEF Place
  <2> QED
    BY <2>1, <2>2, <2>3, MovesOn
<1>5. CASE DialsOrigin(c)
  <2>1. /\ conn[c] = "origin" /\ UNCHANGED <<mitmVars, kind, queue, client, answers, cut>>
        /\ Goes(c, "relay") \/ Goes(c, "dial")
    BY <1>5 DEF DialsOrigin, peers
  <2>2. Sound(c)'
    BY <2>1, <1>a, <1>b DEF Sound, Goes
  <2>3. {"relay", "dial"} \subseteq Place \ {"ca"}
    BY DEF Place
  <2> QED
    BY <2>1, <2>2, <2>3, MovesOn
<1>6. ASSUME /\ conn[c] \in Place \ {"queued"}
             /\ UNCHANGED <<mitmVars, kind, queue, client, answers, cut>>
             /\ Goes(c, "closed") \/ Goes(c, "upgraded")
      PROVE  TunnelInv'
  <2>1. Sound(c)'
    BY <1>6, <1>a, <1>b DEF Sound, Goes
  <2>2. {"closed", "upgraded"} \subseteq Place \ {"ca"}
    BY DEF Place
  <2> QED
    BY <1>6, <2>1, <2>2, MovesOn
<1>7. CASE Dials(c)
  <2>1. conn[c] = "dial" /\ UNCHANGED <<mitmVars, kind, queue, client, cut>>
    BY <1>7 DEF Dials, peers
  <2>2. CASE Goes(c, "closed") /\ UNCHANGED answers
    BY <2>1, <2>2, <1>6 DEF Place
  <2>3. CASE ~(Goes(c, "closed") /\ UNCHANGED answers)
    <3>1. c \notin cut /\ Answered(c) /\ (Goes(c, "tunnel") \/ Goes(c, "closed"))
      BY <1>7, <2>3 DEF Dials
    <3>2. Sound(c)'
      BY <3>1, <2>1, <1>a, <1>b, <1>c DEF Sound, Goes, Answered
    <3>3. {"closed", "tunnel"} \subseteq Place \ {"ca"}
      BY DEF Place
    <3> QED
      BY <3>1, <3>2, <3>3, <2>1, MovesOn
  <2> QED
    BY <2>2, <2>3
<1>8. CASE RelayEnds(c) \/ TunnelEnds(c) \/ Upgrades(c) \/ (conn[c] = "relay" /\ Goes(c, "closed") /\
             UNCHANGED <<mitmVars, kind, queue, answers, cut, peers, splice>>)
  BY <1>8, <1>6 DEF RelayEnds, TunnelEnds, Upgrades, peers, Place
<1>9. CASE \/ \E half \in Half : HalfEnds(c, half)
           \/ ClientGoes(c) \/ OriginGoes(c)
  <2>1. UNCHANGED <<mitmVars, kind, conn, queue, answers, cut>> /\ client' \subseteq client
    BY <1>9 DEF HalfEnds, ClientGoes, OriginGoes, peers
  <2> QED
    BY <2>1, NoneMoves
<1> QED
  BY <1>1, <1>2, <1>3, <1>4, <1>5, <1>7, <1>8, <1>9 DEF ServeStep, PeersEnd, SourceEnds, Half

\* The pool, and the process.
LEMMA PoolInv == TunnelInv /\ (WorkerTakes \/ CaWorks \/ ProxyDies) => TunnelInv'
<1> SUFFICES ASSUME TunnelInv, WorkerTakes \/ CaWorks \/ ProxyDies PROVE TunnelInv'
  OBVIOUS
<1>0. [MitmNext]_mitmVars
  BY TunnelStepsCa DEF TunnelNext
<1>1. MitmInv'
  BY <1>0, MitmNextInv DEF TunnelInv
<1> USE DEF TunnelTypeOK
<1>2. CASE WorkerTakes
  <2> DEFINE c == Head(queue)
  <2>1. /\ queue # <<>> /\ queue' = Tail(queue) /\ Goes(c, "start")
        /\ UNCHANGED <<kind, answers, cut, client>> /\ UNCHANGED mitmVars
    BY <1>2 DEF WorkerTakes, peers
  <2>2. /\ Len(queue) \in Nat \ {0} /\ c = queue[1] /\ c \in Conn
        /\ queue' \in Seq(Conn) /\ Len(queue') = Len(queue) - 1
        /\ \A i \in 1..Len(queue') : i + 1 \in 1..Len(queue) /\ queue'[i] = queue[i + 1]
    BY <2>1 DEF TunnelInv
  <2>3. conn[c] = "queued" /\ \A i \in 1..Len(queue') : queue'[i] # c
    BY <2>2 DEF TunnelInv, QueuedOnce
  <2> HIDE DEF c
  <2>4. conn' \in [Conn -> Place] /\ conn'[c] = "start" /\ \A d \in Conn \ {c} : conn'[d] = conn[d]
    BY <2>1, <2>2 DEF Goes, Place, TunnelInv
  <2>5. TunnelTypeOK'
    BY <2>1, <2>2, <2>4 DEF TunnelInv
  <2>6. QueuedOnce'
    <3>1. \A i \in 1..Len(queue') : conn'[queue'[i]] = "queued"
      <4> TAKE i \in 1..Len(queue')
      <4>1. queue'[i] \in Conn \ {c} /\ queue'[i] = queue[i + 1] /\ i + 1 \in 1..Len(queue)
        BY <2>2, <2>3
      <4> QED
        BY <4>1, <2>4 DEF TunnelInv, QueuedOnce
    <3>2. \A i, j \in 1..Len(queue') : queue'[i] = queue'[j] => i = j
      <4> TAKE i, j \in 1..Len(queue')
      <4>1. (queue[i + 1] = queue[j + 1]) => i + 1 = j + 1
        BY <2>2 DEF TunnelInv, QueuedOnce
      <4> QED
        BY <4>1, <2>2
    <3> QED
      BY <3>1, <3>2 DEF QueuedOnce
  <2>7. \A d \in Conn : Sound(d)'
    <3> SUFFICES ASSUME NEW d \in Conn PROVE Sound(d)'
      OBVIOUS
    <3>1. Sound(d)
      BY AllSound DEF TunnelInv
    <3>2. tornCrt' = tornCrt /\ failedWrites' = failedWrites
      BY <2>1 DEF mitmVars
    <3>3. conn'[d] = conn[d] \/ (conn'[d] = "start" /\ conn[d] = "queued")
      BY <2>3, <2>4
    <3> QED
      BY <3>1, <3>2, <3>3, <2>1 DEF Sound
  <2>8. (AnswersSoFar /\ OneAnswer /\ CutByThen /\ FallbackExplained)'
    BY <2>7 DEF AnswersSoFar, OneAnswer, CutByThen, FallbackExplained, Sound
  <2>9. AloneAtCa'
    <3>1. \A d \in Conn : conn'[d] = "ca" => conn[d] = "ca"
      BY <2>4
    <3> QED
      BY <2>1, <3>1, StillAlone DEF TunnelInv
  <2> QED
    BY <1>1, <2>5, <2>6, <2>8, <2>9 DEF TunnelInv
<1>3. CASE CaWorks
  BY <1>3, NoneMoves DEF CaWorks, connVars, peers
<1>4. CASE ProxyDies
  <2>1. /\ conn' = [c \in Conn |-> IF c \in Busy THEN "closed" ELSE conn[c]]
        /\ UNCHANGED <<kind, queue, answers, cut, client>>
    BY <1>4 DEF ProxyDies, peers
  <2>2. \A d \in Conn : conn'[d] = conn[d] \/ (conn'[d] = "closed" /\ conn[d] # "queued")
    BY <2>1 DEF Busy
  <2>3. TunnelTypeOK'
    BY <2>1 DEF TunnelInv, Place
  <2>4. QueuedOnce'
    BY <2>1, <2>2 DEF TunnelInv, QueuedOnce
  <2>5. \A d \in Conn : Sound(d)'
    <3> SUFFICES ASSUME NEW d \in Conn PROVE Sound(d)'
      OBVIOUS
    <3>1. Sound(d)
      BY AllSound DEF TunnelInv
    <3>2. (tornCrt => tornCrt') /\ (failedWrites > 0 => failedWrites' > 0)
      BY <1>0, TroubleLasts DEF TunnelInv
    <3>3. conn'[d] = conn[d] \/ conn'[d] = "closed"
      BY <2>2
    <3> QED
      BY <3>1, <3>2, <3>3, <2>1 DEF Sound
  <2>6. (AnswersSoFar /\ OneAnswer /\ CutByThen /\ FallbackExplained)'
    BY <2>5 DEF AnswersSoFar, OneAnswer, CutByThen, FallbackExplained, Sound
  <2>7. AloneAtCa'
    <3>1. \A d \in Conn : conn'[d] # "ca"
      BY <2>1 DEF Busy
    <3> QED
      BY <3>1 DEF AloneAtCa
  <2> QED
    BY <1>1, <2>3, <2>4, <2>6, <2>7 DEF TunnelInv
<1> QED
  BY <1>2, <1>3, <1>4

\* At first nobody is connected and nothing has been answered.
LEMMA TunnelInitInv == TunnelInit => TunnelInv
<1> SUFFICES ASSUME TunnelInit PROVE TunnelInv
  OBVIOUS
<1>1. MitmInv
  BY MitmInitInv DEF TunnelInit
<1>2. /\ conn = [c \in Conn |-> "queued"] /\ answers = [c \in Conn |-> 0]
      /\ kind \in [Conn -> Kind] /\ cut = {} /\ client = Conn
  BY KindsAssumption DEF TunnelInit
<1>3. /\ queue \in [1..Cardinality(Conn) -> Conn] /\ {queue[i] : i \in DOMAIN queue} = Conn
      /\ Cardinality(Conn) \in Nat
  BY ConnAssumption, FS_CardinalityType DEF TunnelInit
<1>4. queue \in Seq(Conn) /\ Len(queue) = Cardinality(Conn)
  BY <1>3
<1>5. \A i, j \in 1..Cardinality(Conn) : queue[i] = queue[j] => i = j
  <2> DEFINE n == Cardinality(Conn)
  <2>1. IsFiniteSet(1..n) /\ Cardinality(1..n) = n
    <3>1. 1 \in Int /\ n \in Int
      BY <1>3
    <3>2. IsFiniteSet(1..n) /\ Cardinality(1..n) = IF 1 > n THEN 0 ELSE n - 1 + 1
      BY <3>1, FS_Interval
    <3> QED
      BY <3>2, <1>3
  <2>2. queue \in Surjection(1..n, Conn)
    BY <1>3 DEF Surjection
  <2> HIDE DEF n
  <2>3. queue \in Injection(1..n, Conn)
    BY <2>1, <2>2, FS_SurjSameCardinalityImpliesInj DEF n
  <2> QED
    BY <2>3 DEF Injection, IsInjective, n
<1>6. TunnelTypeOK
  BY <1>2, <1>4 DEF TunnelTypeOK, Place
<1>7. QueuedOnce
  BY <1>2, <1>3, <1>4, <1>5 DEF QueuedOnce
<1>8. AnswersSoFar /\ OneAnswer /\ CutByThen /\ FallbackExplained /\ AloneAtCa
  BY <1>2 DEF AloneAtCa, AnswersSoFar, OneAnswer, CutByThen, FallbackExplained
<1> QED
  BY <1>1, <1>6, <1>7, <1>8 DEF TunnelInv

\* The inductive invariant, for any number of connections and workers.
THEOREM TunnelCorrect == TunnelSpec => []TunnelInv
<1>1. TunnelInit => TunnelInv
  BY TunnelInitInv
<1>2. TunnelInv /\ [TunnelNext]_tunnelVars => TunnelInv'
  <2>1. CASE UNCHANGED tunnelVars
    BY <2>1, NoneMoves DEF tunnelVars, connVars, peers
  <2> QED
    BY <2>1, ServeInv, PoolInv DEF TunnelNext
<1> QED
  BY <1>1, <1>2, PTL DEF TunnelSpec

\* The process with its pool implements the CA on its own: MitmCorrect and its
\* corollaries hold of it (mitm.py under _lock, called from do_CONNECT).
THEOREM TunnelImplementsCa == TunnelSpec => MitmSpec
<1>1. TunnelInit => MitmInit
  BY DEF TunnelInit
<1>2. [TunnelNext]_tunnelVars => [MitmNext]_mitmVars
  BY TunnelStepsCa DEF tunnelVars
<1> QED
  BY <1>1, <1>2, PTL DEF TunnelSpec, MitmSpec

\* A connection is answered at most once (do_CONNECT, _mitm_tunnel, the fallback).
THEOREM AnsweredOnce == TunnelSpec => []OneAnswer
<1>1. TunnelInv => OneAnswer
  BY DEF TunnelInv
<1> QED
  BY <1>1, TunnelCorrect, PTL

\* A host that is to be intercepted is spliced raw only because the CA was refused,
\* because no leaf can be minted for it, or because its client had gone.
THEOREM SplicedForAReason == TunnelSpec => []SplicedOnlyWhenRefused
<1>1. TunnelInv => SplicedOnlyWhenRefused
  BY DEF TunnelInv, CutByThen, FallbackExplained, SplicedOnlyWhenRefused
<1> QED
  BY <1>1, TunnelCorrect, PTL
==============================================================================
