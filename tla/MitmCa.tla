------------------------------- MODULE MitmCa -------------------------------
(***************************************************************************)
(* The certificate authority of the TLS interception (mitm.py): one CA,    *)
(* kept as two files and loaded or created on first use, and a leaf        *)
(* certificate per host, minted once per process.  All of it runs under    *)
(* one lock; what interleaves with it is the end of the process, a write   *)
(* that fails and raises with the globals set already, and a host that no  *)
(* certificate can name.                                                   *)
(*                                                                         *)
(* A certificate or key is a version number.  A file is there or not, and  *)
(* is unreadable (version 0) from the open that truncates it to the write. *)
(***************************************************************************)
EXTENDS Naturals

CONSTANTS
    Host,               \* the intercepted hosts
    Unmintable,         \* of these, the ones minting raises for: empty or longer
                        \* than 64 characters, not ASCII, no name for a file
    Pem,                \* the other thing asked for: the CA certificate itself
    MaxCrashes,         \* bound: ends of the process
    MaxFailedWrites     \* bound: writes to the disk that fail

ASSUME PemAssumption  == Pem \notin Host
ASSUME UnmintableAssumption == Unmintable \subseteq Host
ASSUME MitmBoundAssumption == MaxCrashes \in Nat /\ MaxFailedWrites \in Nat

VARIABLES
    keyFile, crtFile,   \* mitm_ca.key and mitm_ca.crt
    caKey, caCert,      \* _ca_key and _ca_cert, 0 for None
    made,               \* CAs generated so far; the latest one's version
    leaf,               \* leaf[h]: the versions in h.key and h.crt and the issuer
    minted,             \* leaves minted so far
    cache,              \* the hosts in _leaf_cache
    step, want,         \* the caller that holds _lock: where it is, what it wants
    handed,             \* the CA certificates clients have been given to trust
    tornCrt,            \* the process ended while the certificate was written
    crashes, failedWrites

files  == <<keyFile, crtFile>>
memory == <<caKey, caCert>>
leaves == <<leaf, minted, cache>>
mitmVars == <<keyFile, crtFile, caKey, caCert, made, leaf, minted, cache, step, want,
              handed, tornCrt, crashes, failedWrites>>
counts == <<tornCrt, crashes, failedWrites>>

Absent   == [there |-> FALSE, ca |-> 0]
Torn     == [there |-> TRUE, ca |-> 0]
Whole(n) == [there |-> TRUE, ca |-> n]
File     == [there: BOOLEAN, ca: Nat]
NoLeaf   == [key |-> 0, crt |-> 0, ca |-> 0]

Step == {"free", "look", "loadKey", "loadCrt", "openKey", "writeKey", "openCrt",
         "writeCrt", "have", "mintKey", "mintCrt", "returned", "raised"}

MitmTypeOK ==
    /\ keyFile \in File /\ crtFile \in File
    /\ caKey \in Nat /\ caCert \in Nat /\ made \in Nat
    /\ leaf \in [Host -> [key: Nat, crt: Nat, ca: Nat]]
    /\ minted \in Nat /\ cache \subseteq Host
    /\ step \in Step /\ want \in Host \cup {Pem}
    /\ handed \subseteq Nat
    /\ tornCrt \in BOOLEAN /\ crashes \in Nat /\ failedWrites \in Nat

MitmInit ==
    /\ keyFile = Absent /\ crtFile = Absent
    /\ caKey = 0 /\ caCert = 0 /\ made = 0
    /\ leaf = [h \in Host |-> NoLeaf] /\ minted = 0 /\ cache = {}
    /\ step = "free" /\ want = Pem
    /\ handed = {} /\ tornCrt = FALSE /\ crashes = 0 /\ failedWrites = 0

-----------------------------------------------------------------------------
\* with _lock: if _ca_cert is None, _load_or_create_ca()
Acquire(what) ==
    /\ step = "free"
    /\ want' = what
    /\ step' = IF caCert = 0 THEN "look" ELSE "have"
    /\ UNCHANGED <<files, memory, made, leaves, handed, counts>>

\* mutant: the key alone decides
BothThereOrKey == keyFile.there

\* both files exist, or a new CA is made
BothThere == keyFile.there /\ crtFile.there

Look ==
    /\ step = "look"
    /\ IF BothThere
       THEN step' = "loadKey" /\ UNCHANGED <<memory, made>>
       ELSE /\ step' = "openKey"
            /\ made' = made + 1
            /\ caKey' = made + 1 /\ caCert' = made + 1
    /\ UNCHANGED <<files, leaves, want, handed, counts>>

LoadKey ==
    /\ step = "loadKey"
    /\ IF keyFile.ca = 0
       THEN step' = "raised" /\ UNCHANGED caKey
       ELSE step' = "loadCrt" /\ caKey' = keyFile.ca
    /\ UNCHANGED <<files, caCert, made, leaves, want, handed, counts>>

\* mutant: a torn certificate is made anew, and the key is not
LoadCrtHealsHalf ==
    /\ step = "loadCrt"
    /\ IF crtFile.ca = 0
       THEN step' = "openCrt" /\ caCert' = made + 1 /\ made' = made + 1
       ELSE step' = "have" /\ caCert' = crtFile.ca /\ UNCHANGED made
    /\ UNCHANGED <<files, caKey, leaves, want, handed, counts>>

LoadCrt ==
    /\ step = "loadCrt"
    /\ IF crtFile.ca = 0
       THEN step' = "raised" /\ UNCHANGED caCert
       ELSE step' = "have" /\ caCert' = crtFile.ca
    /\ UNCHANGED <<files, caKey, made, leaves, want, handed, counts>>

OpenKey  == /\ step = "openKey" /\ step' = "writeKey" /\ keyFile' = Torn
            /\ UNCHANGED <<crtFile, memory, made, leaves, want, handed, counts>>

WriteKey == /\ step = "writeKey" /\ step' = "openCrt" /\ keyFile' = Whole(caKey)
            /\ UNCHANGED <<crtFile, memory, made, leaves, want, handed, counts>>

OpenCrt  == /\ step = "openCrt" /\ step' = "writeCrt" /\ crtFile' = Torn
            /\ UNCHANGED <<keyFile, memory, made, leaves, want, handed, counts>>

\* mutant: only the key is persisted
WriteCrtForgets == /\ step = "writeCrt" /\ step' = "have" /\ crtFile' = Absent
                   /\ UNCHANGED <<keyFile, memory, made, leaves, want, handed, counts>>

WriteCrt == /\ step = "writeCrt" /\ step' = "have" /\ crtFile' = Whole(caCert)
            /\ UNCHANGED <<keyFile, memory, made, leaves, want, handed, counts>>

\* mutant: the leaf of an earlier process is taken from the disk
HaveReuses ==
    /\ step = "have"
    /\ handed' = IF want = Pem THEN handed \cup {caCert} ELSE handed
    /\ IF want = Pem \/ want \in cache \/ leaf[want].crt # 0
       THEN step' = "returned" /\ cache' = cache \cup ({want} \cap Host)
       ELSE step' = "mintKey" /\ UNCHANGED cache
    /\ UNCHANGED <<files, memory, made, leaf, minted, want, counts>>

\* ca_cert_pem (and ca_spki_b64) return; leaf_for looks into its cache
Have ==
    /\ step = "have"
    /\ handed' = IF want = Pem THEN handed \cup {caCert} ELSE handed
    /\ step' = IF want = Pem \/ want \in cache THEN "returned" ELSE "mintKey"
    /\ UNCHANGED <<files, memory, made, leaves, want, counts>>

\* x509 takes no such common name or DNS name, and open no such path: whatever it
\* is that raises, nothing has been written
MintRefused ==
    /\ step = "mintKey" /\ want \in Unmintable
    /\ step' = "raised"
    /\ UNCHANGED <<files, memory, made, leaves, want, handed, counts>>

\* _mint_leaf writes h.key and then h.crt; a leaf that is torn is not cached
MintKey ==
    /\ step = "mintKey" /\ want \notin Unmintable /\ step' = "mintCrt"
    /\ minted' = minted + 1
    /\ leaf' = [leaf EXCEPT ![want].key = minted + 1]
    /\ UNCHANGED <<files, memory, made, cache, want, handed, counts>>

MintCrt ==
    /\ step = "mintCrt" /\ step' = "returned"
    /\ leaf' = [leaf EXCEPT ![want].crt = minted, ![want].ca = caKey]
    /\ cache' = cache \cup {want}
    /\ UNCHANGED <<files, memory, made, minted, want, handed, counts>>

\* open or write raises; the globals keep what they were set to
WriteFails ==
    /\ step \in {"openKey", "writeKey", "openCrt", "writeCrt", "mintKey", "mintCrt"}
    /\ failedWrites < MaxFailedWrites
    /\ failedWrites' = failedWrites + 1
    /\ step' = "raised"
    /\ UNCHANGED <<files, memory, made, leaves, want, handed, tornCrt, crashes>>

\* the end of the with block, by return or by an exception
Release ==
    /\ step \in {"returned", "raised"} /\ step' = "free"
    /\ UNCHANGED <<files, memory, made, leaves, want, handed, counts>>

\* the process ends, and the files stay as they are
MitmCrash ==
    /\ crashes < MaxCrashes
    /\ crashes' = crashes + 1
    /\ tornCrt' = (tornCrt \/ step = "writeCrt")
    /\ caKey' = 0 /\ caCert' = 0 /\ cache' = {}
    /\ step' = "free"
    /\ UNCHANGED <<files, made, leaf, minted, want, handed, failedWrites>>

CaStep == \/ Look \/ LoadKey \/ LoadCrt \/ OpenKey \/ WriteKey \/ OpenCrt \/ WriteCrt
          \/ Have \/ MintRefused \/ MintKey \/ MintCrt \/ WriteFails

MitmNext == (\E what \in Host \cup {Pem} : Acquire(what)) \/ CaStep \/ Release \/ MitmCrash
MitmSpec == MitmInit /\ [][MitmNext]_mitmVars

-----------------------------------------------------------------------------
\* The key that signs is the key of the certificate that is served, whatever
\* mixture of old and new files crashes and failed writes have left behind.
PairMatches == caCert # 0 => caKey = caCert

\* A client that was once given the CA to trust can trust whatever the proxy
\* serves from then on, across restarts and crashes at any moment, unless a
\* write failed (mitm.py: "on first run (persisted to ...)"; the browser
\* container fetches it once, at boot).
TrustLasts ==
    failedWrites = 0 => \A ca \in handed : /\ caCert \in {0, ca}
                                           /\ \A other \in handed : other = ca

\* What server_ssl_context loads after the lock is released belongs together:
\* a cached leaf's files are of one mint, signed by the CA that is served.
LeafMatches == \A h \in cache : /\ leaf[h].key = leaf[h].crt /\ leaf[h].key # 0
                                /\ leaf[h].ca = caCert

\* A caller is refused for one of two reasons only.  Either the process ended, or
\* a write failed, while the files were being written - and of the ends, only one
\* in the middle of the CA's certificate, since a certificate that is missing makes
\* a new CA.  Or no leaf can be minted for its host, and then the CA is in memory.
RefusedOnlyWhenTorn ==
    step = "raised" => \/ tornCrt \/ failedWrites > 0
                       \/ want \in Unmintable /\ caCert # 0

\* What makes these inductive.  The certificate's file follows the key's and is
\* of the same CA; a CA is loaded or made only when there is none in memory; and
\* while no write has failed, what is in memory is on the disk, and what a
\* client was given is.
Creating == step \in {"openKey", "writeKey", "openCrt", "writeCrt"}
FilesMatch ==
    /\ ~crtFile.there => crtFile.ca = 0
    /\ crtFile.there => keyFile.there /\ keyFile.ca # 0 /\ crtFile.ca \in {0, keyFile.ca}
    /\ crtFile = Torn => tornCrt \/ failedWrites > 0 \/ step = "writeCrt"
StepsAgree ==
    /\ step \in {"look", "loadKey", "loadCrt"} => caCert = 0
    /\ step \in {"loadKey", "loadCrt"} => crtFile.there
    /\ step = "loadCrt" => caKey = keyFile.ca
    /\ Creating \/ step \in {"have", "mintKey", "mintCrt"} => caCert # 0
    /\ step \in {"openKey", "writeKey", "openCrt"} => ~crtFile.there
    /\ step \in {"openCrt", "writeCrt"} => keyFile = Whole(caKey)
    /\ step = "writeCrt" => crtFile = Torn
    /\ step \in {"mintKey", "mintCrt"} => want \in Host \ cache
    /\ step = "mintCrt" => leaf[want].key = minted /\ minted # 0
PersistedUnlessFailed ==
    failedWrites = 0 => /\ caCert # 0 /\ ~Creating => crtFile = Whole(caCert)
                        /\ \A ca \in handed : ca # 0 /\ crtFile = Whole(ca)
MitmInv ==
    /\ MitmTypeOK /\ FilesMatch /\ StepsAgree /\ PersistedUnlessFailed
    /\ PairMatches /\ LeafMatches /\ (cache # {} => caCert # 0) /\ RefusedOnlyWhenTorn
=============================================================================
