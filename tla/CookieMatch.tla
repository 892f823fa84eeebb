----------------------------- MODULE CookieMatch -----------------------------
(***************************************************************************)
(* Which stored cookies GET /cookies-for hands out for a URL when the      *)
(* browser does not answer (cookie_match.py).  A text is a sequence of     *)
(* characters, few of them: a separator and a letter or two are what the   *)
(* tests at a label's or a segment's boundary tell apart.  Case and blanks *)
(* around a domain are left out.                                           *)
(***************************************************************************)
EXTENDS Naturals, SequencesExt

CONSTANTS
    Char,           \* the characters of a text
    Rows,           \* rows of the store: [domain, path, secure]
    Urls            \* what is asked for: [scheme, host, path]

Text == Seq(Char)

ASSUME CharAssumption == {"/", "."} \subseteq Char
ASSUME RowsAssumption == Rows \subseteq [domain: Text, path: Text, secure: BOOLEAN]
ASSUME UrlsAssumption == Urls \subseteq [scheme: STRING, host: Text, path: Text]

VARIABLES row, url
matchVars == <<row, url>>

\* any row of the store and any URL
MatchInit == row \in Rows /\ url \in Urls

-----------------------------------------------------------------------------
Rstrip(host) == SubSeq(host, 1, Max({0} \cup {i \in DOMAIN host : host[i] # "."}))

\* mutant: the dot means subdomains only
DomainMatchesBelow(cookieDomain, host) ==
    /\ cookieDomain # <<>> /\ host # <<>>
    /\ IF Head(cookieDomain) = "." THEN IsSuffix(cookieDomain, host)
                                   ELSE host = cookieDomain

DomainMatches(cookieDomain, host) ==
    /\ cookieDomain # <<>> /\ host # <<>>
    /\ IF Head(cookieDomain) = "."
       THEN host = Tail(cookieDomain) \/ IsSuffix(cookieDomain, host)
       ELSE host = cookieDomain

Defaulted(path) == IF path = <<>> THEN <<"/">> ELSE path
Rooted(path)    == IF Head(path) = "/" THEN path ELSE <<"/">> \o path

\* mutant: a naive startswith
PathMatchesNaively(cookiePath, requestPath) ==
    IsPrefix(Defaulted(cookiePath), Rooted(Defaulted(requestPath)))

PathMatches(cookiePath, requestPath) ==
    LET c == Defaulted(cookiePath)
        r == Rooted(Defaulted(requestPath))
    IN \/ c = r
       \/ IsPrefix(c, r) /\ (Last(c) = "/" \/ r[Len(c) + 1] = "/")

Matches(cookie, u) ==
    /\ u.scheme \in {"http", "https"}
    /\ cookie.secure => u.scheme = "https"
    /\ DomainMatches(cookie.domain, Rstrip(u.host))
    /\ PathMatches(cookie.path, u.path)

-----------------------------------------------------------------------------
(* The reference, in terms of what RFC 6265 compares: the domains a host   *)
(* lies in and the directories a path lies in.                             *)

Domains(host)     == {SubSeq(host, i + 1, Len(host)) : i \in {0} \cup
                                                {j \in DOMAIN host : host[j] = "."}}
Directories(path) == {SubSeq(path, 1, i) : i \in {j \in DOMAIN path : path[j] = "/"}}
Directory(path)   == IF Last(path) = "/" THEN path ELSE Append(path, "/")

InDomain(cookie, u) ==
    LET host == Rstrip(u.host) IN
    /\ host # <<>>
    /\ \/ cookie.domain = host
       \/ cookie.domain # <<>> /\ Head(cookie.domain) = "."
          /\ Tail(cookie.domain) \in Domains(host)

InPath(cookie, u) ==
    LET path == Rooted(Defaulted(u.path)) IN
    Defaulted(cookie.path) = path
        \/ Directory(Defaulted(cookie.path)) \in Directories(path)

\* A cookie leaves the store only for its own domain, its own directory and, if
\* it is secure, over TLS - never for a name or a path that merely begins or
\* ends with the same letters.
NothingForeign ==
    Matches(row, url) => /\ InDomain(row, url) /\ InPath(row, url)
                         /\ url.scheme = "https" \/ (url.scheme = "http" /\ ~row.secure)

\* ... and for every such URL it does, in both spellings of a domain, at the
\* domain itself as below it, and at the directory itself as below it.
NothingWithheld ==
    /\ InDomain(row, url) /\ InPath(row, url)
    /\ url.scheme = "https" \/ (url.scheme = "http" /\ ~row.secure)
    => Matches(row, url)
=============================================================================
