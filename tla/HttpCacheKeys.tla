---------------------------- MODULE HttpCacheKeys ----------------------------
(***************************************************************************)
(* HttpCacheKeyStrategy and the part of JobCacheService that calls it:     *)
(* which responses are kept, for how long, and under which key.            *)
(*                                                                         *)
(* A URL is the sequence of its segments, a trailing slash an empty one.   *)
(* The text of a key is a sequence of words and separators; the digest that *)
(* is taken of it is taken to be free of collisions.                       *)
(***************************************************************************)
EXTENDS HttpEndpoints, SequencesExt, Naturals

CONSTANTS
    Lower,      \* capitalised segment |-> its lower case
    Spelled,    \* word that contains separators |-> the words and separators it is made of
    Names       \* the names of parameters, in the order of sort()

toLowerCase(url) ==
    [i \in DOMAIN url |-> IF url[i] \in DOMAIN Lower THEN Lower[url[i]] ELSE url[i]]

StartsWith(word, prefix) ==
    Len(prefix) <= Len(word) /\ SubSeq(word, 1, Len(prefix)) = prefix

(* url.startsWith(pattern), of segments: the last one may be a part of one. *)
UrlStartsWith(url, pattern) ==
    /\ Len(pattern) <= Len(url)
    /\ \A i \in DOMAIN pattern :
          IF i < Len(pattern) THEN url[i] = pattern[i] ELSE StartsWith(url[i], pattern[i])

(* url.includes(pattern), of a pattern that starts with a slash. *)
Includes(url, pattern) ==
    \E i \in DOMAIN url : UrlStartsWith(SubSeq(url, i, Len(url)), pattern)

(* A wrong version of the next: the critical enrollment operations are left out. *)
nonCacheablePatternsMut ==
    {<<"auth", "login">>, <<"auth", "logout">>, <<"auth", "register">>, <<"health">>,
     <<"metrics">>, <<"monitoring">>, <<"queue">>, <<"stats">>, <<"status">>}

nonCacheablePatterns ==
    {<<"atomic-enrollment">>, <<"auth", "login">>, <<"auth", "logout">>,
     <<"auth", "register">>, <<"health">>, <<"metrics">>, <<"monitoring">>,
     <<"queue">>, <<"debug">>, <<"load-test">>, <<"jobs", "">>, <<"stream">>,
     <<"sse">>, <<"websocket">>, <<"stats">>, <<"status">>, <<"current">>,
     <<"now">>, <<"timestamp">>}

isCacheable(method, url) ==
    /\ method = "GET"
    /\ ~ \E p \in nonCacheablePatterns : Includes(toLowerCase(url), p)

staticPatterns ==
    {<<"courses">>, <<"programs">>, <<"degree-program">>, <<"study-plan">>,
     <<"prerequisite">>, <<"levels">>, <<"classrooms">>, <<"facilities">>}
dynamicPatterns ==
    {<<"enrollment">>, <<"assessments">>, <<"recent">>, <<"activity">>,
     <<"notifications">>}
mediumPatterns ==
    {<<"students">>, <<"teachers">>, <<"grades">>, <<"schedules">>,
     <<"calendar">>, <<"terms">>}

(* Minutes.  The lists are tried in the order static, medium, dynamic. *)
getTtlForEndpoint(url) ==
    LET Hits(patterns) == \E p \in patterns : Includes(toLowerCase(url), p)
    IN  CASE Hits(staticPatterns) -> 15
          [] ~Hits(staticPatterns) /\ ~Hits(mediumPatterns) /\ Hits(dynamicPatterns) -> 1
          [] OTHER -> 5

normalizeUrl(url) ==
    toLowerCase(IF Len(url) > 1 /\ Last(url) = "" THEN Front(url) ELSE url)

(* Of a parameter that is repeated the last value stays. *)
extractQueryParams(query) == [name \in DOMAIN query |-> Last(query[name])]

(* What separates the parts of a key.  Nothing in a part is escaped: a word *)
(* with a separator in it looks like several parts, a simple one does not. *)
Separators == {":", "/", "&", "="}
spell(word) == IF word \in DOMAIN Spelled THEN Spelled[word] ELSE <<word>>
Simple(word) == word \notin Separators \cup DOMAIN Spelled

(* The parts that `piece` makes of the elements of a list, one after another. *)
Joined(piece(_), list) == FlattenSeq([i \in DOMAIN list |-> piece(list[i])])

(* "k=v&k2=v2": the names are sorted; no "&" comes after the last. *)
normalizeQueryParams(params) ==
    LET sorted(name) == IF name \in DOMAIN params THEN <<name>> ELSE << >>
        pair(name) == spell(name) \o <<"=">> \o spell(params[name]) \o <<"&">>
        pairs == Joined(pair, Joined(sorted, Names))
    IN  IF pairs = << >> THEN << >> ELSE Front(pairs)

(* A wrong version of the next: the key does not tell users apart. *)
generateHttpRequestKeyMut(method, url, params, user) ==
    LET segment(word) == <<"/">> \o spell(word)
    IN  <<method, ":">> \o Joined(segment, normalizeUrl(url))
        \o <<":">> \o normalizeQueryParams(params)

(* "METHOD:url:params", and ":user:id" for a request that names its user.   *)
generateHttpRequestKey(method, url, params, user) ==
    LET segment(word) == <<"/">> \o spell(word)
    IN  <<method, ":">> \o Joined(segment, normalizeUrl(url))
        \o <<":">> \o normalizeQueryParams(params)
        \o (IF user = None THEN << >> ELSE <<":", "user", ":">> \o spell(user))

buildCacheKey(job) ==
    generateHttpRequestKey(job.method, job.url, extractQueryParams(job.query), job.user)
=============================================================================
