------------------------------ MODULE HttpFetch ------------------------------
(***************************************************************************)
(* The download of one source (nethop-subscription's fetch.rs and          *)
(* fetch/ureq_adapter.rs): its URL and then its mirrors are tried in turn, *)
(* each through the local proxy first and directly after that.  An attempt *)
(* resolves, connects, sends the request with the validators of the cache  *)
(* and follows redirects.  The servers change what they serve at any time. *)
(***************************************************************************)
EXTENDS Integers, Sequences, FiniteSets

CONSTANTS
    Urls,           \* every URL a request may reach, numbered
    Mirrored,       \* the URLs of the FetchRequest, in its order
    Served,         \* Served[u]: the bodies u may serve
    Good,           \* the ones CandidateAcceptance accepts
    Tag,            \* Tag[u][b]: the validator u sends with b
    Addresses,      \* addresses a name may resolve to, numbered
    Denied,         \* is_denied_ssrf_address
    MaxAddresses,   \* MAX_RESOLVED_ADDRESSES
    MaxRedirects,   \* FetchPolicy.max_redirects
    HasProxy        \* FetchClient.local_proxy is set

(***************************************************************************)
(* What a fetch relies on: the request names a URL, and a server has       *)
(* another validator for another body.                                     *)
(***************************************************************************)
Validators ==
    /\ Mirrored \in Seq(Urls) /\ Mirrored # <<>>
    /\ 0 \notin Urls
    /\ \A u \in Urls : \A b, c \in Served[u] : Tag[u][b] = Tag[u][c] => b = c

VARIABLES
    served,         \* served[u]: what u serves now
    cache,          \* SourceCache: [body, tag, url]
    at,             \* where the fetch is
    outcome,        \* the last FetchOutcome: [body, url, how] (how: below)
    seen            \* history: seen[u]: what u served during this fetch

fetchVars == <<served, cache, at, outcome, seen>>

NoTag == 0
NoUrl == 0
NoBody == 0
Proxy == 0          \* the proxy's address

Idle == [step |-> "idle"]
NoOutcome == [body |-> NoBody, url |-> NoUrl, how |-> "none"]

\* fetch_endpoint: an agent for one endpoint and one way to reach it
Attempt(k, via) ==
    [step |-> "resolve", k |-> k, via |-> via, url |-> Mirrored[k],
     redirects |-> 0, left |-> {}]

\* FetchClient::fetch: the proxy, if there is one, before the direct way
FirstWay == IF HasProxy THEN "proxy" ELSE "direct"

\* fetch_with_executor: the next endpoint, or none
NextEndpoint(k) ==
    IF k < Len(Mirrored) THEN Attempt(k + 1, FirstWay) ELSE Idle

\* An attempt that ends in any error.
Failed == IF at.via = "proxy" THEN Attempt(at.k, "direct")
          ELSE NextEndpoint(at.k)

Begin ==
    /\ at.step = "idle"
    /\ at' = Attempt(1, FirstWay)
    /\ outcome' = NoOutcome
    /\ seen' = [u \in Urls |-> {served[u]}]
    /\ UNCHANGED <<served, cache>>

-----------------------------------------------------------------------------
(***************************************************************************)
(* SafeDohResolver: the A and the AAAA records, all of them or none.  One  *)
(* address that is denied, or too many, and the attempt is over.           *)
(***************************************************************************)
Resolvable(addresses) ==
    /\ addresses # {}
    /\ Cardinality(addresses) =< MaxAddresses
    /\ addresses \cap Denied = {}

\* resolve_record_type, extend_doh_addresses
Resolve ==
    /\ at.step = "resolve" /\ at.via = "direct"
    /\ \/ \E a, aaaa \in SUBSET Addresses :
             at' = IF Resolvable(a \cup aaaa)
                   THEN [at EXCEPT !.step = "connect", !.left = a \cup aaaa]
                   ELSE Failed
       \/ at' = Failed
    /\ UNCHANGED <<served, cache, outcome, seen>>

\* resolve_addresses: the proxy's own address is allowed, its name unresolved
ResolveProxy ==
    /\ at.step = "resolve" /\ at.via = "proxy"
    /\ at' = [at EXCEPT !.step = "connect", !.left = {Proxy}]
    /\ UNCHANGED <<served, cache, outcome, seen>>

\* SafeTcpConnector::connect: only a refused connection tries the next one
Connect ==
    /\ at.step = "connect"
    /\ LET first == CHOOSE a \in at.left : \A b \in at.left : a =< b
           others == at.left \ {first}
       IN \/ at' = [at EXCEPT !.step = "request", !.left = {}]
          \/ at' = IF others = {} THEN Failed ELSE [at EXCEPT !.left = others]
          \/ at' = Failed
    /\ UNCHANGED <<served, cache, outcome, seen>>

-----------------------------------------------------------------------------
\* conditional_headers_for
\* Mutant: the validators go to whatever endpoint is asked.
MutConditional(url) == cache.tag

Conditional(url) == IF cache.url = url THEN cache.tag ELSE NoTag

\* SourceCache::commit, for a body that came whole
Commit(body, url) == cache' = [body |-> body, tag |-> Tag[url][body], url |-> url]

(***************************************************************************)
(* The inspection takes the outcome, or the next endpoint is asked: a body *)
(* that was refused is not asked for again on another way.  The body came  *)
(* whole, was confirmed by its validator, or is the one of the cache after *)
(* a 304 to a request that asked for none; only the first is committed.    *)
(***************************************************************************)
Inspect(body, how) ==
    IF body \in Good
    THEN /\ outcome' = [body |-> body, url |-> at.url, how |-> how]
         /\ at' = Idle
         /\ IF how = "whole" THEN Commit(body, at.url) ELSE UNCHANGED cache
    ELSE /\ at' = NextEndpoint(at.k)
         /\ UNCHANGED <<outcome, cache>>

\* The server has the validator that the request carried.
Confirmed ==
    /\ Conditional(at.url) # NoTag
    /\ Conditional(at.url) = Tag[at.url][served[at.url]]

\* fetch_with_agent, apply_not_modified: a 304 is taken, whether or not the
\* request was conditional, if the cache has a body.
NotModified ==
    /\ at.step = "request"
    /\ cache.body # NoBody
    /\ Inspect(cache.body, IF Confirmed THEN "confirmed" ELSE "unasked")
    /\ UNCHANGED <<served, seen>>

\* decode_response_body: a body within the limits
Body ==
    /\ at.step = "request"
    /\ Inspect(served[at.url], "whole")
    /\ UNCHANGED <<served, seen>>

\* Mutant: the redirects are not counted.
MutNextRedirect(url) == [at EXCEPT !.step = "resolve", !.url = url]

\* next_redirect
NextRedirect(url) ==
    IF at.redirects >= MaxRedirects THEN Failed
    ELSE [at EXCEPT !.step = "resolve", !.url = url,
                    !.redirects = @ + 1]

\* A redirect; the new URL is resolved, and asked, like the first.
Redirect ==
    /\ at.step = "request"
    /\ \E url \in Urls \ {at.url} : at' = NextRedirect(url)
    /\ UNCHANGED <<served, cache, outcome, seen>>

\* map_ureq_error, HttpStatus, FetchPolicyError, CacheMiss: anything else
Error ==
    /\ at.step = "request"
    /\ at' = Failed
    /\ UNCHANGED <<served, cache, outcome, seen>>

-----------------------------------------------------------------------------
Change ==
    /\ \E u \in Urls : \E b \in Served[u] :
          /\ served' = [served EXCEPT ![u] = b]
          /\ seen' = IF at.step = "idle" THEN seen
                     ELSE [seen EXCEPT ![u] = @ \cup {b}]
    /\ UNCHANGED <<cache, at, outcome>>

\* restore_cache: in a new process the body comes without its validators.
Restore ==
    /\ at.step = "idle"
    /\ cache' = [cache EXCEPT !.tag = NoTag, !.url = NoUrl]
    /\ UNCHANGED <<served, at, outcome, seen>>

Step == \/ Resolve \/ ResolveProxy \/ Connect
        \/ NotModified \/ Body \/ Redirect \/ Error

InitAt(content) ==
    /\ served = content
    /\ cache = [body |-> NoBody, tag |-> NoTag, url |-> NoUrl]
    /\ at = Idle
    /\ outcome = NoOutcome
    /\ seen = [u \in Urls |-> {served[u]}]

Init == \E content \in [Urls -> UNION {Served[u] : u \in Urls}] :
            (\A u \in Urls : content[u] \in Served[u]) /\ InitAt(content)

Next == Begin \/ Step \/ Change \/ Restore

\* ureq's timeouts end every call, so a fetch that has begun goes on.
Fairness == WF_fetchVars(Step)

Spec == Init /\ [][Next]_fetchVars /\ Fairness

-----------------------------------------------------------------------------
(***************************************************************************)
(* What a fetch returns, its URL has served in the time of the fetch: the  *)
(* validators of one URL confirm nothing about another, however mirrors,   *)
(* redirects and earlier fetches follow each other.  The one exception is  *)
(* a server that answers 304 although it was asked for the body: then it   *)
(* is the body of the cache, from whatever URL that came.  Even so the     *)
(* cache keeps the validator of its own body and URL (SourceCache).        *)
(***************************************************************************)
OutcomeWasServed ==
    /\ outcome.how \in {"whole", "confirmed"} => outcome.body \in seen[outcome.url]
    /\ outcome.how = "unasked" => outcome.body = cache.body
    /\ cache.url # NoUrl => cache.tag = Tag[cache.url][cache.body]

(***************************************************************************)
(* A fetch ends, whatever its servers answer: redirects are bounded and    *)
(* every endpoint is tried at most once on each way.                       *)
(***************************************************************************)
FetchEnds == []<>(at.step = "idle")
=============================================================================
