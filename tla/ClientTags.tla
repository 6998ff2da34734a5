----------------------------- MODULE ClientTags -----------------------------
(***************************************************************************)
(* How a request is attributed (cmd/proxy/cfip.go, ghranges.go): which     *)
(* address it comes from, believing Cloudflare's header only from a        *)
(* trusted peer, and which GitHub service owns that address.  Two workers  *)
(* refresh the two lists while requests read them.  Addresses have Width   *)
(* bits; a prefix is an address of which only the first bits count.        *)
(***************************************************************************)
EXTENDS Integers, Sequences, FiniteSets, FiniteSetsExt

CONSTANTS
    Width,          \* bits of an address
    CFLists,        \* what Cloudflare may answer: sets of prefixes, or Unavailable
    MetaDocs,       \* what GitHub may answer: [service -> set of CIDRs], or Unavailable
    Services,       \* the configured services, a sequence
    Unavailable,    \* a call that fails or an answer that does not decode
    Bad,            \* a CIDR that does not parse, a header that is no address
    NoSet,          \* no list has ever been loaded
    NoHeader

ASSUME TagsAssumption == Width \in Nat /\ Services \in Seq(STRING)

\* The services are keys of GitHub's document; Lookup's "" is none of them.
ASSUME ServicesAssumption == \A k \in 1..Len(Services) : Services[k] # ""

\* A CIDR that parses has a number of bits that its addresses have.
ASSUME DocsAssumption ==
    \A doc \in MetaDocs \ {Unavailable} : \A s \in DOMAIN doc : \A p \in doc[s] \ {Bad} :
        p.n \in Nat /\ p.bits \in 0..Width

VARIABLES
    cf,         \* the prefixes CFIPManager holds
    gh,         \* ghTagSet: [<<family, bits, network>> -> service], or NoSet
    ghDoc       \* the last document that could be used (to state properties)

tags == <<cf, gh, ghDoc>>

TagsInit == cf = {} /\ gh = NoSet /\ ghDoc = Unavailable

Pow2[k \in 0..Width] == IF k = 0 THEN 1 ELSE 2 * Pow2[k - 1]

Network(p) == p.n \div Pow2[Width - p.bits]
Key(p) == <<p.fam, p.bits, Network(p)>>

-----------------------------------------------------------------------------
(* CFIPManager: an answer without a single prefix is taken like any other. *)
(* The 24 hours between two answers may have passed at any time.           *)

CFRefresh(list) ==
    /\ cf' = IF list = Unavailable THEN cf ELSE list \ {Bad}
    /\ UNCHANGED <<gh, ghDoc>>

\* An IPv4 prefix contains no mapped address and an IPv6 prefix no address of IPv4.  Of the
\* IPv6 prefixes, those of the mapped block ("mapped") and the wider ones contain mapped
\* addresses; "v6" stands for the rest of IPv6, of which only the widest prefix is wider.
Contains(p, ip) ==
    \/ p.fam = ip.fam /\ Network(p) = ip.n \div Pow2[Width - p.bits]
    \/ p.fam = "v6" /\ p.bits = 0 /\ ip.fam = "mapped"
IsTrusted(peer) == peer.fam = "loopback" \/ \E p \in cf : Contains(p, peer)

RealIP(peer, header) ==
    IF header \notin {NoHeader, Bad} /\ IsTrusted(peer) THEN header ELSE peer

-----------------------------------------------------------------------------
(* GHRangeCollector.                                                       *)

\* The prefixes of a document with the position of their service, for the order.
parseGitHubMeta(doc) ==
    UNION {{[p |-> p, s |-> k] : p \in doc[Services[k]] \ {Bad}} : k \in 1..Len(Services)}
Parses(doc) ==
    /\ doc # Unavailable
    /\ \A k \in 1..Len(Services) : Services[k] \in DOMAIN doc
    /\ parseGitHubMeta(doc) # {}

\* Mutant: the first service to list a prefix keeps it.
FirstServiceKeeps(ranges) ==
    [k \in {Key(e.p) : e \in ranges} |->
        Services[Min({e.s : e \in {e \in ranges : Key(e.p) = k}})]]

\* The maps by family, length and masked address: a later service overwrites.
newIPTagSet(ranges) ==
    [k \in {Key(e.p) : e \in ranges} |->
        Services[Max({e.s : e \in {e \in ranges : Key(e.p) = k}})]]

\* No list is not mistaken for a list.
ASSUME NoSetAssumption ==
    \A doc \in MetaDocs : Parses(doc) => newIPTagSet(parseGitHubMeta(doc)) # NoSet

\* Refresh, on the worker's timer: a document that cannot be used changes nothing.
GHRefresh(doc) ==
    /\ IF Parses(doc)
       THEN gh' = newIPTagSet(parseGitHubMeta(doc)) /\ ghDoc' = doc
       ELSE UNCHANGED <<gh, ghDoc>>
    /\ UNCHANGED cf

Unmap(ip) == IF ip.fam = "mapped" THEN [ip EXCEPT !.fam = "v4"] ELSE ip

\* The longest mask first.
Lookup(set, ip) ==
    LET a == Unmap(ip)
        KeyAt(b) == <<a.fam, b, a.n \div Pow2[Width - b]>>
        hits == {b \in 0..Width : KeyAt(b) \in DOMAIN set}
    IN IF hits = {} THEN "" ELSE set[KeyAt(Max(hits))]

TagFor(ip) ==
    CASE gh = NoSet -> "unclassified"
      [] gh # NoSet /\ Lookup(gh, ip) = "" -> "direct"
      [] OTHER -> Lookup(gh, ip)

TagsNext ==
    \/ \E list \in CFLists : CFRefresh(list)
    \/ \E doc \in MetaDocs : GHRefresh(doc)

-----------------------------------------------------------------------------
(* The reference: ranges as intervals of addresses.                        *)

Span(p) == Pow2[Width - p.bits]
Covers(p, ip) ==
    LET a == Unmap(ip)
        lo == p.n - (p.n % Span(p))
    IN p.fam = a.fam /\ lo <= a.n /\ a.n < lo + Span(p)

\* Once a list has been loaded an address is tagged with the service that lists it in the
\* narrowest range, the later service where two list the same one, and "direct" only if
\* nobody lists it: overlapping, unmasked and unparseable entries, mapped addresses and
\* documents that fail, however often the list is refreshed, change nothing about it.
TagMostSpecific(Addresses) ==
    ghDoc # Unavailable =>
        \A ip \in Addresses :
            LET owners == {e \in parseGitHubMeta(ghDoc) : Covers(e.p, ip)}
            IN IF owners = {}
               THEN TagFor(ip) = "direct"
               ELSE \E e \in owners :
                       /\ TagFor(ip) = Services[e.s]
                       /\ \A f \in owners : \/ Span(e.p) < Span(f.p)
                                            \/ Span(e.p) = Span(f.p) /\ e.s >= f.s
=============================================================================
