------------------------------- MODULE MCProxy -------------------------------
(* A small instance of Proxy with addresses of two bits: a request that    *)
(* Cloudflare forwards and the cache may serve.                            *)
EXTENDS Proxy

CONSTANTS r1

Addr(fam, n) == [fam |-> fam, n |-> n]
CIDR(fam, n, bits) == [fam |-> fam, n |-> n, bits |-> bits]

MCPeer == [r \in Requests |-> Addr("v4", 3)]
MCHeader == [r \in Requests |-> Addr("mapped", 0)]
MCCFLists == {Unavailable, {}, {CIDR("v4", 2, 1), Bad}}
MCServices == <<"github_actions", "github_web">>
Nested == [s \in {"github_actions", "github_web", "github_pages"} |->
             IF s = "github_actions" THEN {CIDR("v4", 0, 1), CIDR("v6", 0, 0), Bad}
                                     ELSE {CIDR("v4", 1, 1), CIDR("v4", 1, 2)}]
OnlyPages == [s \in {"github_pages"} |-> {CIDR("v4", 0, 0)}]
Unusable == [s \in {"github_actions", "github_web"} |-> {Bad}]
MCMetaDocs == {Unavailable, OnlyPages, Unusable, Nested}
MCAddresses == {Addr(f, n) : f \in {"v4", "mapped", "v6"}, n \in 0..3}

Old(d, tag, status) == [of |-> "history", day |-> d, tag |-> tag, status |-> status, err |-> "nil"]
MCHistory == {Old(0, "direct", 200), Old(1, "github_actions", 200), Old(2, "unclassified", 404)}
=============================================================================
