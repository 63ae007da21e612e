---------------------------- MODULE AccessControl ----------------------------
(***************************************************************************)
(* Who may pass: the IP filter (ip_filter.go), built from two lists the    *)
(* way newIPFilter builds it, and the basic authentication of the upload   *)
(* routes (auth.go), as decisions over a configuration.                    *)
(*                                                                         *)
(* Abstractions: an entry of a list is the set of addresses it covers; one *)
(* that covers a single address goes to the ips map, a larger one is a     *)
(* subnet, whatever its spelling (two spellings of a subnet are two        *)
(* entries of the code, of which an allowed one wins).  Credentials are    *)
(* "none", "good" or "bad"; hashing is left out.                           *)
(***************************************************************************)
EXTENDS FiniteSets, SequencesExt

CONSTANTS
    Addresses,   \* what net.ParseIP accepts
    NoFilter     \* the options of a filter that is not configured, and the filter

\* IPFilterOptions: lists of entries and the default.
Options == [allowed : Seq(SUBSET Addresses), blocked : Seq(SUBSET Addresses),
            blockByDefault : BOOLEAN]

\* ipFilter: the map of single addresses and the list of subnets.
Filters == [ips : SUBSET [ip : SUBSET Addresses, allowed : BOOLEAN],
            subnets : Seq([net : SUBSET Addresses, allowed : BOOLEAN]),
            defaultAllowed : BOOLEAN]

ASSUME AccessAddresses == IsFiniteSet(Addresses)
ASSUME AccessNoFilter == NoFilter \notin Filters

EmptyFilter(options) ==
    [ips |-> {}, subnets |-> <<>>, defaultAllowed |-> ~options.blockByDefault]

\* ToggleIP: the last word on an address or on an equal subnet wins.
Toggle(filter, entry, allowed) ==
    LET known == {i \in DOMAIN filter.subnets : filter.subnets[i].net = entry} IN
    IF Cardinality(entry) = 1
    THEN [filter EXCEPT !.ips = {p \in @ : p.ip # entry} \cup {[ip |-> entry, allowed |-> allowed]}]
    ELSE IF known # {}
    THEN [filter EXCEPT !.subnets = [i \in DOMAIN @ |->
             IF i \in known THEN [net |-> entry, allowed |-> allowed] ELSE @[i]]]
    ELSE [filter EXCEPT !.subnets = Append(@, [net |-> entry, allowed |-> allowed])]

\* AllowIP or BlockIP for each entry of a list.
ToggleAll(filter, entries, allowed) ==
    FoldLeft(LAMBDA f, e : Toggle(f, e, allowed), filter, entries)

\* newIPFilter: what is blocked first, what is allowed after.  Mutant: the
\* other way round.
NewFilterAllowedFirst(options) ==
    ToggleAll(ToggleAll(EmptyFilter(options), options.allowed, TRUE), options.blocked, FALSE)
NewFilter(options) ==
    ToggleAll(ToggleAll(EmptyFilter(options), options.blocked, FALSE), options.allowed, TRUE)

\* ipFilter.NetAllowed: what does not parse is refused, an entry for the very
\* address decides, then any allowed subnet, then any blocked one.
NetAllowed(filter, ip) ==
    LET single == {p \in filter.ips : ip \in p.ip}
        nets == {s \in ToSet(filter.subnets) : ip \in s.net}
    IN
    /\ ip \in Addresses
    /\ IF single # {} THEN \A p \in single : p.allowed
       ELSE IF nets # {} THEN \E s \in nets : s.allowed
       ELSE filter.defaultAllowed

\* WrapIPFilter, unless no filter is configured.
BuildFilter(options) == IF options = NoFilter THEN NoFilter ELSE NewFilter(options)
PassesFilter(filter, ip) == filter # NoFilter => NetAllowed(filter, ip)

\* basicAuthHandler, with the htpasswd file and the authentication filter
\* loaded: an address of that filter needs no credentials.
Authorized(auth, authFilter, ip, credentials) ==
    auth # "open" /\ credentials # "good" =>
        authFilter # NoFilter /\ NetAllowed(NewFilter(authFilter), ip)

\* What the two lists mean, whatever the order of their entries: the entry for
\* the very address first, an allowed one before a blocked one; then subnets, in
\* the same order.  A blocked address of an allowed subnet is blocked, although
\* ip_filter.go:23 says that allowed takes precedence over blocked.
Meant(options, ip) ==
    LET allowed == ToSet(options.allowed) blocked == ToSet(options.blocked) IN
    /\ ip \in Addresses
    /\ \/ {ip} \in allowed
       \/ {ip} \notin blocked /\ \E net \in allowed : ip \in net
       \/ ~options.blockByDefault /\ \A net \in blocked : ip \notin net
===============================================================================
