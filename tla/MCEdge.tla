------------------------------- MODULE MCEdge -------------------------------
(***************************************************************************)
(* Instances of Edge.  Each configuration turns on some of the components, *)
(* so that they are checked together where they meet and not all at once.  *)
(***************************************************************************)
EXTENDS Edge

CONSTANTS ip1, ip2, ip3

\* An address on both lists, allowed; one blocked inside an allowed subnet,
\* blocked; one of a blocked subnet, blocked.  And a list that allows one address,
\* where the default blocks the others.
Lists == [allowed |-> <<{ip1, ip2}, {ip1}>>, blocked |-> <<{ip1}, {ip2}, {ip2, ip3}>>,
          blockByDefault |-> FALSE]
Private == [allowed |-> <<{ip1}>>, blocked |-> <<>>, blockByDefault |-> TRUE]

\* An open server with a rate limit; a private one with an upload budget; one that
\* scans, for callers that pass both filters.
MCConfigs == {
    [ipFilter |-> NoFilter, auth |-> "open", authFilter |-> NoFilter,
     limits |-> {"requests"}, prescan |-> FALSE, routes |-> {"get"},
     callers |-> Callers, stops |-> 0],
    [ipFilter |-> Private, auth |-> "password", authFilter |-> NoFilter,
     limits |-> {"kilobytes"}, prescan |-> FALSE, routes |-> {"put"},
     callers |-> {ip1}, stops |-> 0],
    [ipFilter |-> Lists, auth |-> "htpasswd", authFilter |-> Private,
     limits |-> {}, prescan |-> TRUE, routes |-> {"put", "putFixed", "scan", "open"},
     callers |-> Callers, stops |-> 1]}

MCBurst == [k \in Kinds |-> 2]
===============================================================================
