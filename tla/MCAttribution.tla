---------------------------- MODULE MCAttribution ---------------------------
EXTENDS Attribution

CONSTANTS t1, t2, none

Symmetry == Permutations({t1, t2})

Ssh(a) == [SSH_CONNECTION |-> a, SSH_CLIENT |-> a, MOSH_IP |-> ""]

\* Two devices, one without an owner, and the console.
MCOrigin == {Ssh("a1"), Ssh("a2"), NoEnv}
MCAddr == {"a1", "a2"}
MCParseIP == [a1 |-> "ip1", a2 |-> "ip2"]

\* Two devices that call themselves "laptop".
MCWhois ==
  [ip1 |-> [ComputedName |-> <<"laptop">>, HostName |-> <<"laptop">>],
   ip2 |-> [ComputedName |-> <<" ">>, Name |-> <<"laptop-1", ".", "net", ".">>, HostName |-> <<"laptop">>]]
MCOwner == [ip1 |-> <<"ann", " ", ",", "lee">>, ip2 |-> Unknown]
MCLowerOf == [Laptop |-> "laptop"]
MCMeterKey == {"meter.person", "meter.device", "meter.node_id", "meter.source_ip", "meter.team"}
MCHexOf == [c \in {",", "=", " "} |-> CASE c = "," -> "%2C" [] c = "=" -> "%3D" [] c = " " -> "%20"]

Launcher(devices, token) == [endpoint |-> <<"url", "/">>, token |-> token, local |-> <<"root", " ">>, devices |-> devices]
Server(token) == [token |-> token]
MCDevices == {<<<<"Laptop", ".", "net">>, <<"ann", " ", ",", "lee">>>>}
\* One name in two tailnets: laptop.net is Ann's, laptop.org is Bob's.
MCTwoNets == MCDevices \cup {<<<<"laptop", ".", "org">>, <<"bob">>>>}
\* A token with characters that mean something in headers, and one that is
\* not the same up to them.
MCToken == <<"s", "=", " ", "=", "t">>
MCOtherToken == <<"s", "=", "t">>
\* Good files, none, ambiguous devices, and tokens that the exporter or the
\* collector reads otherwise.
MCSetup ==
  {[launcher |-> Launcher(MCDevices, MCToken), server |-> Server(MCToken)],
   [launcher |-> none, server |-> Server(MCToken)],
   [launcher |-> Launcher(MCTwoNets, MCOtherToken), server |-> Server(MCToken)]}
    \cup {[launcher |-> Launcher(MCDevices, t), server |-> Server(t)] : t \in {<<"t", " ">>, <<"s", ",", "t">>, <<"s", "%20", "t">>}}

\* What the user has set, and what an outer Claude was given.
MCOwnAttributes ==
  {<<>>, <<"team", "=", "x", ",", " ", "meter.person", "=", "bob", ",", "meter.device", "=", "local", ",",
         "meter.team", "=", "y", ",", "meter.team">>}
MCNoAttributes == {<<>>}
MCCollectorURL == <<"url">>

\* What the theorems about Attribution suppose is so here.
ASSUME MCHypotheses == Pointed /\ NamesArePlain /\ ConnectionIsUpdated
=============================================================================
