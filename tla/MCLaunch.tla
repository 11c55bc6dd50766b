------------------------------ MODULE MCLaunch ------------------------------
EXTENDS Launch, SequencesExt

\* Three versions whose order as texts is not their order as versions.
MCVersion == {"2.1.9", "2.1.10", "2.1.11"}
MCPath == MCVersion \cup {"shim", "wrapper", "meter", "claude-real", "claude-recovered"}

MCLinks == [p \in MCPath |-> IF p = "shim" THEN "wrapper" ELSE p]
MCMovable == {"shim"}

MCVersionsOf == [p \in MCPath |-> IF p \in MCVersion THEN "versions" ELSE "none"]

InText == <<"2.1.10", "2.1.11", "2.1.9", "claude-real", "claude-recovered", "meter", "shim", "wrapper">>
InVersions == <<"2.1.9", "2.1.10", "2.1.11", "claude-real", "claude-recovered", "meter", "shim", "wrapper">>
RankIn(s) == [p \in ToSet(s) |-> CHOOSE i \in DOMAIN s : s[i] = p]
MCTextRank == RankIn(InText)
MCVersionRank == RankIn(InVersions)
MCParts ==
  [p \in ToSet(InText) |->
     IF p = "2.1.9" THEN <<2, 1, 9>> ELSE IF p = "2.1.10" THEN <<2, 1, 10>>
     ELSE IF p = "2.1.11" THEN <<2, 1, 11>> ELSE <<>>]

\* In the first configuration the binary is the shim.
MCClaudeBinary == [launcher |-> "shim", mine |-> "2.1.9"]

MCText == MCPath \cup Option \cup {"", "-", "prompt", "mine", "none", "launcher"}
MCUserArgs ==
  {<<>>, <<Word("prompt")>>, <<Flag("config"), Word("mine")>>, <<Flag("--"), Flag("fallback-bin"), Word("shim")>>}
\* Direct calls, one of them without the value of its last option.
Equals(o, t) == [opt |-> o, text |-> "-" , value |-> t]
MCDirectStarts ==
  {<< <<Equals("config=", "launcher")>>, <<Word("prompt")>> >>,
   << <<Flag("config"), Word("none"), Equals("fallback-bin=", "shim"), Flag("--")>>, <<Flag("config")>> >>,
   << <<Equals("config=", "mine"), Equals("fallback-bin=", "2.1.10")>>, <<Flag("config")>> >>}
=============================================================================
