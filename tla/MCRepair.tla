------------------------------ MODULE MCRepair ------------------------------
EXTENDS Repair, TLC

MCElsewhere == {"other", "own"}
MCVersions == <<"2.1.9", "2.1.10">>
Nothing == [p \in Path |-> Absent]

\* Claude's own installer: a link to a version.
Native == ("shim" :> Link("2.1.9") @@ "2.1.9" :> File("claude")) @@ Nothing
\* Claude itself at /usr/local/bin/claude.
Global == ("wrapper" :> File("claude")) @@ Nothing
\* npm with the prefix /usr/local: a link to a file elsewhere.
Npm == ("wrapper" :> Link("other") @@ "other" :> File("claude")) @@ Nothing
\* Claude itself on the PATH, elsewhere.
Plain == ("shim" :> File("claude")) @@ Nothing
\* npm's link there, and another one to a second installation.
Both == ("shim" :> Link("own") @@ "own" :> File("claude")) @@ Npm

MCWorld == {Native, Global, Plain, Both}
MCNpm == {Npm}
=============================================================================
