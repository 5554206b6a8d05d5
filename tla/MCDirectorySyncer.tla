-------------------------- MODULE MCDirectorySyncer --------------------------
EXTENDS DirectorySyncer

MCParent == [p \in Paths |-> IF p = "docs" THEN "." ELSE "docs"]
\* docs is a directory that loses a file, and then a file itself.
MCSource == [p \in Paths |-> [v \in Versions |->
                IF p # "docs" \/ v = "v3" THEN {p}
                ELSE IF v = "v1" THEN {"docs/x", "docs/y"} ELSE {"docs/x"}]]
=============================================================================
