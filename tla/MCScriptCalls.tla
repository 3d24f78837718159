--------------------------- MODULE MCScriptCalls ---------------------------
EXTENDS ScriptCalls

CONSTANTS c1, c2, c3, all, p1, p2

\* Two phases; c1 and c2 are of the first.
MCScopesOf == [c \in Calls |-> {s \in Scopes : s = all \/ s = (IF c = c3 THEN p2 ELSE p1)}]
MCLimit == [s \in Scopes |-> IF s = all THEN 3 ELSE 2]
MCWant == [c \in Calls |-> IF c = c2 THEN 1 ELSE 9]
=============================================================================
