--------------------------- MODULE MCImportGraph ---------------------------
(***************************************************************************)
(* Three files that import one another, the root and a with at most two    *)
(* imports and b with one: chains, diamonds, self-imports, cycles, an      *)
(* alias repeated in a file and an alias two files share.  At most one of  *)
(* the files is not clean.                                                 *)
(***************************************************************************)
EXTENDS ImportGraph

CONSTANTS r, a, b, x, y, z

MCModules == {r, a, b}
MCAliases == {x, y, z}

AtMost(n) == UNION {[1..k -> Import] : k \in 0..n}

(* Aliases are interchangeable, so the root's first import may be called x *)
(* and its second x or y.                                                  *)
RootImports ==
  {s \in AtMost(2) : \A i \in DOMAIN s : s[i].alias \in IF i = 1 THEN {x} ELSE {x, y}}
AImports == AtMost(1) \cup {s \in AtMost(2) : Len(s) = 2 /\ s[1].alias = y}
BImports == {s \in AtMost(1) : \A i \in DOMAIN s : s[i].alias # x}

MCImportBlocks ==
  {[m \in MCModules |-> IF m = r THEN p ELSE IF m = a THEN q ELSE t] :
     p \in RootImports, q \in AImports, t \in BImports}

MCHealths ==
  {[m \in MCModules |-> IF m = bad THEN h ELSE "clean"] : bad \in {a, b}, h \in Health}
    \cup {[m \in MCModules |-> IF m = r THEN "warning" ELSE "clean"]}
=============================================================================
