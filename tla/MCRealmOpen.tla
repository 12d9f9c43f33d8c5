---------------------------- MODULE MCRealmOpen -----------------------------
(* Two processes on one file, the first with two threads.  A later program adds a *)
(* column and a table and drops a column; a file may be new or of an older one.   *)
EXTENDS RealmOpen

CONSTANTS t1, t2, t3, p1, p2

MCProcessOf == [t \in {t1, t2, t3} |-> IF t = t3 THEN p2 ELSE p1]

File(version, schema) == [version |-> version, schema |-> schema]

x == <<"Group", "title">>
y == <<"Group", "pin">>
z == <<"Tag", "text">>

MCColumn == {x, y, z}
MCFirstFiles == {File(NotVersioned, {}), File(0, {y}), File(1, {x})}
MCOldFile == {File(0, {y})}
MCTargets == {File(1, {x}), File(2, {y, z}), File(2, {x, z})}
MCTwoTargets == {File(1, {x}), File(2, {y, z})}

\* The hypothesis of the theorems about schema versions holds of these programs.
ASSUME MCVersionsShow == VersionsShow
=============================================================================
