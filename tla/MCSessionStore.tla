---------------------------- MODULE MCSessionStore ----------------------------
(* SessionStore for TLC: two keys with a file each.                        *)
EXTENDS SessionStore

CONSTANTS k1, k2, f1, f2
OwnFiles == [k \in Keys |-> IF k = k1 THEN f1 ELSE f2]
===============================================================================
