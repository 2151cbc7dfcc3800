--------------------------- MODULE MCStoreMigrations ---------------------------
(* Three processes opening one store, two kills. *)
EXTENDS StoreMigrations, TLC

CONSTANTS p1, p2, p3

MCProcess == {p1, p2, p3}
================================================================================
