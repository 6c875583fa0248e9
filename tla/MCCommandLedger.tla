-------------------------- MODULE MCCommandLedger ---------------------------
(* Instances of CommandLedger: one or two commands of the given kinds.        *)
EXTENDS CommandLedger, TLC

CONSTANTS c1, c2, FirstKind, SecondKind

MCKindOf == [c \in Command |-> IF c = c1 THEN FirstKind ELSE SecondKind]
=============================================================================
