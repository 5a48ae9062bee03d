------------------------ MODULE MCResultPersistence ------------------------
(* ResultPersistence for TLC: two coordinators of one parallel run, and a  *)
(* serial one, whose results are its own.                                  *)
EXTENDS ResultPersistence, TLC

CONSTANTS p1, p2, s1

MCCoordinators == {p1, p2, s1}
MCSerial == {s1}
MCRunOf(c) == IF c \in MCSerial THEN "serial" ELSE "parallel"
=============================================================================
