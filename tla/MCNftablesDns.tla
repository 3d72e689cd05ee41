---------------------------- MODULE MCNftablesDns ----------------------------
(* Two hosts over tcp, one of them over udp too: each family may be empty,  *)
(* one host may be gone while the other is there.                           *)
EXTENDS NftablesDns

CONSTANTS a, b, x, y, z

TwoHosts == << [host |-> a, ports |-> {443}, protocol |-> "tcp"],
               [host |-> b, ports |-> {443}, protocol |-> "tcp"],
               [host |-> b, ports |-> {53},  protocol |-> "udp"] >>
FewAnswers == [h \in {a, b} |-> IF h = a THEN {{}, {x}} ELSE {{}, {y}, {x, z}}]
=============================================================================
