--------------------------- MODULE MCDocSummary ---------------------------
(* Model values for checking DocSummary: two documents of one user, who has *)
(* two phones, one of them reported twice, and two overlapping polls.       *)
EXTENDS DocSummary

CONSTANTS x, y, a, b, c1, c2, c3, p1, p2

MCDocs == {x, y}
MCPhones == {a, b}
MCPhonesOf == [d \in MCDocs |-> IF d = x THEN <<a>> ELSE <<a, b>>]
MCCalls == {c1, c2, c3}
MCDocOf == [c \in MCCalls |-> IF c = c3 THEN y ELSE x]
MCPolls == {p1, p2}
=============================================================================
