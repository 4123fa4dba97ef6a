---------------------------- MODULE MCMembership ----------------------------
\* Two or three processes, one of them the bootstrap node.
EXTENDS MembershipClaims, TLC

CONSTANTS p1, p2, p3

\* As in the README: the ports of 8080 .. and of 7000 .. go together.
PatternHttp == [p \in Procs |-> [q \in Procs |-> q]]

\* The port of p3 is not a number, and where p3 looks for p1 it finds p2.
MixedHttp ==
  [p \in Procs |-> [q \in Procs |->
     IF q = p3 THEN NotAPort ELSE IF p = p3 /\ q = p1 THEN p2 ELSE q]]
=============================================================================
