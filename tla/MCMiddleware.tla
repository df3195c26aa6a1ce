---------------------------- MODULE MCMiddleware ----------------------------
(***************************************************************************)
(* A small instance of Middleware for TLC.                                 *)
(***************************************************************************)
EXTENDS Middleware, TLC

CONSTANTS c1, c2, a, p, m

Hops(far, near, space) ==
    <<[padded |-> FALSE, address |-> far], [padded |-> space, address |-> near]>>

Bare == [client |-> a, peer |-> Absent, forwarded |-> Absent, real_ip |-> Absent,
         path |-> m, user |-> Absent]

\* Client a from two ports; by way of proxies, with the space after the comma and
\* without; with an empty last hop; and as nobody that can be told.  The header
\* for users repeats the path, to have one bucket the fewer.
Requests ==
    {[Bare EXCEPT !.peer = [ip |-> a, port |-> n], !.user = m] : n \in 1..2}
    \cup {[Bare EXCEPT !.forwarded = Hops(p, a, TRUE)]}
    \cup {[Bare EXCEPT !.forwarded = Hops(p, Blank, FALSE), !.real_ip = a], Bare}

\* A service of each kind, some to fail open.
HttpLayers == {[extractor |-> "ConnectInfo", fail_open |-> TRUE],
               [extractor |-> "Custom", fail_open |-> FALSE]}
GrpcLayers == {[extractor |-> "Ip", fail_open |-> FALSE],
               [extractor |-> "Method", fail_open |-> FALSE],
               [extractor |-> "Metadata", fail_open |-> TRUE]}

ConnectionsAlike == Permutations(Conn)
=============================================================================
