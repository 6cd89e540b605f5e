----------------------------- MODULE MCReactor -----------------------------
(* Instances of Reactor for TLC. *)
EXTENDS Reactor, TLC

CONSTANTS c1, c2, f1, f2

Symmetry == Permutations({c1, c2})

Setup(ssl, fds, maxIn) == [ssl |-> ssl, fds |-> fds, maxIn |-> maxIn]
\* Two connections at once; two with TLS, one after the other.
PlainAndTls == {Setup(FALSE, {f1, f2}, 1), Setup(TRUE, {f1}, 3)}
\* Two connections on one descriptor, one after the other.
InTurn == {Setup(FALSE, {f1}, 2), Setup(TRUE, {f1}, 2)}
PlainOnce == {Setup(FALSE, {f1}, 1)}
=============================================================================
