------------------------------ MODULE MCEgress ------------------------------
(* Egress on small instances. *)
EXTENDS Egress, TLC

CONSTANTS k1, k2

TwoConns == {k1, k2}

\* the name, a subdomain of it, and a name that only begins like it
SomeAllowed == {<<"pypi", "org">>}
SomeHosts == {<<"pypi", "org">>, <<"files", "pypi", "org">>, <<"pypi", "org", "net">>}
TwoHosts == {<<"files", "pypi", "org">>, <<"other", "org">>}

Symmetry == Permutations(Conns)
=============================================================================
