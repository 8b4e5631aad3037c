-------------------------- MODULE MCLoginThrottle --------------------------
(***************************************************************************)
(* A small instance of LoginThrottle for TLC: a client outside of the      *)
(* trusted ranges, and a proxy from whose host people sign in, too.        *)
(***************************************************************************)
EXTENDS LoginThrottle

CONSTANTS c, p

\* Nothing, either address, both, an entry that is no address.
McFakeHops == {<<>>, <<c>>, <<p>>, <<c, p>>, <<c, Junk>>}

McChains == {<<p>>, <<p, p>>}
=============================================================================
