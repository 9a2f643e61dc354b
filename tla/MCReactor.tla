------------------------------ MODULE MCReactor ------------------------------
(* Reactor on small instances. *)
EXTENDS Reactor, TLC

CONSTANTS t1, t2, t3, s1, s2, c1, c2

\* Two streams of one context.
OneContext == [s \in {s1, s2} |-> c1]
\* Two streams of two contexts: one may die while the other goes on.
TwoContexts == s1 :> c1 @@ s2 :> c2

TwoStreams == t1 :> s1 @@ t2 :> s2
SharedStream == t1 :> s1 @@ t2 :> s1 @@ t3 :> s2
=============================================================================
