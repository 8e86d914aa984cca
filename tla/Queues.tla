-------------------------------- MODULE Queues --------------------------------
(* What the modules say of the std::deque, std::vector and std::list        *)
(* containers of the code, as sequences.                                   *)
EXTENDS Naturals, Sequences, FiniteSets

Elements(s) == {s[i] : i \in DOMAIN s}
NoDuplicates(s) == \A i, k \in DOMAIN s : s[i] = s[k] => i = k

AllButLast(s) == SubSeq(s, 1, Len(s) - 1)

(* The orders in which the elements of S can be appended to a container.   *)
Orders(S) == {s \in [1..Cardinality(S) -> S] :
                  Elements(s) = S /\ NoDuplicates(s)}
=============================================================================
