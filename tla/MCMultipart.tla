----------------------------- MODULE MCMultipart -----------------------------
(* Instances of Multipart for TLC. *)
EXTENDS Multipart

ThreadSymmetry == Permutations(Threads)

\* Contents are their own lengths: 2 is longer than 1.
DataSize == [d \in Data |-> d]

\* One part; or two, sent in either order.
OnePart == {<<[n |-> 1, d |-> d]>> : d \in Data}
TwoParts == {<<[n |-> 1, d |-> d], [n |-> 2, d |-> e]>> : d, e \in Data}
            \cup {<<[n |-> 2, d |-> d], [n |-> 1, d |-> e]>> : d, e \in Data}
=============================================================================
