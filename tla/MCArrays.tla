------------------------------- MODULE MCArrays -------------------------------
(* Instance of Arrays: one to four dimensions with lower bounds below, at and *)
(* above zero, and with none to two elements each.                            *)
EXTENDS Arrays

Dim(los, ns) == [lo : los, n : ns]

MCShapes ==
    { <<d>> : d \in Dim({-1, 0, 1, 2}, 0..2) }
    \cup { <<d, e>> : d \in Dim({-1, 0, 2}, 0..2), e \in Dim({-1, 0, 3}, {0, 1, 3}) }
    \cup { <<d, e, f>> : d \in Dim({1}, {2}), e \in Dim({0, 2}, {1, 3}),
                         f \in Dim({-1, 1}, {0, 2}) }
    \cup { <<d, e, f, g>> : d \in Dim({1}, {2}), e \in Dim({0}, {2}),
                            f \in Dim({-1}, {2}), g \in Dim({1}, {1, 2}) }

MCLater == { <<[lo |-> 1, n |-> 2]>>, <<[lo |-> 0, n |-> 1], [lo |-> 2, n |-> 3]>> }

=============================================================================
