-------------------------- MODULE MCStreamMessages --------------------------
(* Lengths at which the lists end, and around them, and counts at and past *)
(* every limit: 3, 4, 11 and 16 entries, and 8192 detections.              *)
EXTENDS StreamMessages

SmallLengths == {0, 31, 59, 69, 76, 77, 85, 86, 213} \cup 32..44 \cup 60..61
                  \cup {36 + 51 * n + d : n \in {1, 8192, 8193}, d \in {0, 1}}
SmallCounts  == {0, 1, 4, 5, 11, 12, 17, 8192, 8193}
=============================================================================
