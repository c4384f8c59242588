----------------------------- MODULE MCUserLib -----------------------------
(* Three bytes of input; outputs of at most two bytes and one byte; a pool *)
(* of two pages of two bytes.                                              *)
EXTENDS UserLib

MCLimit == [fd \in {1, 2} |-> IF fd = 1 THEN 2 ELSE 1]

=============================================================================
