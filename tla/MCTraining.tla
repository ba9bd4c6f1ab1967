---------------------------- MODULE MCTraining ----------------------------
(* Instances of Training: a question of each type, and answers that are right and that *)
(* are only nearly so.                                                                 *)
EXTENDS Training, TLC

CONSTANTS e1, m1, o1, o2, w1, w2

Symmetry == Permutations(Workers)

MCQuestionType == <<"SINGLE_CHOICE", "MULTIPLE_CHOICE">>
MCIsCorrect == <<{o1}, {o1, o2}>>

Chosen(picked) == <<[array |-> FALSE, picked |-> {o1}], [array |-> TRUE, picked |-> picked]>>
MCSheets == {Chosen({o1}), Chosen({o1, o2})}
=============================================================================
