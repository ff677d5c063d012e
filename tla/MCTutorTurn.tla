------------------------------ MODULE MCTutorTurn ------------------------------
EXTENDS TutorTurn, TLC

\* what one model answer may ask for
AllPlans  == {<<>>, <<"retrieve">>, <<"ask", "garbled">>, <<"ask", "patch">>,
              <<"patch", "patch", "retrieve">>}
FewPlans  == {<<>>, <<"patch">>, <<"retrieve">>, <<"ask">>}

Interchangeable == Permutations(Turns)
=============================================================================
