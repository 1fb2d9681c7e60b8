-------------------------- MODULE MCOperatorLoop --------------------------
(* OperatorLoop with the scripts of the runs in MCOperatorLoop*.cfg. *)
EXTENDS OperatorLoop
Chained == <<"open", "fixed", "approval", "ruling", "open">>
Beaten == <<"open", "approval", "fixed", "ruling", "fixed", "open">>
Amended == <<"open", "approval", "repair", "approval", "open", "open">>
Short == <<"open", "approval", "fixed", "open">>
MCScenarios == {<<Chained, 3>>, <<Beaten, 0>>, <<Amended, 0>>}
MCBeatScenarios == {<<Short, 0>>}
=============================================================================
