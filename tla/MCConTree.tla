------------------------------ MODULE MCConTree ------------------------------
(* A small instance of ConTree: the types and names that the walks look for, *)
(* with the path to the scratchpad and the area of a dock client.            *)
EXTENDS ConTree

MCKinds == {<<"con", "plain">>, <<"con", "__i3">>, <<"con", "content">>,
            <<"workspace", "plain">>, <<"workspace", "__i3_scratch">>,
            <<"dockarea", "plain">>}
=============================================================================
