------------------------- MODULE MCDataStreamWakeup -------------------------
(***************************************************************************)
(* The shortest stream on which a taker can miss the end: one Object, and  *)
(* a FIN.                                                                  *)
(***************************************************************************)
EXTENDS DataStream

OneObject ==
    {[kind |-> "subgroup", header |-> new_with_explicit_id(3, 2, 1, <<0>>, FALSE, FALSE, TRUE),
      items |-> <<Object(3, 2, 5, 0, "Subgroup", <<1>>, 0, <<>>, <<<<7, 7>>>>)>>,
      fetch |-> <<>>, tail |-> "fin", end_of_group |-> FALSE, default_priority |-> <<>>]}
=============================================================================
