------------------------------ MODULE MCDoors ------------------------------
(***************************************************************************)
(* Small instances of Doors: two projects, the name of one the beginning   *)
(* of the other's, and a factory shelf.                                    *)
(***************************************************************************)
EXTENDS Doors

MCProjects == {"shop", "shop_api", "guardkit"}
MCExtends == {<<p, p>> : p \in MCProjects} \cup {<<"shop", "shop_api">>}

Door(port, projects) == [port |-> port, projects |-> projects]
Set(doors, single) == [doors |-> doors, single |-> single]

\* Neither setting, the single door, two doors; and what must be refused: both
\* settings, a project on two doors, twice on one, a shelf, an empty list, an empty
\* name, a port used twice, the main server's port, no port at all.
MCSettings ==
  {Set(<<>>, None), Set(<<>>, 2),
   Set(<<Door(2, <<"shop">>), Door(3, <<"shop_api">>)>>, None),
   Set(<<Door(2, <<"shop">>)>>, 2),
   Set(<<Door(2, <<"shop">>), Door(3, <<"shop_api", "shop">>)>>, None),
   Set(<<Door(2, <<"shop", "shop">>)>>, None),
   Set(<<Door(2, <<"guardkit">>)>>, None), Set(<<Door(2, <<>>)>>, None),
   Set(<<Door(2, <<"shop", "">>)>>, None),
   Set(<<Door(2, <<"shop">>), Door(2, <<"shop_api">>)>>, None),
   Set(<<Door(1, <<"shop">>)>>, None), Set(<<Door(0, <<"shop">>)>>, None)}

\* Every valid request, one with invalid arguments and a superseding write.
MCRequests ==
  {[op |-> op, on |-> p, ok |-> TRUE, sup |-> FALSE] :
     op \in Tools \ {"list"}, p \in MCProjects}
  \cup {[op |-> "list", on |-> "shop", ok |-> TRUE, sup |-> FALSE],
        [op |-> "write", on |-> "shop", ok |-> TRUE, sup |-> TRUE],
        [op |-> "write", on |-> "shop", ok |-> FALSE, sup |-> FALSE],
        [op |-> "search", on |-> "shop", ok |-> FALSE, sup |-> FALSE]}
=============================================================================
