--------------------------- MODULE MCSessionConfig ---------------------------
(* Child SAs that differ from a good one in every respect, and the elements that *)
(* the parser tells apart.                                                       *)
EXTENDS SessionConfig

Good4 == [index |-> 0, installed |-> TRUE, natt |-> TRUE, locals |-> <<"a4">>,
          remotes |-> <<"net4">>]
Good6 == [index |-> 1, installed |-> TRUE, natt |-> TRUE, locals |-> <<"a6">>,
          remotes |-> <<"net6">>]

MCChildren ==
    {Good4, Good6,
     [Good4 EXCEPT !.installed = FALSE],
     [Good4 EXCEPT !.natt = FALSE],
     [Good4 EXCEPT !.locals = <<"a6">>],
     [Good4 EXCEPT !.locals = <<"a4", "b4">>],
     [Good4 EXCEPT !.remotes = <<>>],
     [Good4 EXCEPT !.remotes = <<"net4", "default4", "net4">>],
     [Good4 EXCEPT !.remotes = <<"net4", "other4", "default4">>],
     [Good4 EXCEPT !.remotes = <<"other4", "gateway4">>],
     [Good4 EXCEPT !.remotes = <<"loopback4", "net4">>],
     [Good4 EXCEPT !.remotes = <<"net6">>],
     [Good6 EXCEPT !.installed = FALSE],
     [Good6 EXCEPT !.remotes = <<"malformed">>],
     [Good6 EXCEPT !.remotes = <<"default6", "net6">>]}

MCContainers == {FamilyElement(4), FamilyElement(6), Split(TRUE), Split(FALSE), OtherElement}

MCLeaves ==
    {RouteElement(4, "net"), RouteElement(4, "invalid"), RouteElement(6, "net"),
     RouteElement(6, "unparsable"), AddressElement(4), AddressElement(6)}
=============================================================================
