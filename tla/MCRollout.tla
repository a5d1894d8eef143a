------------------------------ MODULE MCRollout ------------------------------
(* Four legacy records: three whose names make the same slug or the slug    *)
(* another one gets by its suffix, one of which has it already; and one     *)
(* without its version, alone or with one of the others.                    *)
EXTENDS Rollout

CONSTANTS a, b, c, d,   \* legacy records
          q1, q2        \* requests

MCWords == {"Dune", "dune", "2", "Mork"}
MCPunct == "!"
MCLower == [w \in MCWords |-> IF w = "Dune" THEN "dune" ELSE w]

(* "Dune", "dune!", "Dune 2" and "Mork".                                    *)
MCNames == [r \in {a, b, c, d} |-> CASE r = a -> <<"Dune">>
                                        [] r = b -> <<"dune", "!">>
                                        [] r = c -> <<"Dune", "!", "2">>
                                        [] r = d -> <<"Mork">>]

HasDune2 == [r \in {c} |-> <<"dune", "2">>]
Dune     == {<<"dune">>}
Rename   == {<<"dune", "!", "2">>}
Both     == {"create", "patch"}
Patching == {"patch"}
=============================================================================
