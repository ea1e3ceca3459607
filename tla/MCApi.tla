-------------------------------- MODULE MCApi --------------------------------
(* Two requests at once against two namespaces for TLC. *)
EXTENDS Api, TLC

MCStartInput == {[key |-> "k", body |-> "x"], [key |-> "k", body |-> "y"],
                 [key |-> None, body |-> "x"]}

MCClockStep == {-2, 2}

Symmetry == Permutations(Request) \cup Permutations(Namespace)
            \cup Permutations(ApiKey) \cup Permutations(Address)
=============================================================================
