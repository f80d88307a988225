---------------------------- MODULE MCAddressSpace ----------------------------
(* AddressSpace on three states, one object that is allocated and freed and *)
(* one read-only global.  Addresses and the states other than the initial   *)
(* one are interchangeable.                                                  *)
EXTENDS AddressSpace, TLC

Symmetry == Permutations(Address) \cup Permutations(State \ {InitialState})
=============================================================================
