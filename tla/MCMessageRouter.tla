-------------------------- MODULE MCMessageRouter --------------------------
(***************************************************************************)
(* A small instance of MessageRouter: a message without a subtype, a       *)
(* filter list that does not match it (a filter without a subtype is not a *)
(* wildcard) and one that matches it through both of its entries.          *)
(***************************************************************************)
EXTENDS MessageRouter

Entry(t, s, mask) == [type |-> t, subtype |-> s, flagmask |-> mask]

MCMessages == {[type |-> "A", subtype |-> NULL, flags |-> {1}]}

MCFilterLists ==
    {<<Entry("A", "", {})>>,
     <<Entry("A", "*", {1, 2}), Entry("*", "", {})>>}
=============================================================================
