------------------------- MODULE MCOtherModules -------------------------
(***************************************************************************)
(* An instance of OtherModules: a page of data, three of heap, a stack;     *)
(* requests for areas in and out of order and for one that is not there.    *)
(***************************************************************************)
EXTENDS OtherModules

MCAreas == <<[start |-> 1, end |-> 2], [start |-> 3, end |-> 6], [start |-> 7, end |-> 8]>>
MCIndices == {<<1, 2>>, <<2, 0>>, <<1, 9>>}
MCPageLists == {<<1>>, <<1, 3>>}
=============================================================================
