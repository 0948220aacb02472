----------------------------- MODULE MCXrInput -----------------------------
(* Small instances of XrInput. *)
EXTENDS XrInput

Hand(a, t, c, s) == [active |-> a, trigger |-> t, click |-> c, stick |-> s]
Released == Hand(TRUE, 0, 0, 0)
Short == Hand(TRUE, 1, 0, 1)
Past == Hand(TRUE, 2, 1, 0)
Down == Hand(TRUE, 3, 1, 1)
Lost == Hand(FALSE, 3, 1, 0)

Pair(left, right) == [h \in Hands |-> IF h = 0 THEN left ELSE right]
MCSamples == {Pair(Released, Released), Pair(Past, Down), Pair(Lost, Down), Pair(Short, Lost)}
MCComponents == {"trigger", "a/click", "thumbstick", "select/click"}
=============================================================================
