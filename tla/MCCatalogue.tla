----------------------------- MODULE MCCatalogue -----------------------------
\* Instance for TLC: two photos shown with a product, one of them with another product too.
EXTENDS Catalogue, TLC

CONSTANTS p1, p2, f1, f2, f3, m1, m2, m3, m4

TypeOfFile == f1 :> "photo" @@ f2 :> "photo" @@ f3 :> "video"
Row(f, p, fav) == [file |-> f, product |-> p, fav |-> fav]
ShownMedia ==
  m1 :> Row(f1, p1, TRUE) @@ m2 :> Row(f2, p1, FALSE) @@ m3 :> Row(f1, p2, TRUE) @@ m4 :> Unborn
RequestSymmetry == Permutations(Request)
==============================================================================
