--------------------------- MODULE MCRenderListing ---------------------------
(* Instances of RenderListing for TLC: "-a" and "a" are equal once          *)
(* sanitized, nothing is left of "-".                                       *)
EXTENDS RenderListing

DashedNames == {"-", "-a", "a", "b"}
DashedRank == [n \in DashedNames |->
    CASE n = "-" -> 1 [] n = "-a" -> 2 [] n = "a" -> 3 [] n = "b" -> 4]
DashedSanitized == [n \in DashedNames |->
    CASE n = "-" -> "" [] n \in {"-a", "a"} -> "a" [] n = "b" -> "b"]
=============================================================================
