----------------------------- MODULE MCFrontier ----------------------------
(***************************************************************************)
(* A corridor. An image sees a rectangle and at most one obstacle in it.   *)
(***************************************************************************)
EXTENDS FrontierProperties

CONSTANT Sight         \* the numbers of cells an image may show

Rectangles == {R \in {BoxOf({a, b}) : a, b \in Cell} : Cardinality(R) \in Sight}
CorridorScans ==
  UNION {{[sensor |-> CHOOSE c \in R : TRUE, hits |-> H, misses |-> R \ H] :
            H \in {{}} \cup {{c} : c \in R}} : R \in Rectangles}
StuckCell == {{<<3, 1>>}}
=============================================================================
