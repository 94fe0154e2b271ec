-------------------------- MODULE MCLayoutReview --------------------------
(* The review page with one small and one large fixture, two efforts and   *)
(* three datasets.                                                         *)
EXTENDS LayoutReview

ThreeDatasets == 1..3
=============================================================================
