---------------------------- MODULE MCHnswManager ----------------------------
(* Points of the plane no two of which are equally far from a third one,   *)
(* so that every nearest one is unique.                                    *)
EXTENDS HnswManager

Points3 == {<<0, 0>>, <<1, 5>>, <<4, 1>>}
Points4 == {<<0, 0>>, <<1, 5>>, <<4, 1>>, <<9, 3>>}
Points5 == Points4 \cup {<<6, 7>>}

(* A cluster and a point far from it.                                      *)
Outlier == Points5 \cup {<<90, 80>>}
=============================================================================
