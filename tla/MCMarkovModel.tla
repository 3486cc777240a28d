--------------------------- MODULE MCMarkovModel ---------------------------
EXTENDS MarkovModel

(* A sentence whose walks come back to where they start, with an empty one *)
(* after it, and a sentence from which a walk returns after a link or two. *)
MCRows == << <<"a", "a", ".", ".">>, <<"a", "b", "a", "b">> >>

(* Two speakers do not affect each other but by what they learn. *)
MCJobsOf == "g1" :> {"generate", "m3", "rebuild"} @@ "g2" :> {"load", "rebuild"}
=============================================================================
