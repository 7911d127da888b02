----------------------------- MODULE MCRawLayer -----------------------------
(* Instances of RawLayer for TLC. *)
EXTENDS RawLayer, TLC

\* A small id, a negative one, one far above, and a row without an id.
CONSTANTS a, b, d, n

MCRows == {a, b, d, n}
MCIdOf == a :> 2 @@ b :> -1 @@ d :> 7 @@ n :> 0
=============================================================================
