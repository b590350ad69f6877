------------------------------ MODULE Selection ------------------------------
(***************************************************************************)
(* The values g[i] of the numbers i of a set K, in ascending order, as the *)
(* refinement mappings select the scopes and the variables of the flat     *)
(* tables.  It is a recursive function, which the provers unfold.          *)
(***************************************************************************)
EXTENDS Integers, Sequences

\* Selected(g, K)[n]: those up to n.
Selected(g, K) ==
    LET f[n \in Nat] == IF n = 0 THEN <<>>
                        ELSE IF n \in K THEN Append(f[n - 1], g[n])
                        ELSE f[n - 1]
    IN  f
=============================================================================
