--------------------------------- MODULE Maps ---------------------------------
(***************************************************************************)
(* What a Map, a table or an object with string keys becomes when entries  *)
(* are set; written out, for TLC's :> and @@ cannot be expanded in proofs. *)
(***************************************************************************)

\* f with v at k
Put(f, k, v) == [x \in DOMAIN f \cup {k} |-> IF x = k THEN v ELSE f[x]]

\* f with all entries of g
Overlaid(g, f) == [x \in DOMAIN f \cup DOMAIN g |-> IF x \in DOMAIN g THEN g[x] ELSE f[x]]
===============================================================================
