------------------------------- MODULE Tables -------------------------------
(***************************************************************************)
(* The tables of a backend are functions, told in several definitions that *)
(* are joined with ++.  It is the @@ of the TLC module, defined in TLA+:   *)
(* what is proved about a joined table has to look into it.                *)
(***************************************************************************)

(* Where both tell something, the first one counts. *)
f ++ g == [x \in DOMAIN f \union DOMAIN g |-> IF x \in DOMAIN f THEN f[x] ELSE g[x]]
=============================================================================
