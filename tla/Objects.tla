-------------------------------- MODULE Objects --------------------------------
(***************************************************************************)
(* Objects of JSON, structs and maps, as functions from the names of their *)
(* members to their values.  Merged and Single are the @@ and :> of TLC,   *)
(* in a form that can be proved about.                                     *)
(***************************************************************************)
EXTENDS Functions

Single(name, value) == [n \in {name} |-> value]

\* f, and g where f is not defined
Merged(f, g) == [x \in DOMAIN f \cup DOMAIN g |-> IF x \in DOMAIN f THEN f[x] ELSE g[x]]
===============================================================================
