----------------------------- MODULE MCCardDetail -----------------------------
(* Two acts of the user or of another, from an empty card and two full ones. *)
EXTENDS CardDetail
===============================================================================
