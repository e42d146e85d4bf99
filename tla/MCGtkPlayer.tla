---------------------------- MODULE MCGtkPlayer ----------------------------
(* A small instance of GtkPlayer for TLC. *)
EXTENDS GtkPlayer

MCKinds == <<"audio", "text">>
=============================================================================
