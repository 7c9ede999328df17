------------------------------ MODULE MCDeciderView ------------------------------
(* A small instance of DeciderView. *)
EXTENDS DeciderView

=================================================================================
