---------------------------- MODULE MCApplication ----------------------------
(* A small instance of Application: one name of each kind. *)
EXTENDS Application

MCNames == [kind \in Kinds |-> {"n"}]
=============================================================================
