---------------------------- MODULE MCUpdateHost ----------------------------
(* UpdateHost on a few builds: A is installed, B and C are candidates. *)
EXTENDS UpdateHost

=============================================================================
