--------------------------- MODULE MCInstallation ---------------------------
(* Two general packages and one for a Spark machine, without a service host. *)
EXTENDS Installation

MCPackages ==
    {[worker |-> 1, host |-> 1, flavor |-> "general"],
     [worker |-> 2, host |-> 2, flavor |-> "general"],
     [worker |-> 3, host |-> 0, flavor |-> "spark"]}
=============================================================================
