---------------------------- MODULE MCMigration ----------------------------
(* Two plans: away from the home endpoint and back, armed or activated.     *)
EXTENDS Migration

MCCandidate == <<"b", "a">>
MCScripts ==
    {<< <<"prepare", 1>>, <<"arm", 1>>, <<"retire", 1>> >>,
     << <<"prepare", 1>>, <<"activate", 1>>, <<"prepare", 2>>, <<"activate", 2>> >>}
=============================================================================
