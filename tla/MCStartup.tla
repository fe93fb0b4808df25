------------------------------ MODULE MCStartup ------------------------------
(***************************************************************************)
(* Model checking of Startup.  One command line is combined with every     *)
(* file, other command lines with one file each.                           *)
(***************************************************************************)
EXTENDS Startup

Usual == [file |-> "nil", ignore |-> FALSE, workers |-> 0, renew |-> 60,
          disabled |-> {}, namespace |-> TRUE]

MCDeployments ==
    {[Usual EXCEPT !.file = file] : file \in Files} \cup
    {[Usual EXCEPT !.file = "options", !.ignore = TRUE, !.workers = 10],
     [Usual EXCEPT !.file = "options", !.renew = 0, !.disabled = {DikiController}],
     [Usual EXCEPT !.file = "options", !.disabled = {Heartbeat}],
     [Usual EXCEPT !.disabled = {"diki"}],
     [Usual EXCEPT !.namespace = FALSE]}

=============================================================================
