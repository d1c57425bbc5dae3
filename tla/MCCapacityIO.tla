---------------------------- MODULE MCCapacityIO ----------------------------
(* A small instance of CapacityIO: four blocks, one that does not compress, two files,
   two test workers. *)
EXTENDS CapacityIO

MCClen == <<3, 6, 1, 2>>
MCComandos == {[cmd |-> "io_disco", plano |-> <<"decomp-grava">>],
               [cmd |-> "io_disco", plano |-> <<"comp">>],
               [cmd |-> "sustentado", plano |-> <<"sust">>]}
==============================================================================
