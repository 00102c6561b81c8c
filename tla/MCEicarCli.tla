------------------------------ MODULE MCEicarCli ------------------------------
(* Six arguments: an option and its value, the command, one of its options   *)
(* and its value, and one more.  Three states of the file: read, hashed, and *)
(* replaced in between.                                                      *)
EXTENDS EicarCli

=============================================================================
