---------------------------- MODULE MCProviderCall ----------------------------
(* TLC instances of ProviderCall: the constants are numbers.               *)
EXTENDS ProviderCall, TLC

===============================================================================
