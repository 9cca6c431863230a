---------------------------- MODULE MCDispatcher ----------------------------
(* The small instance of Dispatcher that TLC checks; MCDispatcher.cfg gives *)
(* the constants, all of which are model values.                            *)
EXTENDS Dispatcher
=============================================================================
