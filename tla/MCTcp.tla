------------------------------- MODULE MCTcp --------------------------------
(* Two machines for TLC whose cards may drop a frame they are handed.      *)
EXTENDS Tcp

\* One segment under way in each direction.
OneEach == [h \in Hosts |-> 1]
=============================================================================
