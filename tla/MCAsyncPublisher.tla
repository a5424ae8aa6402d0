-------------------------- MODULE MCAsyncPublisher --------------------------
(* Instances of AsyncPublisher for TLC.                                     *)
EXTENDS AsyncPublisher
=============================================================================
