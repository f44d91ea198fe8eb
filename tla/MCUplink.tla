------------------------------ MODULE MCUplink ------------------------------
(***************************************************************************)
(* The uplink alone, closed by two producers that submit any frame.        *)
(***************************************************************************)
EXTENDS Uplink

MCProducers == {"mqtt", "worker"}
MCFrames == {"sane", "broken"}
MCSaneFrames == {"sane"}

=============================================================================
