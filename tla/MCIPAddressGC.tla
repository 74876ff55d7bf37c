--------------------------- MODULE MCIPAddressGC ---------------------------
(* Two requests for the same key over a prefix of two addresses, which may be
   the last ones there are, with a collector that fails or restarts once and
   remembers one absent UID. *)
EXTENDS IPAddressGC
=============================================================================
