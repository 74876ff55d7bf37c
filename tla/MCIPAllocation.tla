--------------------------- MODULE MCIPAllocation ---------------------------
(* Three requests, two keys and a prefix of two addresses, the first of which
   begins with a zero byte: an address is fought over, a key is taken twice,
   the range runs full, and a scan may end before it has begun. *)
EXTENDS IPAllocation
=============================================================================
