--------------------------- MODULE MCPersistence ---------------------------
(* Two disk images, and two contents of XPRAM. *)
EXTENDS Persistence
CONSTANTS hd, floppy, pram0, pram1
=============================================================================
