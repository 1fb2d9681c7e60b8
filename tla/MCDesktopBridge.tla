--------------------------- MODULE MCDesktopBridge ---------------------------
(* Three requests under two ids, over two connections.                     *)
EXTENDS DesktopBridge
=============================================================================
