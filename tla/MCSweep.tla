------------------------------ MODULE MCSweep ------------------------------
(* An instance of Sweep for TLC.  The first snapshot has a single page; the  *)
(* third differs from the second only in Last-Modified, the last from the    *)
(* third only in X-Pages.                                                    *)
EXTENDS Sweep

MCPagesOf == <<1, 2, 2, 3>>
MCLastModified == <<1, 1, 2, 2>>

=============================================================================
