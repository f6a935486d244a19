--------------------------- MODULE MCRouterServer ---------------------------
(***************************************************************************)
(* Two invocations against a limit of one, so that the second meets a full *)
(* limiter or a slot that was given back.  The first comes over h2c and    *)
(* uploads two blocks; the other comes over HTTP/1.1 and runs a command,   *)
(* uploads one block, downloads, or invokes an agent runtime.  They meet   *)
(* in the sandbox when the caller of one has gone.                         *)
(***************************************************************************)
EXTENDS RouterServer

CONSTANTS r1, r2

MCCalls == [r \in Requests |-> IF r = r1 THEN {"multipart"} ELSE {"execute", "json", "download"}]
MCBlocks == [c \in Uploads |-> IF c = "multipart" THEN 2 ELSE 1]
=============================================================================
