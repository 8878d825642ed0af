--------------------------- MODULE MCWemoControl ---------------------------
(* A plug that may move to another address, saved under its first one, or not yet. *)
EXTENDS WemoControl

FirstPlugs ==
    [url : {"first", NoAddress}, name : {"plug"}, status : {FALSE}]
=============================================================================
