-------------------------- MODULE MCStreamHandler --------------------------
(* Instance of WiredStream: files that look like the wire format.          *)
EXTENDS WiredStream

MCFiles == <<<<Blank, Header("Content-Length", NotANumber), NotAPair>>, << >>>>
=============================================================================
