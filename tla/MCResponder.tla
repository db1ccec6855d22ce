------------------------------ MODULE MCResponder ------------------------------
(* Responder with CGI programs that print texts of different lengths: none,  *)
(* a short one parsed as JSON, a long one that still fits into jsonDataBuf,  *)
(* and two that do not, one of them parsed.                                  *)
EXTENDS Responder

CONSTANTS mute, short, long, list, huge
MCPages == {mute, short, long, list, huge}
MCParsed == {short, list}
MCLength == [p \in MCPages |-> CASE p = mute -> 0 [] p = short -> 1
                                 [] p = long -> 2 [] OTHER -> 4]
===============================================================================
