----------------------------- MODULE MCHttpParser -----------------------------
(* HttpParser on messages with and without headers, bodies and malformed    *)
(* line ends, alone and one after another on a kept connection; and on everything      *)
(* short, whether it makes sense or not.                                    *)
EXTENDS HttpParser

EOL == <<"CR", "LF">>
(* An int of 6 bits: 66 is taken for 2, and 31 overflows in a sum.          *)
MCLenHeaders ==
  [n \in {1, 2, 3, 31, 66, -1, -3, -20} |->
     CASE n = 1 -> "LEN1" [] n = 2 -> "LEN2" [] n = 3 -> "LEN3"
       [] n = 31 -> "LEN31" [] n = 66 -> "LEN66"
       [] n = -1 -> "LEN-1" [] n = -3 -> "LEN-3" [] n = -20 -> "LEN-20"]

Get      == <<"GET">> \o EOL \o EOL
GetKeep  == <<"GET">> \o EOL \o <<"KEEP">> \o EOL \o EOL
Post     == <<"POST">> \o EOL \o <<"LEN2">> \o EOL \o <<"KEEP">> \o EOL \o EOL
              \o <<"x", "y">>
PostEol  == <<"POST">> \o EOL \o <<"LEN3">> \o EOL \o EOL \o <<"x">> \o EOL
PostLast == <<"POST">> \o EOL \o <<"LEN3">> \o EOL \o <<"LEN1">> \o EOL \o EOL \o <<"x", "y">>
PostPart == <<"POST">> \o EOL \o <<"x", "LEN2">> \o EOL \o <<"KEEP", "x">> \o EOL \o EOL
PostNone == <<"POST">> \o EOL \o <<"OTHER">> \o EOL \o EOL
Odd(len)  == <<"POST">> \o EOL \o <<len>> \o EOL \o EOL \o <<"x", "y">>
Full     == <<"POST">> \o EOL \o <<"LEN3">> \o EOL \o <<"OTHER">> \o EOL \o EOL
              \o <<"x", "y", "x">>
Bad      == <<"OTHER">> \o EOL \o <<"KEEP">> \o EOL \o EOL
BadLong  == <<"GET", "x">> \o EOL \o EOL
Empty    == EOL \o Get
Lengthy  == <<"GET">> \o EOL \o <<"OTHER">> \o EOL \o <<"OTHER">> \o EOL
              \o <<"OTHER">> \o EOL \o <<"OTHER">> \o EOL \o EOL

LoneLf   == <<"GET", "LF", "KEEP">> \o EOL \o EOL
LoneCr   == <<"POST">> \o EOL \o <<"KEEP", "CR", "CR", "LF">> \o EOL
LoneBad  == <<"OTHER", "CR", "x">> \o EOL

MCStreams ==
  {Get, PostEol, PostNone, PostLast, PostPart, Bad, BadLong, Empty, Lengthy, LoneLf, LoneCr, LoneBad}
    \cup {Full} \cup {Odd(len) : len \in {"LEN31", "LEN66", "LEN-1", "LEN-3", "LEN-20"}}
    \cup {GetKeep \o m : m \in {Get, PostEol, LoneLf, <<>>}}
    \cup {Post \o GetKeep \o PostEol, GetKeep \o Post \o Get}
    \cup [1 .. 6 -> {"GET", "CR", "LF", "KEEP"}]

===============================================================================
