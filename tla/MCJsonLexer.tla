------------------------------ MODULE MCJsonLexer ------------------------------
(* JsonLexer on inputs that try every byte as the start of a character and   *)
(* the bytes at each limit after it, escapes and pairs of escapes, numbers   *)
(* of up to six bytes, and words, comments, white space and the byte order   *)
(* mark.                                                                     *)
EXTENDS JsonLexer

Limits  == {Quote, \h7F, \h80, \h8F, \h90, \h9F, \hA0, \hBF, \hC0}
Numbers == {LF, Minus, Plus, Point, Zero, 55, Lower(5), Blank, Comma}

MCScripts == {
  <<{Quote}, 0 .. 255, Limits, Limits, Limits, {Quote}>>,
  <<{Quote}, {Backslash}, 0 .. 127, {Zero, Upper(6), Lower(1), Lower(7)}, {Zero, Upper(1)},
    {Zero, 55}, {Zero, Lower(6)}, {Quote, Backslash}, {Quote}>>,
  <<{Quote}, {Backslash}, {Lower(21)}, {Upper(4), Lower(4), Zero}, {55, 56, Upper(2), Upper(3), Upper(6)},
    {Zero}, {Zero}, {Backslash, Quote}, {Lower(21), Lower(14)}, {Upper(4), Zero},
    {Upper(2), Upper(3), Upper(6)}, {Zero, Lower(6)}, {Zero, Upper(6), Lower(7)}, {Quote}>>,
  <<Numbers, Numbers, Numbers, Numbers, {Zero, Lower(5), Plus, Comma}, {Zero, Minus, LF}>>,
  <<{\hEF, Blank, Lower(20), Lower(6), Lower(14), OpenList, Quote},
    {\hBB, Blank, Lower(18), Lower(1), Lower(21), LF}, {\hBF, CR, Lower(21), Lower(12), Colon},
    {Lower(5), Lower(12), Lower(19), HT}, {Lower(5), CloseMap, OpenMap, NUL}, {Zero}, {LF}, {CloseList}>>,
  <<{Slash, Zero}, {Slash, Star, LF}, {Star, LF, Slash, Zero}, {Star, Slash, CR, NUL},
    {Star, Slash, NUL}, {Slash, Zero}, {Star, Zero, LF}, {Slash, Comma}>>}
===============================================================================
