----------------------------- MODULE MCT30Session -----------------------------
(* Documents of one to three pages for T30Session, of one format and of two. *)
EXTENDS T30Session

All      == {<<1, 1>>, <<1, 0, 0>>, <<>>}
ToPoll   == {<<>>, <<1>>}
AnyLine  == {-1, 1, 7}
Refusals == {"RTN", "RTP", "PIN"}
Modems   == {3, 5}
Either   == {0, 1}

=============================================================================
