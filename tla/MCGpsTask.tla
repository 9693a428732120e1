------------------------------- MODULE MCGpsTask -------------------------------
(* A small instance of GpsTask: two RMC sentences around another one.       *)
EXTENDS GpsTask

Tok(k, s) == [k |-> k, s |-> s]
MCStreamAll == <<Tok("hd", 1), Tok("bd", 1), Tok("ck", 1), Tok("nl", 1),
              Tok("xx", 2), Tok("nl", 2),
              Tok("hd", 3), Tok("bd", 3), Tok("ck", 3), Tok("nl", 3),
              Tok("hd", 4), Tok("bd", 4), Tok("ck", 4), Tok("nl", 4)>>


MCStream == SubSeq(MCStreamAll, 1, MaxBytes)
=============================================================================
