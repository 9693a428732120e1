----------------------------- MODULE MCNvsStore ------------------------------
(* Three settings, each always set with the same type, or one that is set  *)
(* with two.                                                               *)
EXTENDS NvsStore

OneType == {<<1, "u8">>, <<2, "i16">>, <<3, "u8">>}
TwoTypes == {<<1, "u8">>, <<1, "i16">>}
=============================================================================
