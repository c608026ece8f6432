---------------------------- MODULE MCBase64Uint ----------------------------
(* Numbers around the boundaries of bytes.                                 *)
EXTENDS Base64Uint

MCNumbers == {-1, 0, 1, 15, 16, 127, 128, 255, 256, 257, 511, 65535, 65536, 65537, 16777215}

MCWidths == {None, 0, 8, 9, 16, 17, 24}
=============================================================================
