---------------------------- MODULE MCJwtOptions ----------------------------
(* Two claims, so that a dictionary may set one and leave the other to the *)
(* defaults.                                                               *)
EXTENDS JwtOptions

CONSTANTS d1, d2  \* dictionaries

TwoClaims == {"verify_exp", "verify_aud"}

OneClaim == {"verify_exp"}
=============================================================================
