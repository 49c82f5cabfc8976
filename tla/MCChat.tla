-------------------------------- MODULE MCChat --------------------------------
(***************************************************************************)
(* The users whom the notices of missed messages are for that TLC looks at;*)
(* the rest is in the configurations.                                      *)
(***************************************************************************)
EXTENDS Chat

\* Two users, one of whom is written to in between.
OneInBetween == <<"a", "b", "a">>
\* Two users.
OneEach == <<"a", "b">>
=============================================================================
