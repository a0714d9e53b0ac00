-------------------------- MODULE MCPlatformRandom --------------------------
(***************************************************************************)
(* A small instance of both random sources.  On the OS build: numbers of   *)
(* three words, eleven descriptors (a new account takes at least four, a   *)
(* signature six), five operations.  On the ESP8266: longs of 5 bits,      *)
(* bytes of 3, so that fillRandom asks for random(1, 7), and calls that    *)
(* follow each other without end.                                          *)
(***************************************************************************)
EXTENDS PlatformRandom

MCBounds == {-16, -11, -1, 0, 1, 3, 7, 8, 9, 15}
=============================================================================
