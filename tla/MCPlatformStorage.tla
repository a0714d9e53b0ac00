------------------------- MODULE MCPlatformStorage --------------------------
(***************************************************************************)
(* A small instance of the three storages: two keys of two bytes, three    *)
(* saves, six bytes of flash.  The ESP8266 is initialised to four bytes by *)
(* the sketch, or to five by the library when the sketch does not.  Keys   *)
(* at storage ids 0 and 2 fit in both; at 3, where it overlaps the one at  *)
(* 2, a key fits only when the library initialises.                        *)
(***************************************************************************)
EXTENDS PlatformStorage

CONSTANTS k1, k2

MCKeys == {k1, k2}
MCSketchSizes == {4}
MCAddresses == {0, 2, 3}
=============================================================================
