--------------------------- MODULE PlatformStorage --------------------------
(***************************************************************************)
(* The storage of the platform the program is built for (the #ifdefs of    *)
(* storage/os, storage/esp and storage/nano33iot): the file of the OS      *)
(* build, or the flash of a board.  What belongs to the other stays as it  *)
(* is.                                                                     *)
(***************************************************************************)
EXTENDS FileStorage, EepromStorage

VARIABLE platform   \* what the program is built for

osOnly == <<exists, file, stdio, saveRet>>
boardOnly == <<flagged, flashVars, copyVars, addr, i, saved, id>>
sharedVars == <<pc, key, saves, ret, buf>>
platformVars == <<platform, sharedVars, osOnly, boardOnly>>

PlatformInit ==
    /\ NoFile
    /\ NewBoard
    /\ \/ platform = "os" /\ FInit
       \/ platform = "board" /\ Init

OnOs == platform = "os" /\ UNCHANGED <<platform, boardOnly>>
OnBoard == platform = "board" /\ UNCHANGED <<platform, osOnly>>

PlatformNext ==
    \/ FNext /\ OnOs
    \/ Next /\ OnBoard

PlatformSpec == PlatformInit /\ [][PlatformNext]_platformVars

-----------------------------------------------------------------------------
(* Properties *)

\* In a file, a read that succeeds gives the whole of the key saved last.
OsNoTornKey == platform = "os" => NoTornKey

\* In flash, a key that was committed reads back.
BoardReadsBack == platform = "board" => SavedReadsBack
=============================================================================
