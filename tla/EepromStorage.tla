---------------------------- MODULE EepromStorage ---------------------------
(***************************************************************************)
(* The private key of the ESP8266 (storage/esp/storage.cpp) and of the     *)
(* Nano 33 IoT (storage/nano33iot/storage.cpp), in flash memory that the   *)
(* EEPROM library emulates: a copy in RAM is read and written, and         *)
(* commit() erases the flash and programs the copy into it.  The power may *)
(* fail between any two steps, in between those two as well.               *)
(*                                                                         *)
(* The EEPROM library is external.  On the ESP8266 begin(size) reads the   *)
(* first `size` bytes of the flash into the copy, an address past the copy *)
(* is ignored by write and 0 for read, and commit programs the copy only.  *)
(* It gives up, and says so to nobody, when it cannot erase or program.  A *)
(* commit with nothing new to write is taken like any other.               *)
(* On the Nano (flagged) the copy is all of the flash, and a flag byte is  *)
(* kept next to it: FALSE on a new board, TRUE in the copy after a commit  *)
(* (and nonzero, read as TRUE, in flash that was erased).  Its library     *)
(* checks no address, so the storage ids are assumed to fit the flash.     *)
(*                                                                         *)
(* Byte i of key k is <<k, i>>; Erased and Zero are the bytes flash has    *)
(* when it is erased and when there is no such address.                    *)
(***************************************************************************)
EXTENDS Storage

CONSTANTS
    NoKey,          \* not a private key
    FlashSize,      \* bytes of flash there are
    DefaultSize,    \* IOTEX_DEFAULT_EEPROM_SIZE
    SketchSizes,    \* what a sketch calls Storage::Initialize with
    Addresses       \* the storage ids the application uses

ASSUME NoKeyAssumption == NoKey \notin Keys
ASSUME SizeAssumption ==
    FlashSize \in Nat \ {0} /\ DefaultSize \in 1..FlashSize
        /\ SketchSizes \subseteq 1..FlashSize
ASSUME AddressesAssumption ==
    Addresses \subseteq Nat /\ \A a \in Addresses : a + KeyLen <= FlashSize

Erased == <<NoKey, 1>>
Zero == <<NoKey, 0>>
Cells == 0..(FlashSize - 1)
Bytes == (Keys \X (0..(KeyLen - 1))) \cup {Erased, Zero}

VARIABLES
    flagged,    \* the board: TRUE for the Nano, FALSE for the ESP8266
    flash,      \* the flash memory
    flashFlag,  \* the flag byte in it (Nano)
    size,       \* bytes in the copy, 0 before Initialize (_init is size # 0)
    ram,        \* the copy; cells from size on mean nothing
    ramFlag,    \* the flag byte in it (Nano)
    addr,       \* storage id of the save under way
    i,          \* its loop variable
    saved,      \* saved[a]: the key the flash should have at a, NoKey if none
    id          \* the storage id of the latest readPrivateKey

flashVars == <<flash, flashFlag>>
copyVars == <<size, ram, ramFlag>>
readVars == <<ret, id, buf>>
vars == <<flagged, flash, flashFlag, size, ram, ramFlag, pc, addr, key, i,
          saved, saves, ret, id, buf>>

Blank == [c \in Cells |-> Erased]
NoBuf == [c \in 0..(KeyLen - 1) |-> Zero]

NewBoard ==
    /\ flagged \in BOOLEAN
    /\ flash = Blank
    /\ flashFlag = FALSE
    /\ size = 0
    /\ ram = Blank
    /\ ramFlag = FALSE
    /\ addr = 0
    /\ i = 0
    /\ saved = [a \in Addresses |-> NoKey]
    /\ id = 0

Init ==
    /\ NewBoard
    /\ pc = "idle"
    /\ key = NoKey
    /\ saves = 0
    /\ ret = "NONE"
    /\ buf = NoBuf

\* The copy once Storage::Initialize(n) has run: EEPROM.begin the first time.
InitializeTo(n) ==
    IF size = 0
    THEN size' = n /\ ram' = flash /\ ramFlag' = flashFlag
    ELSE UNCHANGED copyVars

\* What savePrivateKey and readPrivateKey initialize to when the sketch has not.
OwnSize == IF flagged THEN FlashSize ELSE DefaultSize

\* The sketch calls storage.Initialize; on the Nano it does nothing.
SketchInitialize(n) ==
    /\ ~flagged
    /\ pc = "idle"
    /\ size = 0
    /\ InitializeTo(n)
    /\ UNCHANGED <<flagged, flashVars, pc, addr, key, i, saved, saves, readVars>>

Save(a, k) ==
    /\ pc = "idle"
    /\ saves < MaxSaves
    /\ saves' = saves + 1
    /\ InitializeTo(OwnSize)
    /\ pc' = "write"
    /\ addr' = a
    /\ key' = k
    /\ i' = 0
    /\ ret' = "NONE"
    /\ id' = 0
    /\ buf' = NoBuf
    /\ UNCHANGED <<flagged, flashVars, saved>>

\* Fault: the storage id is left out of the address.
WriteByteAtZero ==
    /\ pc = "write"
    /\ ram' = IF i < size THEN [ram EXCEPT ![i] = <<key, i>>] ELSE ram
    /\ i' = i + 1
    /\ pc' = IF i' = KeyLen THEN "commit" ELSE "write"
    /\ UNCHANGED <<flagged, flashVars, size, ramFlag, addr, key, saved, saves, readVars>>

\* EEPROM.write(eepromAddress + i, privateKey[i])
WriteByte ==
    /\ pc = "write"
    /\ ram' = IF addr + i < size
              THEN [ram EXCEPT ![addr + i] = <<key, i>>]
              ELSE ram
    /\ i' = i + 1
    /\ pc' = IF i' = KeyLen THEN "commit" ELSE "write"
    /\ UNCHANGED <<flagged, flashVars, size, ramFlag, addr, key, saved, saves, readVars>>

Overlap(a, b) == a < b + KeyLen /\ b < a + KeyLen

\* What the flash should have once key k has gone to storage id a.
Put(a, k) ==
    [b \in Addresses |->
        IF b = a THEN k ELSE IF Overlap(a, b) THEN NoKey ELSE saved[b]]

\* commit() erases the flash,
CommitErases ==
    /\ pc = "commit"
    /\ pc' = "program"
    /\ flash' = Blank
    /\ flashFlag' = TRUE
    /\ ramFlag' = TRUE
    /\ UNCHANGED <<flagged, size, ram, addr, key, i, saved, saves, readVars>>

\* The first n cells of the copy are programmed into the erased flash.
Program(n) == flash' = [c \in Cells |-> IF c < n THEN ram[c] ELSE Erased]

\* and programs the copy into it; savePrivateKey returns SUCCESS.
CommitPrograms ==
    /\ pc = "program"
    /\ pc' = "idle"
    /\ Program(size)
    /\ saved' = Put(addr, key)
    /\ UNCHANGED <<flagged, flashFlag, copyVars, addr, key, i, saves, readVars>>

\* Or it returns false, the flash untouched; savePrivateKey returns SUCCESS.
CommitFails ==
    /\ pc = "commit"
    /\ ~flagged
    /\ pc' = "idle"
    /\ saved' = Put(addr, NoKey)
    /\ UNCHANGED <<flagged, flashVars, copyVars, addr, key, i, saves, readVars>>

\* Or it returns false after the flash was erased, with the start of the copy
\* in it or nothing; savePrivateKey returns SUCCESS.
ProgramFails ==
    /\ pc = "program"
    /\ ~flagged
    /\ pc' = "idle"
    /\ \E n \in 0..size : Program(n)
    /\ saved' = [a \in Addresses |-> NoKey]
    /\ UNCHANGED <<flagged, flashFlag, copyVars, addr, key, i, saves, readVars>>

\* The power fails: the copy and the call under way are gone.  In the middle
\* of a commit the flash is left with the start of the copy and nothing else.
PowerFails ==
    /\ size # 0
    /\ size' = 0
    /\ ram' = Blank
    /\ ramFlag' = FALSE
    /\ pc' = "idle"
    /\ IF pc = "program"
       THEN /\ \E n \in 0..size : Program(n)
            /\ saved' = [a \in Addresses |-> NoKey]
       ELSE UNCHANGED <<flash, saved>>
    /\ UNCHANGED <<flagged, flashFlag, addr, key, i, saves, readVars>>

\* readPrivateKey; on the Nano it looks at the flag first.
Read(a) ==
    /\ pc = "idle"
    /\ InitializeTo(OwnSize)
    /\ id' = a
    /\ IF flagged /\ ~ramFlag'
       THEN ret' = "ERROR_STORAGE_EMPTY" /\ buf' = NoBuf
       ELSE /\ ret' = "SUCCESS"
            /\ buf' = [j \in 0..(KeyLen - 1) |->
                          IF a + j < size' THEN ram'[a + j] ELSE Zero]
    /\ UNCHANGED <<flagged, flashVars, pc, addr, key, i, saved, saves>>

Next ==
    \/ \E n \in SketchSizes : SketchInitialize(n)
    \/ \E a \in Addresses, k \in Keys : Save(a, k)
    \/ WriteByte
    \/ CommitErases
    \/ CommitPrograms
    \/ CommitFails
    \/ ProgramFails
    \/ PowerFails
    \/ \E a \in Addresses : Read(a)

Spec == Init /\ [][Next]_vars

-----------------------------------------------------------------------------
(* Properties *)

TypeOK ==
    /\ flagged \in BOOLEAN
    /\ flash \in [Cells -> Bytes]
    /\ flashFlag \in BOOLEAN
    /\ size \in 0..FlashSize
    /\ ram \in [Cells -> Bytes]
    /\ ramFlag \in BOOLEAN
    /\ pc \in {"idle", "write", "commit", "program"}
    /\ addr \in Addresses \cup {0}
    /\ key \in Keys \cup {NoKey}
    /\ i \in 0..KeyLen
    /\ saved \in [Addresses -> Keys \cup {NoKey}]
    /\ saves \in 0..MaxSaves
    /\ ret \in {"NONE", "SUCCESS", "ERROR_STORAGE_EMPTY"}
    /\ id \in Addresses \cup {0}
    /\ buf \in [0..(KeyLen - 1) -> Bytes]

\* The key at storage id a fits in the copy, whoever initialised it.
Fits(a) == \A n \in {OwnSize} \cup (IF flagged THEN {} ELSE SketchSizes) : a + KeyLen <= n

\* A key that fits and whose save was committed is what readPrivateKey gives,
\* after other keys were saved next to it (at ids where they do not fit, too),
\* after restarts with or without a call of Storage::Initialize, and after a
\* save over it was cut short before its commit; until a commit is cut short or
\* fails between erasing and programming, which takes every key with it.
SavedReadsBack ==
    ret # "NONE" /\ id \in Addresses /\ saved[id] # NoKey /\ Fits(id) =>
        /\ ret = "SUCCESS"
        /\ buf = [j \in 0..(KeyLen - 1) |-> <<saved[id], j>>]
=============================================================================
