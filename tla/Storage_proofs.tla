--------------------------- MODULE Storage_proofs ---------------------------
(***************************************************************************)
(* Theorems about both implementations of Storage: FileStorage, for every  *)
(* set of keys, every key length and any number of saves; EepromStorage,   *)
(* for those and flash of any size and any storage ids.                    *)
(***************************************************************************)
EXTENDS PlatformStorage, TLAPS

-----------------------------------------------------------------------------
(* FileStorage *)

Byte == Keys \X (1..KeyLen)

-----------------------------------------------------------------------------
(* The first bytes of a key. *)

LEMMA BytesType ==
    ASSUME NEW k \in Keys, NEW n \in 0..KeyLen
    PROVE  KeyBytes(k, n) \in Seq(Byte)
<1>1. \A j \in 1..n : <<k, j>> \in Byte
    BY KeyLenAssumption DEF Byte
<1>. QED  BY <1>1, KeyLenAssumption DEF KeyBytes

LEMMA BytesLen ==
    ASSUME NEW k, NEW n \in Nat
    PROVE  Len(KeyBytes(k, n)) = n
BY DEF KeyBytes

LEMMA BytesEmpty ==
    ASSUME NEW k
    PROVE  KeyBytes(k, 0) = <<>>
BY DEF KeyBytes

(* A start of the start of a key is a start of the key. *)
LEMMA BytesSubSeq ==
    ASSUME NEW k, NEW n \in Nat, NEW m \in 0..n
    PROVE  SubSeq(KeyBytes(k, n), 1, m) = KeyBytes(k, m)
BY DEF KeyBytes

-----------------------------------------------------------------------------
(* The inductive invariant. *)

\* The file never holds anything but a start of the key of the latest save
\* begun, and nothing at all while that save is under way.
FileInv ==
    /\ \E n \in 0..KeyLen : file = KeyBytes(key, n)
    /\ pc # "idle" => file = <<>> /\ ret = "NONE"
    /\ stdio = IF pc = "close" THEN KeyBytes(key, KeyLen) ELSE <<>>

\* What a read left in the buffer is a start of that key too, all of it when
\* the read succeeded.
ReadInv ==
    /\ \E n \in 0..KeyLen : buf = KeyBytes(key, n)
    /\ NoTornKey

TypeInv ==
    /\ pc \in {"idle", "write", "close"}
    /\ exists \in BOOLEAN
    /\ key \in Keys
    /\ saves \in 0..MaxSaves
    /\ saveRet \in {"NONE", "SUCCESS", "ERROR_STORAGE_OPEN"}
    /\ ret \in {"NONE", "SUCCESS", "ERROR_STORAGE_OPEN", "ERROR_STORAGE_BAD_READ"}

FInv == TypeInv /\ FileInv /\ ReadInv

(* No byte at all is the start of every key. *)
LEMMA EmptyIsStart == \A k \in Keys : \E n \in 0..KeyLen : <<>> = KeyBytes(k, n)
BY BytesEmpty, KeyLenAssumption

LEMMA InitFInv == FInit => FInv
<1>. SUFFICES ASSUME FInit PROVE FInv
    OBVIOUS
<1>1. TypeInv
    <2>1. exists \in BOOLEAN
        BY Zenon DEF FInit, NoFile
    <2>2. saves \in 0..MaxSaves
        BY MaxSavesAssumption DEF FInit
    <2>. QED  BY <2>1, <2>2 DEF FInit, NoFile, TypeInv
<1>2. \E n \in 0..KeyLen : <<>> = KeyBytes(key, n)
    BY EmptyIsStart DEF FInit
<1>3. FileInv /\ ReadInv
    BY <1>2 DEF FInit, NoFile, FileInv, ReadInv, NoTornKey
<1>. QED  BY <1>1, <1>3 DEF FInv

LEMMA OpenFailsFInv == FInv /\ OpenFails => FInv'
<1>. SUFFICES ASSUME FInv, OpenFails PROVE FInv'
    OBVIOUS
<1>1. /\ pc = "idle" /\ saves < MaxSaves /\ saves' = saves + 1
      /\ ret' = "NONE" /\ buf' = <<>> /\ saveRet' = "ERROR_STORAGE_OPEN"
      /\ UNCHANGED <<pc, exists, file, key, stdio>>
    BY DEF OpenFails, EnterSave, fileVars
<1>2. TypeInv'
    BY <1>1, MaxSavesAssumption DEF FInv, TypeInv
<1>3. FileInv'
    BY <1>1 DEF FInv, FileInv
<1>4. ReadInv'
    BY <1>1, EmptyIsStart DEF FInv, TypeInv, ReadInv, NoTornKey
<1>. QED  BY <1>2, <1>3, <1>4 DEF FInv

LEMMA OpenTruncatesFInv ==
    ASSUME FInv, NEW k \in Keys, OpenTruncates(k)
    PROVE  FInv'
<1>1. /\ pc = "idle" /\ saves < MaxSaves /\ saves' = saves + 1
      /\ ret' = "NONE" /\ buf' = <<>> /\ saveRet' = "NONE"
      /\ pc' = "write" /\ exists' = TRUE /\ file' = <<>> /\ key' = k
      /\ UNCHANGED stdio
    BY DEF OpenTruncates, EnterSave
<1>2. TypeInv'
    BY <1>1, MaxSavesAssumption DEF FInv, TypeInv
<1>3. FileInv'
    BY <1>1, EmptyIsStart DEF FInv, FileInv
<1>4. ReadInv'
    BY <1>1, EmptyIsStart DEF ReadInv, NoTornKey
<1>. QED  BY <1>2, <1>3, <1>4 DEF FInv

LEMMA WriteFInv == FInv /\ Write => FInv'
BY DEF Write, fileVars, fReadVars, FInv, TypeInv, FileInv, ReadInv, NoTornKey

(* Whatever part of the buffer of the stream gets to the empty file, it is a *)
(* start of the key. *)
LEMMA FlushFInv ==
    ASSUME FInv, pc # "idle", pc' = "idle", stdio' = <<>>,
           \E n \in 0..Len(stdio) : file' = file \o SubSeq(stdio, 1, n),
           saveRet' \in {saveRet, "SUCCESS"},
           UNCHANGED <<exists, key, saves, ret, buf>>
    PROVE  FInv'
<1>1. \E n \in 0..KeyLen : file' = KeyBytes(key, n)
    <2>1. PICK n \in 0..Len(stdio) : file' = file \o SubSeq(stdio, 1, n)
        OBVIOUS
    <2>2. file = <<>> /\ stdio = IF pc = "close" THEN KeyBytes(key, KeyLen) ELSE <<>>
        BY DEF FInv, FileInv
    <2>3. PICK m \in 0..KeyLen : stdio = KeyBytes(key, m)
        BY <2>2, EmptyIsStart, KeyLenAssumption DEF FInv, TypeInv
    <2>4. Len(stdio) = m
        BY <2>3, BytesLen, KeyLenAssumption
    <2>5. n \in 0..m /\ SubSeq(stdio, 1, n) = KeyBytes(key, n)
        BY <2>1, <2>3, <2>4, BytesSubSeq
    <2>6. KeyBytes(key, n) \in Seq(Byte) /\ n \in 0..KeyLen
        BY <2>3, <2>5, BytesType, KeyLenAssumption DEF FInv, TypeInv
    <2>7. <<>> \o KeyBytes(key, n) = KeyBytes(key, n)
        BY <2>6
    <2>. QED  BY <2>1, <2>2, <2>5, <2>6, <2>7
<1>2. TypeInv'
    BY DEF FInv, TypeInv
<1>3. FileInv'
    BY <1>1 DEF FInv, FileInv
<1>4. ReadInv'
    BY DEF FInv, ReadInv, NoTornKey
<1>. QED  BY <1>2, <1>3, <1>4 DEF FInv

LEMMA CloseFInv == FInv /\ Close => FInv'
<1>. SUFFICES ASSUME FInv, Close PROVE FInv'
    OBVIOUS
<1>1. Len(stdio) = KeyLen
    BY BytesLen, KeyLenAssumption DEF Close, FInv, FileInv
<1>. QED  BY <1>1, FlushFInv DEF Close, fReadVars

LEMMA KilledFInv == FInv /\ Killed => FInv'
BY FlushFInv DEF Killed, fReadVars

LEMMA ReadFInv == FInv /\ FRead => FInv'
<1>. SUFFICES ASSUME FInv, FRead PROVE FInv'
    OBVIOUS
<1>1. PICK n \in 0..KeyLen : file = KeyBytes(key, n)
    BY DEF FInv, FileInv
<1>2. FirstBytes(file) = KeyBytes(key, n)
    <2>1. Len(file) = n
        BY <1>1, BytesLen
    <2>2. FirstBytes(file) = SubSeq(file, 1, n)
        BY <1>1, <2>1, KeyLenAssumption DEF FirstBytes
    <2>. QED  BY <1>1, <2>2, BytesSubSeq
<1>3. ret' = "SUCCESS" => buf' = KeyBytes(key, KeyLen)
    BY <1>2, BytesLen DEF FRead
<1>4. \E m \in 0..KeyLen : buf' = KeyBytes(key, m)
    BY <1>2, EmptyIsStart DEF FRead, FInv, TypeInv
<1>5. /\ UNCHANGED <<pc, exists, file, key, stdio, saves, saveRet>> /\ pc = "idle"
      /\ ret' \in {"SUCCESS", "ERROR_STORAGE_OPEN", "ERROR_STORAGE_BAD_READ"}
    BY DEF FRead, fileVars
<1>6. TypeInv' /\ FileInv'
    BY <1>5 DEF FInv, TypeInv, FileInv
<1>7. ReadInv'
    BY <1>3, <1>4, <1>5 DEF ReadInv, NoTornKey
<1>. QED  BY <1>6, <1>7 DEF FInv

LEMMA NextFInv == FInv /\ [FNext]_fVars => FInv'
<1>1. ASSUME FInv, UNCHANGED fVars PROVE FInv'
    BY <1>1 DEF fVars, FInv, TypeInv, FileInv, ReadInv, NoTornKey
<1>. QED  BY <1>1, OpenFailsFInv, OpenTruncatesFInv, WriteFInv, CloseFInv,
             KilledFInv, ReadFInv DEF FNext

(* Every reachable state satisfies the inductive invariant. *)
THEOREM FileInvariant == FSpec => []FInv
<1>. QED  BY InitFInv, NextFInv, PTL DEF FSpec

-----------------------------------------------------------------------------
(* What follows from it. *)

(* Every variable of the two calls keeps its type. *)
THEOREM FileTypeCorrect == FSpec => []FTypeOK
<1>1. FInv => FTypeOK
    <2>. SUFFICES ASSUME FInv PROVE FTypeOK
        OBVIOUS
    <2>1. file \in Seq(Byte) /\ buf \in Seq(Byte)
        BY BytesType DEF FInv, TypeInv, FileInv, ReadInv
    <2>2. stdio \in Seq(Byte)
        BY BytesType, KeyLenAssumption DEF FInv, TypeInv, FileInv
    <2>. QED  BY <2>1, <2>2 DEF FInv, TypeInv, FTypeOK, Byte
<1>. QED  BY <1>1, FileInvariant, PTL

(* Wherever a save was killed or ran out of room, a read that succeeds gives  *)
(* the whole of the key saved last. *)
THEOREM ReadsAreWhole == FSpec => []NoTornKey
<1>1. FInv => NoTornKey
    BY DEF FInv, ReadInv
<1>. QED  BY <1>1, FileInvariant, PTL

-----------------------------------------------------------------------------
(* EepromStorage *)

-----------------------------------------------------------------------------
(* The inductive invariant. *)

\* What the board may have been initialised to.
Sizes == {OwnSize} \cup (IF flagged THEN {} ELSE SketchSizes)

\* The key the flash should have at storage id b is in memory m.
Holds(m, b) == \A j \in 0..(KeyLen - 1) : m[b + j] = <<saved[b], j>>

\* There should be a key at b, and it is one that fits.
Kept(b) == saved[b] # NoKey /\ Fits(b)

SizeInv == size = 0 \/ size \in Sizes

\* The flash has every key it should have, but in the middle of a commit.
FlashInv == pc # "program" => \A b \in Addresses : Kept(b) => Holds(flash, b)

\* So has the copy, but for the keys that the save under way overwrites.
CopyInv ==
    size # 0 => \A b \in Addresses :
        Kept(b) /\ (pc = "idle" \/ ~Overlap(b, addr)) => Holds(ram, b)

\* A save has written the first i bytes of its key.
WriteInv ==
    pc # "idle" =>
        /\ size # 0 /\ addr \in Addresses /\ key \in Keys /\ ret = "NONE"
        /\ pc = "write" => i < KeyLen
        /\ pc # "write" => i = KeyLen
        /\ \A j \in 0..(KeyLen - 1) : j < i /\ addr + j < size => ram[addr + j] = <<key, j>>

\* The flag is set in flash and copy together, before the first key is there.
FlagInv ==
    /\ size # 0 => ramFlag = flashFlag
    /\ pc = "program" => flashFlag
    /\ \A b \in Addresses : saved[b] # NoKey => flashFlag

IInv == TypeOK /\ SizeInv /\ FlashInv /\ CopyInv /\ WriteInv /\ FlagInv /\ SavedReadsBack

-----------------------------------------------------------------------------
(* Sizes and addresses. *)

LEMMA SizesType ==
    ASSUME flagged \in BOOLEAN
    PROVE  Sizes \subseteq 1..FlashSize /\ OwnSize \in Sizes
BY SizeAssumption DEF Sizes, OwnSize

(* The bytes of a key that fits are in the copy. *)
LEMMA FitsInside ==
    ASSUME NEW b \in Addresses, NEW n \in Sizes, Fits(b), flagged \in BOOLEAN
    PROVE  \A j \in 0..(KeyLen - 1) : b + j < n /\ b + j \in Cells
<1>1. n \in Nat /\ n <= FlashSize
    BY SizesType, SizeAssumption
<1>2. b + KeyLen <= n
    BY DEF Fits, Sizes
<1>. QED
    BY <1>1, <1>2, KeyLenAssumption, AddressesAssumption, SizeAssumption DEF Cells

(* Keys that do not overlap have no byte in common. *)
LEMMA Apart ==
    ASSUME NEW a \in Addresses, NEW b \in Addresses, ~Overlap(b, a),
           NEW j \in 0..(KeyLen - 1), NEW k \in 0..(KeyLen - 1)
    PROVE  b + j # a + k
BY KeyLenAssumption, AddressesAssumption DEF Overlap

LEMMA PutType ==
    ASSUME saved \in [Addresses -> Keys \cup {NoKey}], NEW a \in Addresses,
           NEW k \in Keys \cup {NoKey}
    PROVE  Put(a, k) \in [Addresses -> Keys \cup {NoKey}]
BY DEF Put

-----------------------------------------------------------------------------
(* Each step keeps the invariant. *)

LEMMA InitIInv == Init => IInv
<1>. SUFFICES ASSUME Init PROVE IInv
    OBVIOUS
<1>1. \A b \in Addresses : saved[b] = NoKey
    BY DEF Init, NewBoard
<1>2. Erased \in Bytes /\ Zero \in Bytes
    BY DEF Bytes
<1>3. TypeOK
    <2>1. flash \in [Cells -> Bytes] /\ ram \in [Cells -> Bytes]
          /\ buf \in [0..(KeyLen - 1) -> Bytes]
        BY <1>2 DEF Init, NewBoard, Blank, NoBuf
    <2>2. size \in 0..FlashSize /\ i \in 0..KeyLen /\ saves \in 0..MaxSaves
        BY SizeAssumption, KeyLenAssumption, MaxSavesAssumption DEF Init, NewBoard
    <2>3. saved \in [Addresses -> Keys \cup {NoKey}]
        BY DEF Init, NewBoard
    <2>. QED  BY <2>1, <2>2, <2>3 DEF Init, NewBoard, TypeOK
<1>. QED
    BY <1>1, <1>3 DEF Init, NewBoard, IInv, SizeInv, FlashInv, CopyInv, WriteInv, FlagInv,
       SavedReadsBack, Kept

(* Initialize: the copy becomes the flash, the first time. *)
LEMMA InitializeCopy ==
    ASSUME IInv, pc = "idle", NEW n \in Sizes, InitializeTo(n), UNCHANGED flashVars
    PROVE  /\ size' \in Sizes /\ size' # 0 /\ size' \in 0..FlashSize
           /\ ram' \in [Cells -> Bytes] /\ ramFlag' = flashFlag' /\ ramFlag' \in BOOLEAN
           /\ \A b \in Addresses : Kept(b) => Holds(ram', b)
<1>1. flagged \in BOOLEAN /\ n \in 1..FlashSize
    BY SizesType DEF IInv, TypeOK
<1>2. CASE size = 0
    BY <1>1, <1>2 DEF InitializeTo, IInv, TypeOK, FlashInv, flashVars
<1>3. CASE size # 0
    BY <1>1, <1>3 DEF InitializeTo, copyVars, flashVars, IInv, TypeOK, SizeInv,
       CopyInv, FlagInv
<1>. QED  BY <1>2, <1>3

LEMMA SketchInitializeIInv ==
    ASSUME IInv, NEW n \in SketchSizes, SketchInitialize(n)
    PROVE  IInv'
<1>1. /\ pc = "idle" /\ ~flagged /\ UNCHANGED flashVars /\ InitializeTo(n) /\ n \in Sizes
      /\ UNCHANGED <<flagged, flash, flashFlag, pc, addr, key, i, saved, saves, ret, id, buf>>
    BY DEF SketchInitialize, flashVars, readVars, Sizes
<1>2. /\ size' \in Sizes /\ size' # 0 /\ size' \in 0..FlashSize
      /\ ram' \in [Cells -> Bytes] /\ ramFlag' = flashFlag' /\ ramFlag' \in BOOLEAN
      /\ \A b \in Addresses : Kept(b) => Holds(ram', b)
    BY <1>1, InitializeCopy
<1>3. TypeOK'
    BY <1>1, <1>2 DEF IInv, TypeOK
<1>4. SizeInv' /\ FlashInv' /\ CopyInv' /\ WriteInv' /\ FlagInv' /\ SavedReadsBack'
    BY <1>1, <1>2
       DEF IInv, SizeInv, Sizes, OwnSize, FlashInv, CopyInv, WriteInv, FlagInv,
           SavedReadsBack, Kept, Fits, Holds
<1>. QED  BY <1>3, <1>4 DEF IInv

LEMMA SaveIInv ==
    ASSUME IInv, NEW a \in Addresses, NEW k \in Keys, Save(a, k)
    PROVE  IInv'
<1>1. /\ pc = "idle" /\ pc' = "write" /\ UNCHANGED flashVars /\ InitializeTo(OwnSize)
      /\ addr' = a /\ key' = k /\ i' = 0 /\ ret' = "NONE" /\ id' = 0 /\ buf' = NoBuf
      /\ saves' = saves + 1 /\ saves < MaxSaves
      /\ UNCHANGED <<flagged, flash, flashFlag, saved>>
    BY DEF Save, flashVars
<1>2. OwnSize \in Sizes
    BY DEF Sizes
<1>3. /\ size' \in Sizes /\ size' # 0 /\ size' \in 0..FlashSize
      /\ ram' \in [Cells -> Bytes] /\ ramFlag' = flashFlag' /\ ramFlag' \in BOOLEAN
      /\ \A b \in Addresses : Kept(b) => Holds(ram', b)
    BY <1>1, <1>2, InitializeCopy
<1>4. buf' \in [0..(KeyLen - 1) -> Bytes]
    BY <1>1 DEF NoBuf, Bytes
<1>5. i' \in 0..KeyLen /\ saves' \in 0..MaxSaves
    BY <1>1, KeyLenAssumption, MaxSavesAssumption DEF IInv, TypeOK
<1>6. TypeOK'
    BY <1>1, <1>3, <1>4, <1>5 DEF IInv, TypeOK
<1>7. SizeInv' /\ FlashInv' /\ CopyInv' /\ FlagInv' /\ SavedReadsBack'
    BY <1>1, <1>3
       DEF IInv, SizeInv, Sizes, OwnSize, FlashInv, CopyInv, FlagInv,
           SavedReadsBack, Kept, Fits, Holds
<1>8. WriteInv'
    BY <1>1, <1>3, KeyLenAssumption DEF WriteInv
<1>. QED  BY <1>6, <1>7, <1>8 DEF IInv

(* A byte is written: to a cell of this key, which no other key that is kept *)
(* and does not overlap it has.                                              *)
LEMMA WriteByteIInv ==
    ASSUME IInv, WriteByte
    PROVE  IInv'
<1>1. /\ pc = "write" /\ pc' \in {"write", "commit"} /\ addr \in Addresses
      /\ key \in Keys /\ i \in 0..(KeyLen - 1) /\ i' = i + 1
      /\ (pc' = "write" => i' < KeyLen) /\ (pc' # "write" => i' = KeyLen)
      /\ size \in Sizes /\ size # 0 /\ size \in 1..FlashSize /\ ret = "NONE"
      /\ ram \in [Cells -> Bytes]
      /\ UNCHANGED <<flagged, flash, flashFlag, size, ramFlag, addr, key, saved,
                     saves, ret, id, buf>>
    BY KeyLenAssumption, SizeAssumption
       DEF WriteByte, flashVars, readVars, IInv, TypeOK, SizeInv, WriteInv
<1>2. addr \in Nat
    BY <1>1, AddressesAssumption
<1>3. ram' = IF addr + i < size THEN [ram EXCEPT ![addr + i] = <<key, i>>] ELSE ram
    BY DEF WriteByte
<1>4. ram' \in [Cells -> Bytes]
    <2>1. <<key, i>> \in Bytes
        BY <1>1 DEF Bytes
    <2>. QED  BY <1>1, <1>3, <2>1
<1>5. \A c \in Cells : c # addr + i => ram'[c] = ram[c]
    BY <1>1, <1>3
<1>6. addr + i < size => ram'[addr + i] = <<key, i>>
    <2>1. addr + i < size => addr + i \in Cells
        BY <1>1, <1>2, SizeAssumption, KeyLenAssumption DEF Cells
    <2>. QED  BY <1>1, <1>3, <2>1
<1>7. TypeOK'
    <2>1. i' \in 0..KeyLen
        BY <1>1, KeyLenAssumption
    <2>. QED  BY <1>1, <1>4, <2>1 DEF IInv, TypeOK
<1>8. CopyInv'
    <2>. SUFFICES ASSUME NEW b \in Addresses, Kept(b), ~Overlap(b, addr),
                         NEW j \in 0..(KeyLen - 1)
                  PROVE  ram'[b + j] = <<saved[b], j>>
        BY <1>1 DEF CopyInv, Kept, Fits, OwnSize, Holds
    <2>1. b + j # addr + i
        BY <1>1, Apart
    <2>2. b + j \in Cells
        BY <1>1, FitsInside DEF Kept, IInv, TypeOK
    <2>3. ram[b + j] = <<saved[b], j>>
        BY <1>1 DEF IInv, CopyInv, Holds
    <2>. QED  BY <1>5, <2>1, <2>2, <2>3
<1>9. WriteInv'
    <2>. SUFFICES ASSUME NEW j \in 0..(KeyLen - 1), j < i + 1, addr + j < size
                  PROVE  ram'[addr + j] = <<key, j>>
        BY <1>1 DEF WriteInv
    <2>1. CASE j = i
        BY <1>6, <2>1
    <2>2. CASE j # i
        <3>1. j < i /\ addr + j # addr + i
            BY <1>1, <1>2, <2>2, KeyLenAssumption
        <3>2. addr + j \in Cells
            BY <1>1, <1>2, SizeAssumption, KeyLenAssumption DEF Cells
        <3>3. ram[addr + j] = <<key, j>>
            BY <1>1, <3>1 DEF IInv, WriteInv
        <3>. QED  BY <1>5, <3>1, <3>2, <3>3
    <2>. QED  BY <2>1, <2>2
<1>10. SizeInv' /\ FlashInv' /\ FlagInv' /\ SavedReadsBack'
    BY <1>1 DEF IInv, SizeInv, Sizes, OwnSize, FlashInv, FlagInv, SavedReadsBack,
       Kept, Fits, Holds
<1>. QED  BY <1>7, <1>8, <1>9, <1>10 DEF IInv

LEMMA CommitErasesIInv ==
    ASSUME IInv, CommitErases
    PROVE  IInv'
<1>1. /\ pc = "commit" /\ pc' = "program" /\ flash' = Blank /\ flashFlag' = TRUE
      /\ ramFlag' = TRUE /\ ret = "NONE"
      /\ UNCHANGED <<flagged, size, ram, addr, key, i, saved, saves, ret, id, buf>>
    BY DEF CommitErases, readVars, IInv, WriteInv
<1>2. flash' \in [Cells -> Bytes]
    BY <1>1 DEF Blank, Bytes
<1>3. TypeOK'
    BY <1>1, <1>2 DEF IInv, TypeOK
<1>4. SizeInv' /\ FlashInv' /\ CopyInv' /\ WriteInv' /\ FlagInv' /\ SavedReadsBack'
    BY <1>1 DEF IInv, SizeInv, Sizes, OwnSize, FlashInv, CopyInv, WriteInv, FlagInv,
       SavedReadsBack, Kept, Fits, Holds
<1>. QED  BY <1>3, <1>4 DEF IInv

(* The start of the copy, programmed into the flash, is bytes. *)
LEMMA ProgramType ==
    ASSUME TypeOK, NEW n \in Nat, Program(n)
    PROVE  flash' \in [Cells -> Bytes]
BY DEF Program, TypeOK, Bytes

(* The flash is the copy: it has the new key, and the others that are kept. *)
LEMMA CommitProgramsIInv ==
    ASSUME IInv, CommitPrograms
    PROVE  IInv'
<1>1. /\ pc = "program" /\ pc' = "idle" /\ Program(size) /\ saved' = Put(addr, key)
      /\ size \in Sizes /\ size # 0 /\ size \in 1..FlashSize
      /\ addr \in Addresses /\ key \in Keys /\ i = KeyLen /\ ret = "NONE" /\ flashFlag
      /\ flagged \in BOOLEAN
      /\ UNCHANGED <<flagged, flashFlag, size, ram, ramFlag, addr, key, i, saves, ret, id, buf>>
    BY SizeAssumption
       DEF CommitPrograms, copyVars, readVars, IInv, TypeOK, SizeInv, WriteInv, FlagInv
<1>2. flash' \in [Cells -> Bytes]
    BY <1>1, ProgramType DEF IInv
<1>3. saved' \in [Addresses -> Keys \cup {NoKey}]
    BY <1>1, PutType DEF IInv, TypeOK
<1>4. TypeOK'
    BY <1>1, <1>2, <1>3 DEF IInv, TypeOK
<1>5. ASSUME NEW b \in Addresses, saved'[b] # NoKey, Fits(b), NEW j \in 0..(KeyLen - 1)
      PROVE  ram[b + j] = <<saved'[b], j>> /\ flash'[b + j] = <<saved'[b], j>>
    <2>1. b + j < size /\ b + j \in Cells
        BY <1>1, <1>5, FitsInside
    <2>2. ram[b + j] = <<saved'[b], j>>
        <3>1. CASE b = addr
            <4>1. saved'[b] = key
                BY <1>1, <3>1 DEF Put
            <4>2. j < i
                BY <1>1, KeyLenAssumption
            <4>. QED  BY <1>1, <2>1, <3>1, <4>1, <4>2 DEF IInv, WriteInv
        <3>2. CASE b # addr
            <4>1. ~Overlap(b, addr) /\ saved'[b] = saved[b]
                BY <1>1, <1>5, <3>2 DEF Put, Overlap
            <4>2. Kept(b)
                BY <1>5, <4>1 DEF Kept
            <4>. QED  BY <1>1, <4>1, <4>2 DEF IInv, CopyInv, Holds
        <3>. QED  BY <3>1, <3>2
    <2>3. flash'[b + j] = ram[b + j]
        BY <1>1, <2>1 DEF Program
    <2>. QED  BY <2>2, <2>3
<1>6. FlashInv' /\ CopyInv'
    BY <1>1, <1>5 DEF FlashInv, CopyInv, Kept, Fits, OwnSize, Holds
<1>7. SizeInv' /\ WriteInv' /\ FlagInv' /\ SavedReadsBack'
    BY <1>1 DEF IInv, SizeInv, Sizes, OwnSize, WriteInv, FlagInv, SavedReadsBack
<1>. QED  BY <1>4, <1>6, <1>7 DEF IInv

(* commit() failed: what the save would have overwritten is given up. *)
LEMMA CommitFailsIInv ==
    ASSUME IInv, CommitFails
    PROVE  IInv'
<1>1. /\ pc = "commit" /\ pc' = "idle" /\ saved' = Put(addr, NoKey)
      /\ addr \in Addresses /\ ret = "NONE"
      /\ UNCHANGED <<flagged, flash, flashFlag, size, ram, ramFlag, addr, key, i,
                     saves, ret, id, buf>>
    BY DEF CommitFails, flashVars, copyVars, readVars, IInv, WriteInv
<1>2. saved' \in [Addresses -> Keys \cup {NoKey}]
    BY <1>1, PutType DEF IInv, TypeOK
<1>3. TypeOK'
    BY <1>1, <1>2 DEF IInv, TypeOK
<1>4. \A b \in Addresses : saved'[b] # NoKey => saved'[b] = saved[b] /\ ~Overlap(b, addr)
    BY <1>1 DEF Put, Overlap
<1>5. FlashInv' /\ CopyInv' /\ FlagInv'
    BY <1>1, <1>4 DEF IInv, FlashInv, CopyInv, FlagInv, Kept, Fits, OwnSize, Holds
<1>6. SizeInv' /\ WriteInv' /\ SavedReadsBack'
    BY <1>1 DEF IInv, SizeInv, Sizes, OwnSize, WriteInv, SavedReadsBack
<1>. QED  BY <1>3, <1>5, <1>6 DEF IInv

(* Or it failed when the flash was erased: every key is given up. *)
LEMMA ProgramFailsIInv ==
    ASSUME IInv, ProgramFails
    PROVE  IInv'
<1>1. /\ pc = "program" /\ pc' = "idle" /\ saved' = [a \in Addresses |-> NoKey]
      /\ ret = "NONE"
      /\ UNCHANGED <<flagged, flashFlag, size, ram, ramFlag, addr, key, i,
                     saves, ret, id, buf>>
    BY DEF ProgramFails, copyVars, readVars, IInv, WriteInv
<1>2. PICK n \in 0..size : Program(n)
    BY DEF ProgramFails
<1>3. flash' \in [Cells -> Bytes]
    BY <1>2, ProgramType, SizeAssumption DEF IInv, TypeOK
<1>4. TypeOK'
    BY <1>1, <1>3 DEF IInv, TypeOK
<1>5. FlashInv' /\ CopyInv' /\ FlagInv'
    BY <1>1 DEF IInv, FlashInv, CopyInv, FlagInv, Kept
<1>6. SizeInv' /\ WriteInv' /\ SavedReadsBack'
    BY <1>1 DEF IInv, SizeInv, Sizes, OwnSize, WriteInv, SavedReadsBack
<1>. QED  BY <1>4, <1>5, <1>6 DEF IInv

(* The power fails: the copy is gone, and in a commit so is every key. *)
LEMMA PowerFailsIInv ==
    ASSUME IInv, PowerFails
    PROVE  IInv'
<1>1. /\ size' = 0 /\ ram' = Blank /\ ramFlag' = FALSE /\ pc' = "idle"
      /\ UNCHANGED <<flagged, flashFlag, addr, key, i, saves, ret, id, buf>>
    BY DEF PowerFails, readVars
<1>2. ram' \in [Cells -> Bytes] /\ size' \in 0..FlashSize
    BY <1>1, SizeAssumption DEF Blank, Bytes
<1>3. CASE pc = "program"
    <2>1. PICK n \in 0..size : Program(n)
        BY <1>3 DEF PowerFails
    <2>2. flash' \in [Cells -> Bytes]
        BY <2>1, ProgramType, SizeAssumption DEF IInv, TypeOK
    <2>3. saved' = [a \in Addresses |-> NoKey] /\ ret = "NONE"
        BY <1>3 DEF PowerFails, IInv, WriteInv
    <2>4. TypeOK'
        BY <1>1, <1>2, <2>2, <2>3 DEF IInv, TypeOK
    <2>. QED
        BY <1>1, <2>3, <2>4
           DEF IInv, SizeInv, FlashInv, CopyInv, WriteInv, FlagInv, SavedReadsBack, Kept
<1>4. CASE pc # "program"
    <2>1. UNCHANGED <<flash, saved>>
        BY <1>4 DEF PowerFails
    <2>2. TypeOK'
        BY <1>1, <1>2, <2>1 DEF IInv, TypeOK
    <2>. QED
        BY <1>1, <1>4, <2>1, <2>2
           DEF IInv, SizeInv, FlashInv, CopyInv, WriteInv, FlagInv, SavedReadsBack,
               Kept, Fits, OwnSize, Holds
<1>. QED  BY <1>3, <1>4

(* A read gives what the copy has, which is the key that was kept. *)
LEMMA ReadIInv ==
    ASSUME IInv, NEW a \in Addresses, Read(a)
    PROVE  IInv'
<1>1. /\ pc = "idle" /\ UNCHANGED flashVars /\ InitializeTo(OwnSize) /\ id' = a
      /\ UNCHANGED <<flagged, flash, flashFlag, pc, addr, key, i, saved, saves>>
    BY DEF Read, flashVars
<1>2. OwnSize \in Sizes /\ flagged \in BOOLEAN
    BY DEF Sizes, IInv, TypeOK
<1>3. /\ size' \in Sizes /\ size' # 0 /\ size' \in 0..FlashSize
      /\ ram' \in [Cells -> Bytes] /\ ramFlag' = flashFlag' /\ ramFlag' \in BOOLEAN
      /\ \A b \in Addresses : Kept(b) => Holds(ram', b)
    BY <1>1, <1>2, InitializeCopy
<1>4. ret' \in {"SUCCESS", "ERROR_STORAGE_EMPTY"} /\ buf' \in [0..(KeyLen - 1) -> Bytes]
    <2>1. CASE flagged /\ ~ramFlag'
        BY <2>1 DEF Read, NoBuf, Bytes
    <2>2. CASE ~(flagged /\ ~ramFlag')
        <3>1. \A j \in 0..(KeyLen - 1) : a + j < size' => a + j \in Cells
            BY <1>3, AddressesAssumption, KeyLenAssumption, SizeAssumption DEF Cells
        <3>2. Zero \in Bytes
            BY DEF Bytes
        <3>. QED  BY <1>3, <2>2, <3>1, <3>2 DEF Read
    <2>. QED  BY <2>1, <2>2
<1>5. TypeOK'
    BY <1>1, <1>3, <1>4 DEF IInv, TypeOK
<1>6. SavedReadsBack'
    <2>. SUFFICES ASSUME Kept(a)
                  PROVE  /\ ret' = "SUCCESS"
                         /\ buf' = [j \in 0..(KeyLen - 1) |-> <<saved[a], j>>]
        BY <1>1 DEF SavedReadsBack, Kept, Fits, OwnSize
    <2>1. ramFlag'
        BY <1>1, <1>3 DEF IInv, FlagInv, Kept
    <2>2. \A j \in 0..(KeyLen - 1) : a + j < size' /\ ram'[a + j] = <<saved[a], j>>
        BY <1>2, <1>3, FitsInside DEF Kept, Holds
    <2>. QED  BY <2>1, <2>2 DEF Read
<1>7. SizeInv' /\ FlashInv' /\ CopyInv' /\ WriteInv' /\ FlagInv'
    BY <1>1, <1>3
       DEF IInv, SizeInv, Sizes, OwnSize, FlashInv, CopyInv, WriteInv, FlagInv,
           Kept, Fits, Holds
<1>. QED  BY <1>5, <1>6, <1>7 DEF IInv

LEMMA NextIInv == IInv /\ [Next]_vars => IInv'
<1>. SUFFICES ASSUME IInv, [Next]_vars PROVE IInv'
    OBVIOUS
<1>1. CASE UNCHANGED vars
    BY <1>1 DEF vars, IInv, TypeOK, SizeInv, Sizes, OwnSize, FlashInv, CopyInv,
       WriteInv, FlagInv, SavedReadsBack, Kept, Fits, Holds
<1>. QED
    BY <1>1, SketchInitializeIInv, SaveIInv, WriteByteIInv, CommitErasesIInv,
       CommitProgramsIInv, CommitFailsIInv, ProgramFailsIInv, PowerFailsIInv, ReadIInv DEF Next

(* Every reachable state satisfies the inductive invariant. *)
THEOREM EepromInvariant == Spec => []IInv
<1>. QED  BY InitIInv, NextIInv, PTL DEF Spec

-----------------------------------------------------------------------------
(* What follows from it. *)

(* Every variable of both storages keeps its type: no byte is written        *)
(* outside of the copy, however small the sketch made it.                    *)
THEOREM EepromTypeCorrect == Spec => []TypeOK
<1>1. IInv => TypeOK
    BY DEF IInv
<1>. QED  BY <1>1, EepromInvariant, PTL

(* A committed key that fits reads back, on both boards, after any history   *)
(* of saves, failed commits, restarts and power failures.                    *)
THEOREM KeysReadBack == Spec => []SavedReadsBack
<1>1. IInv => SavedReadsBack
    BY DEF IInv
<1>. QED  BY <1>1, EepromInvariant, PTL
-----------------------------------------------------------------------------
(* A program has the storage of one platform for all of its life, so that     *)
(* what is proved of either holds of it.                                      *)
THEOREM PlatformHasOne ==
    PlatformSpec => \/ [](platform = "os") /\ FSpec
                    \/ [](platform = "board") /\ Spec
<1>1. PlatformInit => \/ platform = "os" /\ FInit
                      \/ platform = "board" /\ Init
    BY DEF PlatformInit
<1>2. platform = "os" /\ [PlatformNext]_platformVars => (platform = "os")' /\ [FNext]_fVars
    <2>1. platform = "os" /\ PlatformNext => platform' = "os" /\ FNext
        BY DEF PlatformNext, OnOs, OnBoard
    <2>2. UNCHANGED platformVars => UNCHANGED platform /\ UNCHANGED fVars
        BY DEF platformVars, sharedVars, osOnly, fVars
    <2>. QED  BY <2>1, <2>2
<1>3. platform = "board" /\ [PlatformNext]_platformVars => (platform = "board")' /\ [Next]_vars
    <2>1. platform = "board" /\ PlatformNext => platform' = "board" /\ Next
        BY DEF PlatformNext, OnOs, OnBoard
    <2>2. UNCHANGED platformVars => UNCHANGED platform /\ UNCHANGED vars
        BY DEF platformVars, sharedVars, boardOnly, flashVars, copyVars, vars
    <2>. QED  BY <2>1, <2>2
<1>. QED  BY <1>1, <1>2, <1>3, PTL DEF PlatformSpec, FSpec, Spec

(* Wherever a save was killed or ran out of room, a read that succeeds gives  *)
(* the whole of the key saved last.                                           *)
THEOREM FileReadsAreWhole == PlatformSpec => []OsNoTornKey
<1>1. NoTornKey \/ platform # "os" => OsNoTornKey
    BY DEF OsNoTornKey
<1>2. platform = "board" => platform # "os"
    OBVIOUS
<1>. QED  BY <1>1, <1>2, PlatformHasOne, ReadsAreWhole, PTL

(* A committed key that fits reads back, on both boards, after any history    *)
(* of saves, failed commits, restarts and power failures.                     *)
THEOREM BoardsReadBack == PlatformSpec => []BoardReadsBack
<1>1. SavedReadsBack \/ platform # "board" => BoardReadsBack
    BY DEF BoardReadsBack
<1>2. platform = "os" => platform # "board"
    OBVIOUS
<1>. QED  BY <1>1, <1>2, PlatformHasOne, KeysReadBack, PTL
=============================================================================
