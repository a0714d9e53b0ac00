----------------------------- MODULE FileStorage ----------------------------
(***************************************************************************)
(* The private key of the OS build, in a file (storage/os/storage.cpp).    *)
(* savePrivateKey truncates the file when it opens it and writes the key   *)
(* when it closes it; nobody looks at how much was written.  The process   *)
(* may be killed between any two steps.  A file is the sequence of bytes   *)
(* in it, and byte i of key k is <<k, i>>.                                 *)
(***************************************************************************)
EXTENDS Storage, Sequences

VARIABLES
    exists,     \* the file exists
    file,       \* its bytes
    stdio,      \* bytes fwrite has left to fclose
    saveRet     \* what the latest save returned, "NONE" if it never did

fileVars == <<exists, file>>
fReadVars == <<ret, buf>>
fVars == <<pc, exists, file, key, stdio, saves, saveRet, ret, buf>>

\* The first n bytes of key k.
KeyBytes(k, n) == [i \in 1..n |-> <<k, i>>]

NoFile ==
    /\ exists = FALSE
    /\ file = <<>>
    /\ stdio = <<>>
    /\ saveRet = "NONE"

FInit ==
    /\ NoFile
    /\ pc = "idle"
    /\ key \in Keys
    /\ saves = 0
    /\ ret = "NONE"
    /\ buf = <<>>

EnterSave(k) ==
    /\ pc = "idle"
    /\ saves < MaxSaves
    /\ saves' = saves + 1
    /\ ret' = "NONE"
    /\ buf' = <<>>

\* fopen(path, "wb") fails.
OpenFails ==
    /\ \E k \in Keys : EnterSave(k)
    /\ saveRet' = "ERROR_STORAGE_OPEN"
    /\ UNCHANGED <<pc, fileVars, key, stdio>>

\* Fault: fopen(path, "ab").
OpenAppends(k) ==
    /\ EnterSave(k)
    /\ pc' = "write"
    /\ exists' = TRUE
    /\ key' = k
    /\ saveRet' = "NONE"
    /\ UNCHANGED <<file, stdio>>

\* fopen(path, "wb"): the old key is gone.
OpenTruncates(k) ==
    /\ EnterSave(k)
    /\ pc' = "write"
    /\ exists' = TRUE
    /\ file' = <<>>
    /\ key' = k
    /\ saveRet' = "NONE"
    /\ UNCHANGED stdio

\* fwrite into the buffer of the stream.
Write ==
    /\ pc = "write"
    /\ pc' = "close"
    /\ stdio' = KeyBytes(key, KeyLen)
    /\ UNCHANGED <<fileVars, key, saves, saveRet, fReadVars>>

\* fclose writes the buffer out, all of it or what there is room for.
Close ==
    /\ pc = "close"
    /\ pc' = "idle"
    /\ \E n \in 0..KeyLen : file' = file \o SubSeq(stdio, 1, n)
    /\ stdio' = <<>>
    /\ saveRet' = "SUCCESS"
    /\ UNCHANGED <<exists, key, saves, fReadVars>>

\* The process is killed inside of savePrivateKey: what was in the buffer of
\* the stream is lost, or part of it was written.
Killed ==
    /\ pc # "idle"
    /\ pc' = "idle"
    /\ \E n \in 0..Len(stdio) : file' = file \o SubSeq(stdio, 1, n)
    /\ stdio' = <<>>
    /\ UNCHANGED <<exists, key, saves, saveRet, fReadVars>>

FirstBytes(s) == SubSeq(s, 1, IF Len(s) < KeyLen THEN Len(s) ELSE KeyLen)

\* readPrivateKey; the buffer is zeroed first and holds what fread got.
FRead ==
    /\ pc = "idle"
    /\ ret = "NONE"
    /\ IF ~exists
       THEN ret' = "ERROR_STORAGE_OPEN" /\ buf' = <<>>
       ELSE /\ buf' = FirstBytes(file)
            /\ ret' = IF Len(buf') = KeyLen
                      THEN "SUCCESS"
                      ELSE "ERROR_STORAGE_BAD_READ"
    /\ UNCHANGED <<pc, fileVars, key, stdio, saves, saveRet>>

FNext ==
    \/ OpenFails
    \/ \E k \in Keys : OpenTruncates(k)
    \/ Write
    \/ Close
    \/ Killed
    \/ FRead

FSpec == FInit /\ [][FNext]_fVars

-----------------------------------------------------------------------------
(* Properties *)

FTypeOK ==
    /\ pc \in {"idle", "write", "close"}
    /\ exists \in BOOLEAN
    /\ file \in Seq(Keys \X (1..KeyLen))
    /\ key \in Keys
    /\ stdio \in Seq(Keys \X (1..KeyLen))
    /\ saves \in 0..MaxSaves
    /\ saveRet \in {"NONE", "SUCCESS", "ERROR_STORAGE_OPEN"}
    /\ ret \in {"NONE", "SUCCESS", "ERROR_STORAGE_OPEN", "ERROR_STORAGE_BAD_READ"}
    /\ buf \in Seq(Keys \X (1..KeyLen))

\* A read that succeeds gives the whole of the key saved last, never a mix of
\* two keys or a key an earlier save left: wherever a save was killed or ran
\* out of room, what remains is too short for readPrivateKey.
NoTornKey == ret = "SUCCESS" => buf = KeyBytes(key, KeyLen)
=============================================================================
