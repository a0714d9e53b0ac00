------------------------------- MODULE Storage -------------------------------
(***************************************************************************)
(* What the Storage of storage/storage.h is on every platform: a call of   *)
(* savePrivateKey that may not come back, and a readPrivateKey whose       *)
(* result and buffer the caller looks at.  FileStorage is the one of the   *)
(* OS build, EepromStorage the two of the boards.                          *)
(***************************************************************************)
EXTENDS Naturals

CONSTANTS
    Keys,       \* private keys
    KeyLen,     \* IOTEX_PRIVATE_KEY_SIZE
    MaxSaves    \* bound: calls of savePrivateKey

ASSUME KeyLenAssumption == KeyLen \in Nat \ {0}
ASSUME MaxSavesAssumption == MaxSaves \in Nat

VARIABLES
    pc,         \* where savePrivateKey is, "idle" outside of it
    key,        \* the key of the latest save begun
    saves,      \* saves begun
    ret,        \* what the latest readPrivateKey returned
    buf         \* and what it left in the caller's buffer
=============================================================================
