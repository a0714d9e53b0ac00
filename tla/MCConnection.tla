---------------------------- MODULE MCConnection ----------------------------
(***************************************************************************)
(* A small instance of Connection and of Wallets below it: two calls, of   *)
(* any kind, answered in every way RepliesTo lists, with bodies of two     *)
(* units; the host is set up to twice, before, between and after them.     *)
(* Texts of up to 2 characters fit, a port has 2 digits, and an unsigned   *)
(* ends at 1000, so that -1 is a port that is cut.                         *)
(***************************************************************************)
EXTENDS Connection

MCKinds == UNION {RepliesTo(o) : o \in Ops}

\* The header is one unit; the first '{' of a page is in the middle of it.
MCStart == [k \in MCKinds |->
    IF k.fault \in HeaderFaults THEN 0 ELSE IF k = NotJson THEN 2 ELSE 1]
MCNames == {<<"a">>, <<"b", "c">>, <<"a", "b", "c", "d">>}
MCPorts == {7, 80}
MCBases == {<<>>, <<"y", "z">>, <<"x", "y", "z">>}
MCGarbage == <<"g", "g", "g", NUL>>
=============================================================================
