----------------------------- MODULE MCSession ------------------------------
(***************************************************************************)
(* A small instance of Session and of ActionSend below it: three sends,    *)
(* and one of another board.  The buffer takes 4 bytes of data: there are a*)
(* transfer, executions without data, whose data fills the buffer, has one *)
(* byte too many, fits also with the prefix it has, fits but for that      *)
(* prefix, ends in half a byte, or is no hex.  Chain 1 is one a transfer   *)
(* may name.                                                               *)
(***************************************************************************)
EXTENDS Session

Execution(b, n, f) == [kind |-> "execution", body |-> b, data |-> n, form |-> f]

MCActions ==
    {[kind |-> "transfer", body |-> "t", data |-> 0, form |-> "hex"],
     Execution("a", 0, "hex"), Execution("a", 4, "hex"), Execution("a", 5, "hex"),
     Execution("a", 3, "0x"), Execution("a", 4, "0x"), Execution("a", 3, "odd"),
     Execution("a", 3, "bad")}

MCChainIds == {0, 1}
MCNonces == {1, 2}
MCPrograms ==
    {"SendTransfer", "ContractAddData", "Xrc20Send", "Xrc20Multiple", "CommandLine", "Own"}
=============================================================================
