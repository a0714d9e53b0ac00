------------------------------ MODULE Session -------------------------------
(***************************************************************************)
(* A sketch of src/examples, from power-up: it waits for the WiFi, asks    *)
(* the chain for the nonce of the account (Wallets::getAccount), sends an  *)
(* action with it (ActionSend) and prints what became of it.  While it     *)
(* does, another board with the same key may get actions to the chain.     *)
(*                                                                         *)
(* prog is the sketch: "SendTransfer", "ContractAddData" and "Xrc20Send"   *)
(* send one action and stop in an endless loop, "Xrc20Multiple" sends      *)
(* again and again, and "CommandLine" does what the user types.  "Own" is  *)
(* an application that calls the library in any way ActionSend allows.     *)
(*                                                                         *)
(* WiFi, serial port and user are external.                                *)
(***************************************************************************)
EXTENDS ActionSend

CONSTANT Programs   \* the sketches that are looked at

ASSUME ProgramsAssumption ==
    Programs \subseteq {"SendTransfer", "ContractAddData", "Xrc20Send",
                        "Xrc20Multiple", "CommandLine", "Own"}

VARIABLES
    prog,       \* the sketch on the board
    step,       \* "wifi", "begin", "nonce", "sending" or "halt"
    meta,       \* atoi of pendingNonce in accMeta; 0 is that of an empty one
    answered,   \* history: the latest getAccount succeeded
    before,     \* history: length of accepted when the command began
    reads,      \* history: the sends whose command had read the account
    shown       \* the result the sketch printed last

sessionVars == <<prog, step, meta, answered, before, reads, shown>>
allVars == <<vars, sessionVars>>

SInit ==
    /\ Init
    /\ prog \in Programs
    /\ step = "wifi"
    /\ meta = 0
    /\ answered = FALSE
    /\ before = 0
    /\ reads = {}
    /\ shown = "NONE"

\* initWiFi: setup() waits until the WiFi is connected.
Connected ==
    /\ step = "wifi"
    /\ step' = "begin"
    /\ UNCHANGED <<vars, prog, meta, answered, before, reads, shown>>

\* A new AccountMeta is a local of every pass of loop() and of every command.
Ask(n, ok) ==
    /\ step = "begin"
    /\ prog # "Own"
    /\ Len(asked) < MaxSends
    /\ step' = "nonce"
    /\ meta' = n
    /\ answered' = ok
    /\ before' = Len(accepted)
    /\ shown' = "NONE"
    /\ UNCHANGED <<vars, prog, reads>>

AskAnswered == Ask(Pending, TRUE)

\* Fault: the AccountMeta is a global, and keeps what it had.
AskFailsStale == Ask(meta, FALSE)

\* The result is printed at most, and pendingNonce is empty.
AskFails == Ask(0, FALSE)

\* The action goes out with the nonce, whatever getAccount returned.
SendWith(a) ==
    /\ step = "nonce"
    /\ step' = "sending"
    /\ Send(a, meta, 0)
    /\ reads' = IF answered THEN reads \cup {Len(asked')} ELSE reads
    /\ UNCHANGED <<prog, meta, answered, before, shown>>

\* loop() of SendTransfer.
TransferSends(a) ==
    /\ prog = "SendTransfer"
    /\ a.kind = "transfer"
    /\ SendWith(a)

\* loop() of ContractAddData, with the call data of its contract, which is
\* empty when generateCallData refused.
AddDataSends(a) ==
    /\ prog = "ContractAddData"
    /\ a.kind = "execution" /\ a.form = "hex"
    /\ SendWith(a)

\* loop() of the two XRC20 sketches: a selector and two words, from hex2str.
TokenSends(a) ==
    /\ prog \in {"Xrc20Send", "Xrc20Multiple"}
    /\ a.kind = "execution" /\ a.form = "hex" /\ a.data > 0
    /\ SendWith(a)

\* The commands SendTransfer, SendTokenTransfer and AddData of the menu.
CommandSends(a) ==
    /\ prog = "CommandLine"
    /\ a.form = "hex"
    /\ SendWith(a)

\* Fault: only a failure of the transport is shown as one.
ReportTransport ==
    /\ step = "sending"
    /\ pc = "idle"
    /\ step' = IF prog \in {"Xrc20Multiple", "CommandLine"} THEN "begin" ELSE "halt"
    /\ shown' = IF ret = "ERROR_HTTP" THEN ret ELSE "SUCCESS"
    /\ UNCHANGED <<vars, prog, meta, answered, before, reads>>

\* The result is printed; then the endless loop, the next pass or the menu.
Report ==
    /\ step = "sending"
    /\ pc = "idle"
    /\ step' = IF prog \in {"Xrc20Multiple", "CommandLine"} THEN "begin" ELSE "halt"
    /\ shown' = ret
    /\ UNCHANGED <<vars, prog, meta, answered, before, reads>>

\* An application of its own: any action, nonce and chain id, at any time.
OwnSends(a, n, c) ==
    /\ prog = "Own"
    /\ step = "begin"
    /\ Send(a, n, c)
    /\ UNCHANGED sessionVars

SendStep == Step /\ UNCHANGED sessionVars

Sends(a) == TransferSends(a) \/ AddDataSends(a) \/ TokenSends(a) \/ CommandSends(a)

SNext ==
    \/ Connected
    \/ AskAnswered
    \/ AskFails
    \/ \E a \in Actions : TransferSends(a)
    \/ \E a \in Actions : AddDataSends(a)
    \/ \E a \in Actions : TokenSends(a)
    \/ \E a \in Actions : CommandSends(a)
    \/ \E a \in Actions, n \in Nonces, c \in ChainIds \cup {0} : OwnSends(a, n, c)
    \/ SendStep
    \/ Report
    \/ (\E r \in late : LateArrives(r)) /\ UNCHANGED sessionVars
    \/ OthersSend /\ UNCHANGED sessionVars

\* loop() runs on, and a post returns in the end (NanoPost!PostReturns).
\* Nobody makes the WiFi, the user at the menu or the other board go on.
SessionFairness ==
    /\ WF_allVars(prog # "CommandLine" /\ (AskAnswered \/ AskFails))
    /\ WF_allVars(\E a \in Actions : Sends(a))
    /\ WF_allVars(SendStep)
    /\ WF_allVars(Report)

SSpec == SInit /\ [][SNext]_allVars /\ SessionFairness

-----------------------------------------------------------------------------
(* Properties *)

STypeOK ==
    /\ TypeOK
    /\ prog \in Programs
    /\ step \in {"wifi", "begin", "nonce", "sending", "halt"}
    /\ meta \in Nat
    /\ answered \in BOOLEAN
    /\ before \in 0..Len(accepted)
    /\ reads \subseteq DOMAIN asked
    /\ shown \in {"NONE", "SUCCESS", "ERROR_HTTP", "ERROR_JSON_PARSE", "ERROR_GRPC"}

\* What the user reads: "Transfer sent" is printed only when the chain took
\* the action of this very command, and took nothing else of this sketch since
\* the command began; nor will it, as long as that stands there: what earlier
\* commands gave up for lost can no longer be taken.  An error leaves it open:
\* the action may have been taken, or be taken later.
SuccessOnly ==
    shown = "SUCCESS" =>
        /\ Len(accepted) = before + 1
        /\ Last(accepted) = Len(asked)
        /\ answered

\* A sketch goes on when getAccount failed, without a nonce.  Nothing is ever
\* paid on such a command, nor with the nonce of an earlier one: the chain
\* takes an action of a sketch, in time or late, only when the account was read
\* for it.
PaidOnlyIfRead ==
    [][accepted' # accepted /\ prog # "Own" => Last(accepted') \in reads]_allVars

\* Whatever is lost, refused or sent by others, every sketch that has a
\* nonce to ask for comes to the report of what it sent; a menu command does
\* once the user has given it.
CommandEnds ==
    /\ step \in {"nonce", "sending"} ~> step \in {"begin", "halt"}
    /\ step = "begin" /\ prog \notin {"Own", "CommandLine"} /\ Len(asked) < MaxSends
        ~> step = "nonce"
=============================================================================
