----------------------------- MODULE Connection -----------------------------
(***************************************************************************)
(* A Connection<Api> (connection/connection.h): the host its requests go   *)
(* to (host/host.cpp, api/abstract.h, api/api.h), the URL a call makes of  *)
(* it (api/rpc.cpp), and the split of that URL in the transport of the     *)
(* Nano 33 IoT (http/nano33/http.cpp), composed with Wallets.              *)
(*                                                                         *)
(* A text is a sequence of characters.  The two arrays of Host are memory, *)
(* read up to the first NUL; a Connection that is a global, as in every    *)
(* sketch, starts with zeros in it, any other with what was there.         *)
(*                                                                         *)
(* connection.host, the second Host of a Connection, is set by the         *)
(* constructor and never read: a call of connection.host.set is a step     *)
(* that changes nothing here.                                              *)
(***************************************************************************)
EXTENDS Wallets, SequencesExt

CONSTANTS
    Names, Ports, Bases,    \* what a program passes to Host::set
    Garbage,                \* what the arrays hold when nobody zeroed them
    MaxLen,                 \* IP_MAX_STRING_LEN, BASEURL_MAX_STRING_LEN (128)
    PortChars,              \* characters of port_str without its NUL (5)
    UIntSize,               \* 2^32
    MaxSets                 \* bound: calls of setHost

NUL == "NUL"

\* The characters of the texts.
Chars == UNION {Range(t) : t \in Names \cup Bases}

ASSUME TextsAssumption == Names \cup Bases \subseteq Seq(Chars) /\ NUL \notin Chars
ASSUME ArraysAssumption ==
    MaxLen \in Nat /\ Garbage \in [1..MaxLen + 1 -> Range(Garbage)] /\ NUL \in Range(Garbage)
ASSUME MaxSetsAssumption == MaxSets \in Nat
\* An int is less than 2^32.
ASSUME PortsAssumption ==
    PortChars \in Nat /\ UIntSize \in Nat \ {0} /\ Ports \subseteq {p \in Int : p < UIntSize}

VARIABLES
    hostname, baseUrl,      \* _hostname and _baseUrl of the Host of the Api
    port,                   \* its _port
    url,                    \* the URL of the call under way
    up,                     \* the program runs: no null pointer was read
    sets,                   \* calls of setHost so far
    configured              \* history: what the latest setHost that was not
                            \* refused was given, <<>> before the first

hostVars == <<hostname, baseUrl, port>>
connectionVars == <<hostname, baseUrl, port, url, up, sets, configured>>
everyVar == <<allVars, connectionVars>>

Zeros == [i \in 1..MaxLen + 1 |-> NUL]

\* The text in an array of characters.
CString(m) ==
    SubSeq(m, 1, (CHOOSE i \in DOMAIN m : m[i] = NUL /\ \A j \in 1..i - 1 : m[j] # NUL) - 1)

CInit ==
    /\ WInit
    /\ hostname \in {Zeros, Garbage}
    /\ baseUrl = hostname
    /\ port = -1
    /\ url = <<>>
    /\ up = TRUE
    /\ sets = 0
    /\ configured = <<>>

\* Fault: the array is not cleared first.
CopiedOver(text, m) == [i \in DOMAIN m |-> IF i <= Len(text) THEN text[i] ELSE m[i]]

\* memset, then memcpy of the text without its NUL.
Copied(text, m) == [i \in DOMAIN m |-> IF i <= Len(text) THEN text[i] ELSE NUL]

\* Fault: a text may fill the array to the end.
TooLongByOne(text) == Len(text) > MaxLen + 1

TooLong(text) == Len(text) >= MaxLen

Set(n, p, b) ==
    /\ hostname' = Copied(n, hostname)
    /\ port' = p
    /\ baseUrl' = Copied(b, baseUrl)
    /\ configured' = [name |-> n, port |-> p, base |-> b]

\* Api::setHost, directly or from the constructor of Connection, of which the
\* second Host is told as well.  Nobody looks at the false of a refusal.
SetHost(n, p, b) ==
    /\ up /\ stage = "idle" /\ sets < MaxSets
    /\ ~TooLong(n) /\ ~TooLong(b)
    /\ Set(n, p, b)
    /\ sets' = sets + 1
    /\ UNCHANGED <<allVars, url, up>>

SetHostRefused(n, p, b) ==
    /\ up /\ stage = "idle" /\ sets < MaxSets
    /\ TooLong(n) \/ TooLong(b)
    /\ sets' = sets + 1
    /\ UNCHANGED <<allVars, hostVars, url, up, configured>>

\* The default of baseUrl is a null pointer, and it is measured all the same:
\* the program ends, or reads a text of no characters where a board has memory.
SetHostNull(n, p) ==
    /\ up /\ stage = "idle" /\ sets < MaxSets
    /\ ~TooLong(n)
    /\ Set(n, p, <<>>)
    /\ up' \in BOOLEAN
    /\ sets' = sets + 1
    /\ UNCHANGED <<allVars, url>>

DigitChars == <<"0", "1", "2", "3", "4", "5", "6", "7", "8", "9">>

\* The decimal digits of an unsigned, as snprintf of "%u" writes them in full.
Digits[n \in Nat] ==
    IF n < 10 THEN <<DigitChars[n + 1]>>
    ELSE Append(Digits[n \div 10], DigitChars[(n % 10) + 1])

\* snprintf into port_str, which cuts what it has no room for.
PortText(p) ==
    LET d == Digits[p % UIntSize]
    IN SubSeq(d, 1, IF Len(d) < PortChars THEN Len(d) ELSE PortChars)

\* Host::toString.
toString ==
    LET base == CString(baseUrl)
    IN CString(hostname) \o <<":">> \o PortText(port)
           \o (IF base = <<>> THEN <<>> ELSE <<"/">> \o base) \o <<"/">>

\* What each call of rpc.cpp puts behind the host.
Method(o) ==
    CASE o \in {"getAccount", "getBalance"} -> "GetAccount"
      [] o \in {"getTransactionByHash", "getExecutionByHash"} -> "GetActions"
      [] o \in {"sendTokenTransfer", "sendExecution"} -> "SendAction"

CCall(o, k) ==
    /\ up
    /\ Call(o, k)
    /\ url' = Append(toString, Method(o))
    /\ UNCHANGED <<hostVars, up, sets, configured>>

CallStep ==
    /\ PostFails \/ PostSucceeds \/ DecodeOk \/ DecodeFails
    /\ url' = IF stage' = "idle" THEN <<>> ELSE url
    /\ UNCHANGED <<hostVars, up, sets, configured>>

CNext ==
    \/ \E n \in Names, p \in Ports, b \in Bases : SetHost(n, p, b)
    \/ \E n \in Names, p \in Ports, b \in Bases : SetHostRefused(n, p, b)
    \/ \E n \in Names, p \in Ports : SetHostNull(n, p)
    \/ \E o \in Ops, k \in Kinds : CCall(o, k)
    \/ CallStep

CSpec == CInit /\ [][CNext]_everyVar

-----------------------------------------------------------------------------
(* The transport of the Nano *)

IndexOf(s, c) == CHOOSE i \in DOMAIN s : s[i] = c /\ \A j \in 1..i - 1 : s[j] # c
Has(s, c) == \E i \in DOMAIN s : s[i] = c
Before(s, c) == IF Has(s, c) THEN SubSeq(s, 1, IndexOf(s, c) - 1) ELSE s
After(s, c) == SubSeq(s, IndexOf(s, c) + 1, Len(s))

\* atoi of a text of digits.
Atoi(s) ==
    LET value[i \in 0..Len(s)] ==
            IF i = 0 THEN 0 ELSE 10 * value[i - 1] + IndexOf(DigitChars, s[i]) - 1
    IN value[Len(s)]

\* PlatformHTTP::initialize of the Nano.  A URI that starts with https has a
\* port as any other; the test for it compares the NUL too and never holds.
Split(uri) ==
    LET authority == Before(uri, "/")
    IN [host |-> Before(authority, ":"),
        port |-> IF Has(authority, ":") THEN Atoi(After(authority, ":")) ELSE 80,
        path |-> SubSeq(uri, IndexOf(uri, "/"), Len(uri))]

-----------------------------------------------------------------------------
(* Properties *)

CTypeOK ==
    /\ \A m \in {hostname, baseUrl} :
           /\ m \in [1..MaxLen + 1 -> Chars \cup Range(Garbage)]
           /\ NUL \in Range(m)
    /\ port \in Ports \cup {-1}
    /\ up \in BOOLEAN
    /\ sets \in 0..MaxSets

\* A host that can be told from the rest of a URL, and a port that has a name.
Proper(c) ==
    /\ ~Has(c.name, ":") /\ ~Has(c.name, "/")
    /\ c.port >= 0 /\ Len(Digits[c.port]) <= PortChars

\* Every request goes to the host, the port and the path of the latest setHost
\* that was not refused: nothing is left of a longer name or base that was set
\* before, a refusal changes no part of it, and what one piece of code puts
\* together the transport takes apart again.
GoesWhereConfigured ==
    stage = "post" /\ configured # <<>> /\ Proper(configured) =>
        Split(url) = [host |-> configured.name,
                      port |-> configured.port,
                      path |-> <<"/">>
                          \o (IF configured.base = <<>> THEN <<>>
                              ELSE configured.base \o <<"/">>)
                          \o <<Method(op)>>]
=============================================================================
