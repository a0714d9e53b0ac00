--------------------------- MODULE PlatformRandom ---------------------------
(***************************************************************************)
(* The random generator of the platform the program is built for (the      *)
(* #ifdefs of random/os/random.cpp and random/esp8266/random.cpp):         *)
(* RandomSource on the OS build, TrueRandom on the ESP8266.  The variables *)
(* of the other stay as they are.                                          *)
(*                                                                         *)
(* Fairness: on the OS build a program that runs keeps running, and a      *)
(* number drawn over and over from a source that works is in range in the  *)
(* end; on the ESP8266 the input is not stuck.                             *)
(***************************************************************************)
EXTENDS RandomSource, TrueRandom

VARIABLE platform   \* what the program is built for

platformVars == <<platform, vars, trueVars>>

PlatformInit ==
    /\ platform \in {"os", "esp8266"}
    /\ Init
    /\ TrueInit

OnOs == platform = "os" /\ UNCHANGED <<platform, trueVars>>
OnEsp8266 == platform = "esp8266" /\ UNCHANGED <<platform, vars>>

PlatformNext ==
    \/ Next /\ OnOs
    \/ TrueNext /\ OnEsp8266

PlatformSpec ==
    /\ PlatformInit
    /\ [][PlatformNext]_platformVars
    /\ platform = "os" => Fairness
    /\ platform = "esp8266" => TrueFairness
=============================================================================
