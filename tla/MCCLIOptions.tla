----------------------------- MODULE MCCLIOptions -----------------------------
(***************************************************************************)
(* Command lines over a path and two numbers, which are legal paths too;   *)
(* stoull reads "-1" modulo 2^64.                                          *)
(***************************************************************************)
EXTENDS CLIOptions, Integers

MCWords == {"a.pcap", "7", "-1"}

\* The integer a word stands for.
Denotes == [w \in {"7", "-1"} |-> IF w = "7" THEN 7 ELSE -1]

MCstoull == [w \in Words |-> IF w \in DOMAIN Denotes THEN Denotes[w] % Wrap ELSE Throws]

=============================================================================
