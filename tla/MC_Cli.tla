------------------------------- MODULE MC_Cli -------------------------------
(* Instantiates Cli for TLC: two or three invocations, each with no       *)
(* argument (start), --check, --kill, or -r (reload).                      *)
EXTENDS Cli, TLC

CONSTANTS i1, i2, i3

MC_Inv == {i1, i2, i3}
MC_Inv2 == {i1, i2}
MC_Args == {NoArg, "--check", "--kill", "-r"}

=============================================================================
