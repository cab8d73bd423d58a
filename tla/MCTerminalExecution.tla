-------------------------- MODULE MCTerminalExecution --------------------------
(***************************************************************************)
(* Small instances of TerminalExecution for TLC: a client of terminal_execute *)
(* that repeats its request, one of terminal_start, and the built-in agent    *)
(* on a shell without markers and in the background.                        *)
(***************************************************************************)
EXTENDS TerminalExecution

CONSTANTS key1, key2

Offer(key, kind, caller) == [key |-> key, kind |-> kind, caller |-> caller]

AllOffers == {Offer(key1, "marked", "shared"), Offer(key2, "marked", "async"),
              Offer(NoKey, "raw", "native"),
              Offer(NoKey, "background", "native")}
================================================================================
