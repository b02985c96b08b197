----------------------------- MODULE MCLauncher -----------------------------
(* Instance of Launcher for TLC.                                           *)
EXTENDS Launcher, TLC

CONSTANTS d1, d2

Command(m, f, l) == [mode |-> m, first |-> f, last |-> l]

(* A training; "all"; --only phase2 and --only phase3.                     *)
MCCommands ==
    {Command("train", 1, 1), Command("existing", 1, 3), Command("existing", 3, 3),
     Command("smoke", 2, 2), Command("smoke", 3, 3)}
=============================================================================
