---------------------------- MODULE MC_InstallCmd ----------------------------
(* Model-checking instances of InstallCmd: which flags and stdin to try.   *)
EXTENDS InstallCmd

MCAllNamespaces == {"unset", "valid", "invalid"}
MCTerminal == {"tty"}
MCAnyStdin == {"tty", "eof"}
====
