------------------------------ MODULE MCProcess ------------------------------
(* Small instances of Process.                                             *)
EXTENDS Process

\* the toolchains the build files name
BothToolchains == {"hang", "throw"}
OnlyMSVC == {"throw"}
=============================================================================
