--------------------------- MODULE MCNestedShell ---------------------------
(* Model-checking instance of NestedShell: the user's shell and three forks *)
(* that succeed, a history of two lines, and lines that take each path of   *)
(* the code: a program that is never found is executed like a builtin.      *)
EXTENDS NestedShell

Simple(commands, b) ==
  [bang : {FALSE}, command : commands, bg : {b}, usable : {TRUE}]

Refusal == [bang |-> FALSE, command |-> "history", bg |-> TRUE, usable |-> FALSE]

TypedLines ==
  Simple({"history", "exit", "kill"}, FALSE) \cup Simple({"program", "history", "kill"}, TRUE)
    \cup [bang : {TRUE}, command : {"program", "unset"}, bg : {FALSE}, usable : {TRUE}]
    \cup [bang : {TRUE}, command : {"program"}, bg : {TRUE}, usable : {TRUE}]
    \cup {Refusal}
=============================================================================
