---- MODULE MCObjectFile ----
(* The sizes of elf64.h, elf64.cpp and STDLIB.                             *)
EXTENDS ObjectFile

MCSecNames == <<1, 6, 8, 6, 5, 10, 8, 8, 11>>   (* "" .text ... .rela.text *)
MCLibNames == <<12, 11>>                        (* __ass_print, __ass_scan *)
====
