---- MODULE MCLexer ----
(* Texts for TLC: every text of some length over a few characters at a time, *)
(* which together are those that keywords of KEYWORDS share.                 *)
EXTENDS Lexer

Strings[n \in Nat, alphabet \in SUBSET STRING] ==
    IF n = 0 THEN {""}
    ELSE {""} \union {s \o c : s \in Strings[n - 1, alphabet], c \in alphabet}

MCTexts ==
    UNION {Strings[6, {"a", "1", " ", "#", "="}],
           Strings[5, {"!", "=", "<", "1", "a"}],
           Strings[5, {"i", "n", "f", ";", " "}],
           Strings[5, {".", "$", "1", "&"}],
           {p \o "null" \o s : p, s \in Strings[2, {"n", "l", "1", "#", " "}]}}
====
