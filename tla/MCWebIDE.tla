------------------------------ MODULE MCWebIDE ------------------------------
(* WebIDE for TLC: a home with a directory that has a file, and a directory *)
(* beside it, whose path is typed.                                          *)
EXTENDS WebIDE, FileNames

MCNodes == {"root", "sub", "etc", "a.yml", "b.yaml", "run"}

MCEntries == [root |-> <<"run", "sub">>, sub |-> <<"a.yml">>, etc |-> <<"b.yaml">>]

\* The noise is filtered as loadTree does it.
MCTopEntries ==
    [d \in DOMAIN MCEntries |-> SelectSeq(MCEntries[d], LAMBDA e : e \notin {"run"})]

Symmetry == Permutations(Requests) \cup Permutations(Loads)

\* The names the two tables tell apart: without a dot, with one, and all of an extension.
Names ==
    [whole : {"x"}, ext : DOMAIN BadgeOfExt \cup DOMAIN LangOfExt \cup {"x", "env"}]
        \cup {[whole |-> n, ext |-> n] : n \in DOMAIN BadgeOfName \cup DOMAIN LangOfExt}

\* fileIcon, getLang: two files with the same coloured badge open in the same language.
ASSUME BadgeFixesLanguage ==
    \A m, n \in Names :
        FileIcon(m) = FileIcon(n) /\ FileIcon(m) # Plain => GetLang(m) = GetLang(n)
=============================================================================
