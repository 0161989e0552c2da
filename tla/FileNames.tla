------------------------------ MODULE FileNames ------------------------------
(***************************************************************************)
(* What the Web IDE makes of the name of a file (web/ide-src/src/main.js): *)
(* the badge in the tree (fileIcon) and the language of the editor         *)
(* (getLang).  A name is given as both tables look at it, in small         *)
(* letters: the whole of it, and what follows its last dot, which is the   *)
(* whole of a name without one.                                            *)
(***************************************************************************)

\* The badges of extensions; the colour is a class that several share.
BadgeOfExt == [
    go |-> "GO", js |-> "JS", jsx |-> "JSX", ts |-> "TS", tsx |-> "TSX", py |-> "PY",
    sh |-> "SH", bash |-> "SH", yaml |-> "YAML", yml |-> "YAML", json |-> "JSON",
    md |-> "MD", html |-> "HTML", css |-> "CSS", tf |-> "TF", hcl |-> "HCL", rs |-> "RS",
    toml |-> "TOML", dockerfile |-> "DF", c |-> "C", cpp |-> "C++"]

\* The badges of names that have no such extension.
BadgeOfName == [n \in {"dockerfile", "makefile", ".gitignore", ".env"} |->
    CASE n = "dockerfile" -> "DF" [] n = "makefile" -> "MK"
      [] n = ".gitignore" -> "GIT" [] n = ".env" -> "ENV"]

\* Any other file shows the beginning of its extension, without a colour.
Plain == "fb-file"

\* fileIcon.
FileIcon(n) ==
    IF n.ext \in DOMAIN BadgeOfExt THEN BadgeOfExt[n.ext]
    ELSE IF n.whole \in DOMAIN BadgeOfName THEN BadgeOfName[n.whole]
    ELSE Plain

LangOfExt == [
    go |-> "go", js |-> "javascript", ts |-> "typescript", jsx |-> "javascript",
    tsx |-> "typescript", py |-> "python", sh |-> "shell", bash |-> "shell",
    yaml |-> "yaml", yml |-> "yaml", json |-> "json", md |-> "markdown", html |-> "html",
    css |-> "css", toml |-> "ini", tf |-> "hcl", hcl |-> "hcl", rs |-> "rust", c |-> "c",
    cpp |-> "cpp", java |-> "java", rb |-> "ruby", sql |-> "sql",
    dockerfile |-> "dockerfile"]

\* Mutant: yml is left out.
LangWithoutYml(n) ==
    IF n.ext \in DOMAIN LangOfExt \ {"yml"} THEN LangOfExt[n.ext] ELSE "plaintext"

\* getLang.
GetLang(n) == IF n.ext \in DOMAIN LangOfExt THEN LangOfExt[n.ext] ELSE "plaintext"
=============================================================================
