------------------------------ MODULE MCStartup ------------------------------
(***************************************************************************)
(* The instance of Startup for TLC.                                        *)
(***************************************************************************)
EXTENDS Startup, TLC

Arg(matches, cap) == [matches |-> matches, cap |-> cap]

\* One word for each option; a directory with an option in its name; "--file="
\* of nothing, which captures the sign; and a word that is no option.
Words ==
  {Arg({p}, NoName) : p \in Pattern \ {"config", "file", "db", "noDB", "rb"}}
    \cup {Arg({"config"}, "other.ini"), Arg({"config"}, "missing.ini"),
          Arg({"file"}, "tree/"), Arg({"file", "noParse"}, "log--no-parse"),
          Arg({"file"}, "="), Arg({"noDB"}, NoName), Arg({}, NoName)}

Says(p, w, name, n) ==
  [parse |-> p, db |-> ~p, rb |-> p, web |-> w, name |-> name, level |-> n]

Files ==
  "config.ini" :> Says(FALSE, TRUE, "tree/", 5) @@ "other.ini" :> Says(TRUE, FALSE, NoName, -1)
=============================================================================
