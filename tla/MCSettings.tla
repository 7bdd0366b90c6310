----------------------------- MODULE MCSettings -----------------------------
(***************************************************************************)
(* Small constants for Settings: a few settings at a time, among them every *)
(* setting once, and files that give one of them in one way or another.    *)
(***************************************************************************)
EXTENDS Settings

Given(k, v) == [key |-> k, on |-> TRUE, val |-> v]
Commented(k) == [key |-> k, on |-> FALSE, val |-> "default"]
Subdirectory == [key |-> "WORK_SUBDIR", on |-> TRUE, val |-> "faxes"]
Remark == [key |-> "remark", on |-> FALSE, val |-> "text"]

MCLineNames == AllKeys \cup {"remark", "WORK_SUBDIR"}
\* Codesets: UTF-8, ISO 8859-1 and ASCII.  Not ASCII are "latin", which 8859-1
\* has, and "wide", which it has not; "latin twice" and "wide twice", their UTF-8
\* read as 8859-1, and "garbled", read so again; "latin byte", "latin" in 8859-1.
MCTexts == {"latin", "wide", "latin twice", "wide twice", "garbled"}
MCForeign == MCTexts \cup {"latin byte"}

MCHas(c, v) ==
  \/ v \notin MCForeign
  \/ c = "utf-8" /\ v \in MCTexts
  \/ c = "8859-1" /\ v \in MCTexts \ {"wide"}

MCEncode(c, v) ==
  CASE c = "8859-1" /\ v = "latin" -> "latin byte"
    [] c = "8859-1" /\ v = "latin twice" -> "latin"
    [] c = "8859-1" /\ v = "wide twice" -> "wide"
    [] OTHER -> v

MCDecode(c, v) ==
  CASE v \notin MCForeign -> v
    [] c = "utf-8" -> IF v = "latin byte" THEN "" ELSE v
    [] c = "ascii" /\ v \in MCForeign -> ""
    [] c = "8859-1" /\ v = "latin byte" -> "latin"
    [] c = "8859-1" /\ v = "latin" -> "latin twice"
    [] c = "8859-1" /\ v = "wide" -> "wide twice"
    [] c = "8859-1" /\ v \in {"latin twice", "wide twice", "garbled"} -> "garbled"

Choose(locale, filename) == [utf8 |-> "utf-8", locale |-> locale, filename |-> filename]
MCLocales == {Choose("utf-8", "utf-8"), Choose("8859-1", "utf-8"), Choose("8859-1", "8859-1"),
  Choose("utf-8", "8859-1"), Choose("ascii", "utf-8")}

MCValues == {"", "a", "b", "a#", "default", "faxes", "text", "min", "usual", "other", "odd", "bad", "Yes", "No"}
  \cup MCForeign
  \cup UNION {Pages[k].options \cup {Pages[k].first} : k \in {q \in AllKeys : Pages[q].sort = "radio"}}

MCUtf8Texts == MCValues \ {"latin byte"}

MCKeySets == {{"NAME", "NUMBER"}, {"DEVICE", "LOCK", "CLASS"}, {"RINGS", "DIALMODE", "CAPABILITIES"},
  {"INIT", "RESET", "PARMS"}, {"USE_GTKPRINT", "PRINT_CMD", "PRINT_POPUP"}, {"PRINT_SHRINK", "PS_VIEWER"},
  {"SOCK_SERVER", "SOCK_POPUP"}, {"SOCK_SERVER_PORT", "SOCK_CLIENT_ADDRESS", "SOCK_OTHER_ADDRESSES"},
  {"FAX_RECEIVED_POPUP", "FAX_RECEIVED_EXEC", "FAX_RECEIVED_PROG"}, {"RES", "ADDR_IN_HEADER", "DIAL_PREFIX"},
  {"LOG_FILE", "PAGE"}}

MCTyped(k) == LET w == Pages[k] IN
  CASE w.sort = "text" -> {"", "a", "a#", "latin", "wide"}
    [] w.sort = "box" -> {"Yes", "No"}
    [] w.sort = "radio" -> w.options \cup {w.first}
    [] w.sort = "spin" -> {"min", "other"}

InFile(k) == LET w == Pages[k] IN
  CASE w.sort = "text" -> {"b", "a#", "", "latin", "latin byte"}
    [] w.sort = "box" -> {"Yes", "No", "bad"}
    [] w.sort = "radio" -> {CHOOSE o \in w.options : o # w.first, "bad"}
    [] w.sort = "spin" -> {"other", "odd", "bad"}

One(K) == CHOOSE k \in K : TRUE
MCHomeFiles(K) ==
  {NoFile} \cup {<<Subdirectory, Commented(k), Remark>> : k \in K}
  \cup UNION {{<<Remark, Given(One(K), CHOOSE x \in InFile(One(K)) : TRUE), Given(k, v), Subdirectory>> : v \in InFile(k)} : k \in K}
  \cup UNION {{<<Given(k, v), Subdirectory, Given(k, CHOOSE x \in InFile(k) : TRUE)>> : v \in InFile(k)} : k \in K}
MCSharedFiles(K) == {NoFile, <<Given(One(K), CHOOSE v \in InFile(One(K)) : TRUE), Remark>>}

=============================================================================
