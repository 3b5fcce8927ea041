---------------------------- MODULE MCIniParser -----------------------------
(* Small instances of IniParser: a buffer of nine characters, in which two    *)
(* short lines can be joined and a long one can not; a section that has the   *)
(* name of an entry, sections without a name, and one with a colon.           *)
EXTENDS IniParser, TLC

L(kind, name, val, len) ==
  {[kind |-> kind, name |-> name, val |-> val, cont |-> c,
    len |-> IF c THEN len + 1 ELSE len] : c \in BOOLEAN}

\* Of these a line may go on, or not; the others do not.
LineSet ==
  L("blank", <<>>, "", 0) \cup L("comment", <<>>, "", 6) \cup L("section", <<"s">>, "", 3)
  \cup L("entry", <<"k">>, "v", 3)
  \cup {l \in L("junk", <<>>, "", 1) \cup L("section", <<>>, "", 2)
              \cup L("section", <<"">>, "", 3) \cup L("section", <<"s", "k">>, "", 5)
              \cup L("entry", <<"k">>, "", 2) \cup L("entry", <<"j">>, "w", 3) : ~l.cont}

SettingSet == {<<"s", "k">>, <<"s", "j">>}

=============================================================================
