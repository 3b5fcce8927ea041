----------------------------- MODULE IniParser ------------------------------
(***************************************************************************)
(* iniparser_load reads a file line by line into one buffer, joins lines   *)
(* that end in a backslash, and sets what each logical line says in a      *)
(* dictionary; get_config (mqtt_config.c) then takes the settings from it.  *)
(*                                                                         *)
(* A physical line is a record: what it is by itself, the name and value   *)
(* in it, whether it ends in a backslash, and how long it is.  A name is   *)
(* the sequence of words between its colons, so that section "a:b" and key *)
(* "b" of section "a" are the one string they are in the dictionary.       *)
(***************************************************************************)
EXTENDS Integers, Sequences, FiniteSets, FiniteSetsExt, SequencesExt

CONSTANTS
  Lines,      \* the physical lines a file may have
  Settings,   \* the entries get_config asks for
  Odd,        \* the name or value that several joined lines make
  Default,    \* the default of a setting
  NULL,
  Cap,        \* ASCIILINESZ
  MaxLines,   \* bound: lines of the file
  MaxFaults   \* bound: allocations that fail

Kinds == {"blank", "comment", "section", "entry", "junk"}
Vals  == {l.val : l \in Lines} \cup {Odd}
Words == (UNION {Range(l.name) : l \in Lines}) \cup {Odd, ""}

\* A backslash alone is a blank line that goes on, and a setting has a section and a key.
ASSUME IniAssumption ==
  /\ \A l \in Lines :
       /\ l.kind \in Kinds /\ l.name \in Seq(Words) /\ l.cont \in BOOLEAN /\ l.len \in Nat
       /\ l.cont => l.len > 0
       /\ l.cont /\ l.len = 1 => l.kind = "blank"
  /\ \A s \in Settings : Len(s) = 2
  /\ Cap \in Nat /\ Cap >= 2 /\ MaxLines \in Nat /\ MaxFaults \in Nat
  /\ NULL \notin Vals \cup {Default}

VARIABLES
  pc,         \* "load", "reading", "ended", "loaded" or "null", then get_config
  held, last, \* the lines before index last of the line buffer
  section,    \* the section the next entry belongs to
  map,        \* the dictionary, as DictMap has it
  mem_err, errs,
  faults,     \* what the bound counts
  cfg,        \* the settings taken
  file,       \* history: the physical lines read
  fate        \* history: what a failed allocation did to the line read then

vars == <<pc, held, last, section, map, mem_err, errs, faults, cfg, file, fate>>

\* The file starts in a section with an empty name.
NoSection == <<"">>

TypeOK ==
  /\ pc \in {"load", "reading", "ended", "loaded", "null",
            "configured", "refused", "crashed"}
  /\ held \in Seq(Lines) /\ last \in 0 .. Cap
  /\ \A k \in DOMAIN map : map[k] \in Vals \cup {NULL}
  /\ mem_err \in {0, -1} /\ errs \in 0 .. MaxLines /\ faults \in 0 .. MaxFaults
  /\ cfg \in [Settings -> Vals \cup {Default, NULL}]
  /\ Len(file) <= MaxLines /\ DOMAIN fate \subseteq DOMAIN file

Init ==
  /\ pc = "load" /\ held = <<>> /\ last = 0 /\ section = NoSection
  /\ map = << >> /\ mem_err = 0 /\ errs = 0 /\ faults = 0
  /\ cfg = [s \in Settings |-> Default]
  /\ file = <<>> /\ fate = << >>

Fault == faults < MaxFaults /\ faults' = faults + 1

-----------------------------------------------------------------------------
(* iniparser_line: what lines joined to one text say.                        *)

Line(sta, name) == [sta |-> sta, name |-> name, val |-> NULL]

\* The lines of the text that are not blank.
TextOf(ls) == {i \in DOMAIN ls : ls[i].kind # "blank"}

\* The name ends at the first "=", and a comment cuts the value behind it.
EntryOf(ls) ==
  LET i     == Min({j \in TextOf(ls) : ls[j].kind = "entry"})
      after == {j \in TextOf(ls) : j > i}
  IN  [sta  |-> "VALUE",
       name |-> IF i = Min(TextOf(ls)) THEN ls[i].name ELSE <<Odd>>,
       val  |-> IF after = {} \/ ls[Min(after)].kind = "comment" THEN ls[i].val ELSE Odd]

Classify(ls) ==
  LET text  == TextOf(ls)
      first == ls[Min(text)]
  IN  IF text = {} THEN Line("EMPTY", <<>>)
      ELSE IF first.kind = "comment" THEN Line("COMMENT", <<>>)
      ELSE IF first.kind = "section" /\ ls[Max(text)].kind = "section"
             THEN Line("SECTION", first.name)
      ELSE IF \E i \in text : ls[i].kind = "entry" THEN EntryOf(ls)
      ELSE Line("ERROR", <<>>)

-----------------------------------------------------------------------------
(* iniparser_load                                                            *)

Load ==
  /\ pc = "load" /\ pc' = "reading"
  /\ UNCHANGED <<held, last, section, map, mem_err, errs, faults, cfg, file, fate>>

\* The file cannot be opened, or dictionary_new returns NULL.
LoadFails ==
  /\ pc = "load" /\ pc' = "null"
  /\ UNCHANGED <<held, last, section, map, mem_err, errs, faults, cfg, file, fate>>

\* Mutant: what the buffer holds already is not counted.
FitsAlone(l) == l.len <= Cap - 2

\* The line and its newline fit behind what the buffer holds.
Fits(l) == last + l.len <= Cap - 2

ReadsLine(l) ==
  /\ pc = "reading" /\ Len(file) < MaxLines
  /\ file' = Append(file, l)

TooLong(l) ==
  /\ ReadsLine(l) /\ ~Fits(l)
  /\ map' = << >>
  /\ pc' = "null"
  /\ UNCHANGED <<held, last, section, mem_err, errs, faults, cfg, fate>>

\* The next line is read over the backslash.
Continued(l) ==
  /\ ReadsLine(l) /\ Fits(l) /\ l.cont
  /\ last' = last + l.len - 1
  /\ held' = Append(held, l)
  /\ UNCHANGED <<pc, section, map, mem_err, errs, faults, cfg, fate>>

Fated(what) ==
  fate' = [i \in DOMAIN fate \cup {Len(file')} |->
             IF i = Len(file') THEN what ELSE fate[i]]

\* The last line has one character and no newline: nobody looks at it.
LastCharacter(l) ==
  /\ ReadsLine(l) /\ last = 0 /\ l.len = 1 /\ ~l.cont
  /\ Fated("unread") /\ pc' = "ended"
  /\ UNCHANGED <<held, last, section, map, mem_err, errs, faults, cfg>>

D == INSTANCE DictMap WITH Keys <- {}, ret <- mem_err

Ignored == UNCHANGED <<map, mem_err, faults, pc, fate>>

\* Mutant: an entry keeps its first value.
SetEntryOnce(key, val) ==
  IF key \in DOMAIN map THEN Ignored ELSE D!Put(key, val) /\ UNCHANGED <<pc, fate>>

\* dictionary_set, with the failures it has; the loop ends when it says so.
SetEntry(key, val) ==
  \/ D!Put(key, val) /\ UNCHANGED <<pc, fate>>
  \/ Fault /\ val # NULL /\ D!PutNothing(key) /\ Fated("nulled") /\ UNCHANGED pc
  \/ Fault /\ D!Ignore(key) /\ Fated("ignored") /\ UNCHANGED pc
  \/ /\ Fault /\ key \notin DOMAIN map /\ D!Refuse /\ Fated("ignored")
     /\ pc' = "ended"

\* Mutant: the buffer is not reset after a line that was continued.
KeepsBuffer == UNCHANGED <<held, last>>

ClearsBuffer == held' = <<>> /\ last' = 0

\* "[]" matches no name; what is lowered, and cut to one letter, is the old one.
SectionOf(name) ==
  IF name # <<>> THEN name ELSE IF section = NoSection THEN NoSection ELSE <<Odd>>

Processed(l) ==
  LET line == Classify(Append(held, l)) IN
  /\ ReadsLine(l) /\ Fits(l) /\ ~l.cont
  /\ ClearsBuffer
  /\ \/ /\ line.sta \in {"EMPTY", "COMMENT"}
        /\ UNCHANGED <<pc, section, map, mem_err, errs, faults, fate>>
     \/ /\ line.sta = "SECTION"
        /\ section' = SectionOf(line.name)
        /\ SetEntry(section', NULL)
        /\ UNCHANGED errs
     \/ /\ line.sta = "VALUE"
        /\ SetEntry(section \o line.name, line.val)
        /\ UNCHANGED <<section, errs>>
     \/ /\ line.sta = "ERROR"
        /\ errs' = errs + 1
        /\ UNCHANGED <<pc, section, map, mem_err, faults, fate>>
  /\ UNCHANGED cfg

\* xstrdup fails in iniparser_line: strstrip(NULL) is 0, the line counts as empty.
Skipped(l) ==
  /\ ReadsLine(l) /\ Fits(l) /\ ~l.cont
  /\ Fault /\ Fated("skipped")
  /\ ClearsBuffer
  /\ UNCHANGED <<pc, section, map, mem_err, errs, cfg>>

End ==
  /\ pc \in {"reading", "ended"}
  /\ IF errs > 0 THEN pc' = "null" /\ map' = << >>
                 ELSE pc' = "loaded" /\ UNCHANGED map
  /\ UNCHANGED <<held, last, section, mem_err, errs, faults, cfg, file, fate>>

-----------------------------------------------------------------------------
(* get_config                                                                *)

GetString(m, key, def) == IF key \in DOMAIN m THEN m[key] ELSE def

\* strncpy and strtol are given NULL when an entry has no value.
GetConfig ==
  /\ pc = "loaded"
  /\ cfg' = [s \in Settings |-> GetString(map, s, Default)]
  /\ pc' = IF \E s \in Settings : cfg'[s] = NULL THEN "crashed" ELSE "configured"
  /\ UNCHANGED <<held, last, section, map, mem_err, errs, faults, file, fate>>

GetConfigFails ==
  /\ pc = "null" /\ pc' = "refused"
  /\ UNCHANGED <<held, last, section, map, mem_err, errs, faults, cfg, file, fate>>

Next ==
  \/ Load \/ LoadFails \/ End \/ GetConfig \/ GetConfigFails
  \/ \E l \in Lines : \/ TooLong(l) \/ Continued(l) \/ LastCharacter(l)
                      \/ Processed(l) \/ Skipped(l)

Spec == Init /\ [][Next]_vars

-----------------------------------------------------------------------------
(* What the file says, read as a whole: a logical line ends where no backslash *)
(* does, and the last one that sets an entry decides.                          *)

Ends == {e \in DOMAIN file : ~file[e].cont}
Start(e) == 1 + Max({0} \cup {j \in Ends : j < e})
Had(e, fates) == e \in DOMAIN fate /\ fate[e] \in fates

Says(e) ==
  IF Had(e, {"skipped", "unread"}) THEN Line("EMPTY", <<>>)
  ELSE Classify(SubSeq(file, Start(e), e))

SectionAt(e) ==
  LET lines == {j \in Ends : j <= e /\ Says(j).sta = "SECTION"}
      named == {j \in lines : Says(j).name # <<>>}
      name  == Says(Max(named)).name
  IN  IF named = {} THEN NoSection
      ELSE IF Max(lines) \in named \/ name = NoSection THEN name ELSE <<Odd>>

\* The lines that set an entry, and which.
Setters ==
  {e \in Ends : Says(e).sta \in {"SECTION", "VALUE"} /\ ~Had(e, {"ignored"})}

KeyOf(e) ==
  IF Says(e).sta = "SECTION" THEN SectionAt(e) ELSE SectionAt(e) \o Says(e).name

\* The last of the lines that set an entry decides.
LastValue(setters, def) ==
  IF setters = {} THEN def
  ELSE IF Had(Max(setters), {"nulled"}) THEN NULL ELSE Says(Max(setters)).val

Written(key, def) == LastValue({e \in Setters : KeyOf(e) = key}, def)

IsBad == \E e \in Ends : Says(e).sta = "ERROR"

\* The dictionary holds what the lines read so far say, whatever was joined,
\* cut by a comment, set twice or lost to a failed allocation: no text of one
\* logical line reaches the next (iniparser.c:633-698, 749-813).
MapAsWritten ==
  pc \in {"reading", "ended", "loaded"} =>
    LET key == [e \in Setters |-> KeyOf(e)]
    IN  /\ DOMAIN map = Range(key)
        /\ \A k \in DOMAIN map : map[k] = LastValue({e \in Setters : key[e] = k}, Default)

\* The characters of joined lines.
Length(ls) ==
  LET sum[i \in 0 .. Len(ls)] == IF i = 0 THEN 0 ELSE sum[i - 1] + ls[i].len
  IN  sum[Len(ls)]

\* A file is refused only for a line that is bad or does not fit, and one with a
\* bad line is never taken (iniparser.c:754-763, 795-817).
RefusedOnlyBad ==
  /\ pc = "loaded" => ~IsBad
  /\ pc = "null" /\ file # <<>> /\ ~IsBad =>
       LET text == SubSeq(file, Start(Len(file)), Len(file))
       IN  Length(text) - (Len(text) - 1) > Cap - 2

\* What is loaded is what is written, and what is written well is loaded
\* (iniparser.c:716-836).
AsWritten == MapAsWritten /\ RefusedOnlyBad

\* fgets always has room for a character and the null after it, however many
\* lines were joined: with room for the null alone it would read nothing and
\* return it for a line (iniparser.c:749, 773-777).
RoomLeft == pc = "reading" => Cap - last >= 2

\* The type invariant with it (iniparser.c:749-777).
Consistent == TypeOK /\ RoomLeft

\* get_config takes each setting from the last line that gives it, or its
\* default, and meets NULL only where a section has the name of an entry or a
\* value could not be copied (mqtt_config.c:49-70, dictionary.c:297).
ConfigTaken ==
  /\ pc = "configured" => \A s \in Settings : cfg[s] = Written(s, Default)
  /\ pc = "crashed" =>
       \/ \E l \in Range(file) : l.kind = "section" /\ l.name \in Settings
       \/ \E e \in Ends : Had(e, {"nulled"})

\* iniparser_getseckeys, and the keys iniparser_dumpsection_ini writes: nothing for
\* a section that is not an entry of its own.
SecKeys(m, s) ==
  IF <<s>> \in DOMAIN m THEN {key \in DOMAIN m : Len(key) > 1 /\ Head(key) = s} ELSE {}

\* An entry is missing from the keys listed and dumped for its section only if it
\* stands before every section, if its section has a colon, or if an allocation
\* failed (iniparser.c:296-396, 786-812).
SectionListsKeys ==
  pc = "loaded" => \A key \in DOMAIN map : Len(key) > 1 =>
    \/ key \in SecKeys(map, Head(key))
    \/ Head(key) = "" \/ fate # << >>
    \/ \E l \in Range(file) : l.kind = "section" /\ Len(l.name) > 1

\* Both readers of the dictionary find what the file says (mqtt_config.c:42-70,
\* iniparser.c:296-425).
ReadBack == ConfigTaken /\ SectionListsKeys

=============================================================================
