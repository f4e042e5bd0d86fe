------------------------------ MODULE IniFile ------------------------------
(***************************************************************************)
(* CIniFileS (common/ini_files.h, .cpp): sections of key=value records     *)
(* with comments, read from a file or a buffer, changed by name and        *)
(* written back.                                                           *)
(*                                                                         *)
(* Section names, keys and values are natural numbers, in the order        *)
(* std::map gives the strings they stand for; 0 is the empty string.  A    *)
(* line, trimmed and not blank, is a record whose kind says what the       *)
(* reader takes it for: "comment" (# or ; in front), "section" ([name]),   *)
(* "pair" (key=value), "other" (no equals sign, such as [] or a word).     *)
(* The one exception is LoadFromBuffer, for which [] is a section and a    *)
(* bracket that is not closed throws.  A comment is a sequence of lines,   *)
(* "#" one that is marked and "x" one that is not.                         *)
(*                                                                         *)
(* A definition after the words `A slip` is a wrong variant of the next.   *)
(***************************************************************************)
EXTENDS Integers, Sequences, SequencesExt

CONSTANTS
    SecName, KeyName, Value, Text,  \* what callers pass in; Text are comments
    File,               \* the files there may be at first: sequences of lines
    MaxCall             \* bound: calls made

ASSUME IniAssumption == SecName \cup KeyName \cup Value \subseteq Nat

VARIABLES
    m_mapSection,
    m_strFileName,      \* whether it is set
    file,               \* the lines of that file
    calls               \* against MaxCall

iniVars == <<m_mapSection, m_strFileName, file, calls>>

NewRecord == [strSecName |-> 0, strKey |-> 0, strValue |-> 0,
              strComments |-> <<>>, cCommented |-> " "]

NewSection(name, comments) ==
    [strSecName |-> name, strComments |-> comments, cCommented |-> " ", mapKV |-> <<>>]

(* std::map's insert for a key that is not there, and an assignment through *)
(* its iterator for one that is.                                           *)
With(map, key, value) ==
    [k \in DOMAIN map \cup {key} |-> IF k = key THEN value ELSE map[k]]
Without(map, key) == [k \in DOMAIN map \ {key} |-> map[k]]

WithRecord(map, sec, key, record) ==
    [map EXCEPT ![sec].mapKV = With(@, key, record)]

----------------------------------------------------------------------------
(* The reader, line by line.  `in` says whether pSection points to a       *)
(* section, and pSection to which; pRec is the record that is not in the   *)
(* map yet and goes on from line to line until an insert takes it.         *)
Reader == [map |-> <<>>, strComments |-> <<>>, strCurSec |-> 0,
           in |-> FALSE, pSection |-> 0, pRec |-> NewRecord]

ReadComment(r, line) == [r EXCEPT !.strComments = Append(@, line.text)]

(* A slip: the comment stays for the first record of the section as well. *)
ReadSectionKeeps(r, line) ==
    LET fresh == line.name \notin DOMAIN r.map
    IN [r EXCEPT !.map = IF fresh THEN With(@, line.name, NewSection(line.name, r.strComments))
                         ELSE @,
                 !.strCurSec = line.name, !.in = fresh, !.pSection = line.name]

(* A name that is there already leaves pSection null. *)
ReadSection(r, line) ==
    LET fresh == line.name \notin DOMAIN r.map
    IN [r EXCEPT !.map = IF fresh THEN With(@, line.name, NewSection(line.name, r.strComments))
                         ELSE @,
                 !.strComments = <<>>,
                 !.strCurSec = line.name, !.in = fresh, !.pSection = line.name]

(* What the current record becomes; a line that is no pair leaves it. *)
ReadPair(r, line) ==
    IF line.kind # "pair" THEN r
    ELSE [r EXCEPT !.pRec = [@ EXCEPT !.strComments = r.strComments,
                                      !.strSecName = r.strCurSec,
                                      !.strKey = line.key, !.strValue = line.value],
                   !.strComments = <<>>]

(* Any line that is no comment and no section ends here, unless a comment  *)
(* is pending: the section is made if there is none, and the record goes   *)
(* in if its key is new.                                                   *)
AddRecord(r) ==
    LET name == IF r.in THEN r.pSection ELSE r.pRec.strSecName
        made == ~r.in /\ name \notin DOMAIN r.map
        map == IF made THEN With(r.map, name, NewSection(name, r.pRec.strComments)) ELSE r.map
    IN IF r.strComments # <<>> THEN r
       ELSE IF ~(r.in \/ made) THEN [r EXCEPT !.pSection = 0]
       ELSE IF r.pRec.strKey \in DOMAIN map[name].mapKV
       THEN [r EXCEPT !.map = map, !.in = TRUE, !.pSection = name]
       ELSE [r EXCEPT !.map = WithRecord(map, name, r.pRec.strKey, r.pRec),
                      !.in = TRUE, !.pSection = name, !.pRec = NewRecord]

ReadLine(r, line) ==
    CASE line.kind = "comment" -> ReadComment(r, line)
      [] line.kind = "section" -> ReadSection(r, line)
      [] OTHER -> AddRecord(ReadPair(r, line))

(* Comments after the last record are dropped with the reader. *)
Loaded(lines) == FoldLeft(ReadLine, Reader, lines).map

----------------------------------------------------------------------------
(* SaveToFile.  What is written for a comment line without its mark, and   *)
(* for the section with the empty name, is read as a line of another kind. *)
CommentLines(comments) ==
    [i \in DOMAIN comments |-> IF comments[i] = "#" THEN [kind |-> "comment", text |-> "#"]
                               ELSE [kind |-> "other"]]

SectionLine(name) ==
    IF name = 0 THEN [kind |-> "other"] ELSE [kind |-> "section", name |-> name]

RecordLines(record) ==
    Append(CommentLines(record.strComments),
           [kind |-> "pair", key |-> record.strKey, value |-> record.strValue])

(* The values of a map in the order of its keys. *)
KeyOrder(map) ==
    LET keys == SetToSortSeq(DOMAIN map, <) IN [i \in DOMAIN keys |-> map[keys[i]]]

SectionLines(section) ==
    LET records == KeyOrder(section.mapKV)
    IN Append(CommentLines(section.strComments), SectionLine(section.strSecName))
       \o FlattenSeq([i \in DOMAIN records |-> RecordLines(records[i])])

Saved(map) ==
    LET sections == KeyOrder(map)
    IN FlattenSeq([i \in DOMAIN sections |-> SectionLines(sections[i])])

----------------------------------------------------------------------------
IniInit ==
    /\ m_mapSection = <<>> /\ m_strFileName = FALSE
    /\ file \in File
    /\ calls = 0

Called == calls < MaxCall /\ calls' = calls + 1

(* The end of every call that changes the document: bSaveToFile writes it  *)
(* to the file it was read from, which is none after LoadFromBuffer.       *)
Finish(map, bSaveToFile) ==
    /\ m_mapSection' = map
    /\ file' = IF bSaveToFile /\ m_strFileName THEN Saved(map) ELSE file
    /\ UNCHANGED m_strFileName

Open ==
    /\ Called
    /\ m_mapSection' = Loaded(file) /\ m_strFileName' = TRUE
    /\ UNCHANGED file

(* The buffer's last line must end with a line break to be read. *)
LoadFromBuffer(lines) ==
    /\ Called
    /\ m_mapSection' = Loaded(lines) /\ m_strFileName' = FALSE
    /\ UNCHANGED file

SaveToFile == Called /\ m_strFileName /\ Finish(m_mapSection, TRUE)

HasSection(sec) == sec \in DOMAIN m_mapSection
HasRecord(sec, key) == HasSection(sec) /\ key \in DOMAIN m_mapSection[sec].mapKV

AddSection(sec, bSaveToFile) ==
    /\ Called /\ ~HasSection(sec)
    /\ Finish(With(m_mapSection, sec, NewSection(sec, <<>>)), bSaveToFile)

(* Only for a document that came from a file. *)
SetValue(key, value, sec, bSaveToFile) ==
    LET map == IF HasSection(sec) THEN m_mapSection
               ELSE With(m_mapSection, sec, NewSection(sec, <<>>))
        record == IF HasRecord(sec, key) THEN map[sec].mapKV[key]
                  ELSE [NewRecord EXCEPT !.strSecName = sec, !.strKey = key]
    IN /\ Called /\ m_strFileName
       /\ Finish(WithRecord(map, sec, key, [record EXCEPT !.strValue = value]), bSaveToFile)

(* The arguments go to SetValue in another order than it takes them. *)
WriteProfileBinary(sec, key, data, bSaveToFile) == SetValue(sec, key, data, bSaveToFile)

(* The name changes in the section and its records, and the map's key for  *)
(* it does not.                                                            *)
RenameSection(old, new, bSaveToFile) ==
    /\ Called /\ HasSection(old)
    /\ Finish([m_mapSection EXCEPT ![old] =
                   [@ EXCEPT !.strSecName = new,
                             !.mapKV = [k \in DOMAIN @ |-> [@[k] EXCEPT !.strSecName = new]]]],
              bSaveToFile)

CommentRecord(cc, sec, key, bSaveToFile) ==
    /\ Called /\ HasRecord(sec, key)
    /\ Finish([m_mapSection EXCEPT ![sec].mapKV[key].cCommented = cc], bSaveToFile)

CommentSection(cc, sec, bSaveToFile) ==
    /\ Called /\ HasSection(sec)
    /\ Finish([m_mapSection EXCEPT ![sec] =
                   [@ EXCEPT !.cCommented = cc,
                             !.mapKV = [k \in DOMAIN @ |-> [@[k] EXCEPT !.cCommented = cc]]]],
              bSaveToFile)

DeleteRecord(sec, key, bSaveToFile) ==
    /\ Called /\ HasRecord(sec, key)
    /\ Finish([m_mapSection EXCEPT ![sec].mapKV = Without(@, key)], bSaveToFile)

DeleteSection(sec, bSaveToFile) ==
    /\ Called /\ HasSection(sec)
    /\ Finish(Without(m_mapSection, sec), bSaveToFile)

SetSectionComments(text, sec, bSaveToFile) ==
    /\ Called /\ HasSection(sec)
    /\ Finish([m_mapSection EXCEPT ![sec].strComments = text], bSaveToFile)

SetRecordComments(text, sec, key, bSaveToFile) ==
    /\ Called /\ HasRecord(sec, key)
    /\ Finish([m_mapSection EXCEPT ![sec].mapKV[key].strComments = text], bSaveToFile)

IniNext ==
    \/ Open \/ SaveToFile
    \/ \E lines \in File : LoadFromBuffer(lines)
    \/ \E sec \in SecName, save \in BOOLEAN :
          \/ AddSection(sec, save) \/ DeleteSection(sec, save)
          \/ CommentSection("#", sec, save)
          \/ \E new \in SecName : RenameSection(sec, new, save)
          \/ \E text \in Text : SetSectionComments(text, sec, save)
          \/ \E key \in KeyName :
                \/ \E value \in Value :
                      SetValue(key, value, sec, save) \/ WriteProfileBinary(sec, key, value, save)
                \/ CommentRecord("#", sec, key, save)
                \/ DeleteRecord(sec, key, save)
                \/ \E text \in Text : SetRecordComments(text, sec, key, save)

IniSpec == IniInit /\ [][IniNext]_iniVars

----------------------------------------------------------------------------
(* What the file is to preserve of a document, by the names it will have.  *)
Settings(map) ==
    {[name |-> map[s].strSecName, strComments |-> map[s].strComments,
      records |-> {[key |-> map[s].mapKV[k].strKey, value |-> map[s].mapKV[k].strValue,
                    strComments |-> map[s].mapKV[k].strComments] :
                      k \in DOMAIN map[s].mapKV}] :
        s \in DOMAIN map}

(* The writer writes every section under a name of its own, and comments   *)
(* with their mark.                                                        *)
Writable(map) ==
    /\ \A s, u \in DOMAIN map : map[s].strSecName = map[u].strSecName => s = u
    /\ \A s \in DOMAIN map :
           /\ map[s].strSecName # 0
           /\ ToSet(map[s].strComments) \subseteq {"#"}
           /\ \A k \in DOMAIN map[s].mapKV :
                  ToSet(map[s].mapKV[k].strComments) \subseteq {"#"}

(* A document is read back from what SaveToFile writes of it, after any    *)
(* calls, with every record in its section and every comment where it was. *)
SavedIsRead ==
    Writable(m_mapSection) => Settings(Loaded(Saved(m_mapSection))) = Settings(m_mapSection)

=============================================================================
