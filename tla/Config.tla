------------------------------- MODULE Config -------------------------------
(***************************************************************************)
(* The configuration files of the client and the server:                   *)
(* openConfigFile() and getProperty() of src/src/config/config.c.          *)
(*                                                                         *)
(* A line is the sequence of its characters without the newline; a few     *)
(* letters stand for names and values.  "_" stands for the whole line that *)
(* stops the reading.                                                      *)
(***************************************************************************)
EXTENDS Integers, Sequences, SequencesExt, Filtering

CONSTANTS
    FileLines,       \* the lines a file may have
    Properties,  \* the names the program asks for
    MaxFileLines \* bound: lines of the file

ASSUME ConfigConstants ==
    MaxFileLines \in Nat /\ \A line \in FileLines : line \in Seq(ToSet(line))

Stop == <<"_">>
Garbage == "?"       \* what malloc()'s memory held before

VARIABLES
    text,         \* the lines of the file
    cpc,           \* "count", "copy", "ready", "found"
    nextLine,         \* the line that getline() reads nextLine
    lines,        \* the number of lines counted, returned in outlines
    destination,  \* the lines kept
    property,     \* the name asked for
    answer        \* isAList, the index of the line or of the list's first line, listLen

configVars == <<text, cpc, nextLine, lines, destination, property, answer>>

None == [isAList |-> FALSE, at |-> 0, listLen |-> 0]

ConfigInit ==
    /\ text \in UNION {[1 .. n -> FileLines] : n \in 0 .. MaxFileLines}
    /\ cpc = "count" /\ nextLine = 1
    /\ lines = 0 /\ destination = <<>>
    /\ property = <<>> /\ answer = None

-----------------------------------------------------------------------------
(* openConfigFile() *)

(* Lines that are empty or comments are skipped. *)
Counts(line) == line # <<>> /\ line[1] # "#"
Skipped == {line \in FileLines : ~Counts(line)}

CountLine ==
    /\ cpc = "count"
    /\ IF nextLine > Len(text) \/ (nextLine <= Len(text) /\ text[nextLine] = Stop)
       THEN cpc' = "copy" /\ nextLine' = 1 /\ UNCHANGED lines
       ELSE /\ lines' = IF Counts(text[nextLine]) THEN lines + 1 ELSE lines
            /\ nextLine' = nextLine + 1
            /\ UNCHANGED cpc
    /\ UNCHANGED <<text, destination, property, answer>>

(* mstrcpy() leaves out the spaces; a tilde becomes one.                   *)
Kept(line) ==
    LET kept == Without(line, {" "})
    IN  [k \in DOMAIN kept |-> IF kept[k] = "~" THEN " " ELSE kept[k]]

(* The terminator is put where the source ends, the newline included: in   *)
(* between the memory shows through.                                       *)
mstrcpy(line) == {Kept(line), Append(Kept(line), Garbage)}

(* The second pass does not look for the line that stops the first. *)
CopyLine ==
    /\ cpc = "copy"
    /\ IF nextLine > Len(text)
       THEN cpc' = "ready" /\ UNCHANGED <<nextLine, destination>>
       ELSE /\ destination' \in IF Counts(text[nextLine])
                                THEN {Append(destination, l) : l \in mstrcpy(text[nextLine])}
                                ELSE {destination}
            /\ nextLine' = nextLine + 1
            /\ UNCHANGED cpc
    /\ UNCHANGED <<text, lines, property, answer>>

-----------------------------------------------------------------------------
(* getProperty() *)

(* The lines it is given: lines of them were counted. *)
File == SubSeq(destination, 1, lines)

(* The position of the first `=', or 0. *)
EqualAt(line) == SelectInSeq(line, LAMBDA c : c = "=")

(* Mutant of SameName: compared over the length of the property. *)
SameNameStart(line, name) == IsPrefix(name, line)

(* mstrcmp() over the characters in front of the `=' of the line. *)
SameName(line, name) == IsPrefix(SubSeq(line, 1, EqualAt(line) - 1), name)

CharAt(line, k) == IF k <= Len(line) THEN line[k] ELSE "\\0"

(* The list goes on while neither of the two characters is a colon. *)
EndsList(line) == CharAt(line, 1) = ":" \/ CharAt(line, 2) = ":"

(* Where the loop that starts at the property's line comes to its end.     *)
EndOf(i) ==
    LET ends == {n \in i .. Len(destination) : EndsList(destination[n])}
    IN  IF ends = {} THEN Len(destination) + 1 ELSE CHOOSE n \in ends : \A m \in ends : n <= m

Matches(name) ==
    {i \in 1 .. Len(File) : EqualAt(File[i]) > 0 /\ SameName(File[i], name)}

Found(i) ==
    IF CharAt(destination[i], EqualAt(destination[i]) + 1) = ":"
    THEN [isAList |-> TRUE, at |-> i + 1, listLen |-> EndOf(i) - i - 1]
    ELSE [isAList |-> FALSE, at |-> i, listLen |-> 0]

getProperty(name) ==
    /\ cpc = "ready"
    /\ cpc' = "found"
    /\ property' = name
    /\ answer' = IF Matches(name) = {} THEN None
                 ELSE Found(CHOOSE i \in Matches(name) : \A j \in Matches(name) : i <= j)
    /\ UNCHANGED <<text, nextLine, lines, destination>>

ConfigNext == CountLine \/ CopyLine \/ \E name \in Properties : getProperty(name)

ConfigSpec == ConfigInit /\ [][ConfigNext]_configVars
-----------------------------------------------------------------------------
(* Properties *)

(* The file as it is meant: up to the line that stops, without comments.   *)
Stops == SelectInSeq(text, LAMBDA l : l = Stop)
MeantLines ==
    Without(IF Stops = 0 THEN text ELSE SubSeq(text, 1, Stops - 1), Skipped)

NameOf(line) == SubSeq(Kept(line), 1, EqualAt(Kept(line)) - 1)
Named(name) ==
    {i \in DOMAIN MeantLines :
        EqualAt(Kept(MeantLines[i])) > 0 /\ NameOf(MeantLines[i]) = name}

(* No line in front of the first one with the name asked for has a name    *)
(* that this one begins with.                                              *)
NoPrefixBefore(name) ==
    \A i \in DOMAIN MeantLines :
        /\ EqualAt(Kept(MeantLines[i])) > 0
        /\ IsStrictPrefix(NameOf(MeantLines[i]), name)
        => \E j \in Named(name) : j < i

(* A property is found exactly when the part of the file that counts has   *)
(* it, at its first line, if no beginning of its name stands before it.    *)
FoundIsAsked ==
    cpc = "found" /\ NoPrefixBefore(property) =>
        IF Named(property) = {} THEN answer = None
        ELSE LET first == CHOOSE i \in Named(property) : \A j \in Named(property) : i <= j
             IN  answer.at = IF answer.isAList THEN first + 1 ELSE first
=============================================================================
