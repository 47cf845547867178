------------------------------ MODULE FileList ------------------------------
(***************************************************************************)
(* The array of the files to send that the client's loadCfg()              *)
(* (src/src/client.cpp) makes of the list `files' with is_regular_file()   *)
(* and getFiles() of src/src/FileSystem/FS.c.                              *)
(*                                                                         *)
(* A name is the pair of an entry's number and of a file's number in that  *)
(* directory, 0 for the entry itself.  What the directories hold does not  *)
(* change meanwhile.                                                       *)
(***************************************************************************)
EXTENDS Integers, Sequences, FiniteSets, SequencesExt

CONSTANTS MaxEntries,  \* bound: entries of the list
          MaxFiles     \* bound: regular files of a directory

ASSUME ListConstants == MaxEntries \in Nat /\ MaxFiles \in Nat

(* A directory's `below' tells whether it has a directory with files; its  *)
(* `slash' whether it is written with the slash at the end.                *)
Entries ==
    {[kind |-> k, files |-> 0, below |-> FALSE, slash |-> FALSE] : k \in {"file", "missing"}}
        \cup [kind : {"dir"}, files : 0 .. MaxFiles, below : BOOLEAN, slash : BOOLEAN]

Names == (1 .. MaxEntries) \X (0 .. MaxFiles)
Unwritten == <<0, 0>>            \* a name that was allocated and not copied
Wrong(i) == <<i, MaxFiles + 1>>  \* directory and name joined without a slash

VARIABLES
    list,    \* the elements of the property
    pc,      \* "loop", "done" or "crashed"
    i,       \* the element looked at
    files    \* the array; its length is curlen

listVars == <<list, pc, i, files>>

ListInit ==
    /\ list \in UNION {[1 .. n -> Entries] : n \in 0 .. MaxEntries}
    /\ pc = "loop" /\ i = 1 /\ files = <<>>

(* What stat() says of a path; of one that does not exist it says nothing  *)
(* and the structure is read as it is.                                     *)
is_regular_file(e) ==
    CASE e.kind = "file" -> {TRUE}
      [] e.kind = "dir" -> {FALSE}
      [] OTHER -> BOOLEAN

(* Mutant of getFiles: directories are taken for files. *)
getFilesAndDirs(k) ==
    LET e == list[k]
    IN  IF e.kind # "dir" THEN {<<>>}
        ELSE {[q \in 1 .. e.files |-> <<k, q>>]
                 \o (IF e.below THEN <<Wrong(k)>> ELSE <<>>)}

(* The regular files of a directory.  Names are joined as they are, so     *)
(* without the slash every name is a path that does not exist.             *)
getFiles(k) ==
    LET e == list[k]
        present == e.files + (IF e.below THEN 1 ELSE 0)
    IN  CASE e.kind # "dir" -> {<<>>}
          [] e.kind = "dir" /\ e.slash -> {[q \in 1 .. e.files |-> <<k, q>>]}
          [] OTHER -> {[q \in 1 .. n |-> Wrong(k)] : n \in 0 .. present}

Advance ==
    /\ i' = i + 1
    /\ pc' = IF i = Len(list) THEN "done" ELSE "loop"

(* The array grows by one, and the name is copied to the place of the      *)
(* element's number in the list.  A place behind the array holds whatever  *)
(* the memory has for a pointer.                                           *)
AddFile ==
    /\ pc = "loop" /\ i <= Len(list)
    /\ TRUE \in is_regular_file(list[i])
    /\ LET grown == Append(files, Unwritten)
       IN  \/ /\ i <= Len(grown)
              /\ files' = [grown EXCEPT ![i] = <<i, 0>>]
              /\ Advance
           \/ /\ i > Len(grown)
              /\ files' = grown
              /\ Advance
           \/ /\ i > Len(grown)
              /\ files' = grown
              /\ pc' = "crashed"
              /\ UNCHANGED i
    /\ UNCHANGED list

AddDirectory ==
    /\ pc = "loop" /\ i <= Len(list)
    /\ FALSE \in is_regular_file(list[i])
    /\ \E out \in getFiles(i) : files' = files \o out
    /\ Advance
    /\ UNCHANGED list

Finish ==
    /\ pc = "loop" /\ i > Len(list)
    /\ pc' = "done"
    /\ UNCHANGED <<list, i, files>>

ListNext == AddFile \/ AddDirectory \/ Finish

ListSpec == ListInit /\ [][ListNext]_listVars
-----------------------------------------------------------------------------
(* Properties *)

(* The files the list stands for. *)
Meant ==
    {n \in Names : /\ n[1] <= Len(list)
                   /\ IF n[2] = 0 THEN list[n[1]].kind = "file"
                                  ELSE n[2] <= list[n[1]].files}

DirectoriesLast ==
    \A j, k \in DOMAIN list : j < k /\ list[j].kind = "dir" => list[k].kind = "dir"

WellWritten == \A k \in DOMAIN list : list[k].kind = "file" \/ list[k].slash

(* With the directories at the end, and each with its slash, every file is *)
(* in the array, once, and nothing else is.                                *)
ListedOnce ==
    pc = "done" /\ DirectoriesLast /\ WellWritten =>
        ToSet(files) = Meant /\ Len(files) = Cardinality(Meant)
=============================================================================
