------------------------------ MODULE HostProofs ------------------------------
(***************************************************************************)
(* Proofs about the programs of the host: Terminal for any number of       *)
(* sessions, lines and messages, AccessControl for any addresses, networks *)
(* and lists, Config for any file and any names, FileList for any list and *)
(* any directories, Extract for any number and lengths of the files stored.*)
(***************************************************************************)
EXTENDS Terminal, AccessControl, Config, FileList, Extract, CommonLemmas, FiniteSetTheorems,
        SequenceTheorems, TLAPS

-----------------------------------------------------------------------------
(* Terminal *)

Steps == {"none", "auth", "channel", "shell", "read", "verify", "load", "exit", "ended"}

(* The steps a session reaches only through its login, and those from      *)
(* which none of its lines is handled.                                     *)
Entered == {"channel", "shell", "read", "verify", "load", "exit"}

TypeInv ==
    /\ step \in [Terminals -> Steps]
    /\ handled \in [Terminals -> Seq(Lines)]
    /\ typed \in [Terminals -> Seq(Lines)]
    /\ main \in Stages

EnteredByLogin == \A s \in Sessions : step[s] \in Entered => s \in loggedIn

(* Once main() has ended the local terminal has, too, or never was.        *)
LocalEnds == main = "ended" => step[Local] \in {"none", "ended"}

TerminalInv ==
    /\ TypeInv
    /\ EnteredByLogin
    /\ LinesAfterLogin
    /\ step[Local] \notin Loops
    /\ LocalEnds
    /\ ~WithLocal => step[Local] = "none"
    /\ LocalIsNeverLate

LEMMA TerminalInit == Init => TerminalInv
<1>. SUFFICES ASSUME Init PROVE TerminalInv
  OBVIOUS
<1>1. Local \in Terminals /\ \A s \in Sessions : s \in Terminals /\ s # Local
  BY TerminalConstants DEF Terminals
<1>2. TypeInv
  BY DEF Init, TypeInv, Steps, Stages
<1>3. step[Local] = "none"
  BY <1>1 DEF Init
<1>. QED
  BY <1>1, <1>2, <1>3 DEF Init, TerminalInv, EnteredByLogin, LinesAfterLogin, Entered, Loops,
     LocalEnds, LocalIsNeverLate

(* A step of one terminal that handles no line.                            *)
LEMMA OneMoves ==
  ASSUME TerminalInv, NEW p \in Terminals, NEW where \in Steps, Goto(p, where),
         UNCHANGED <<main, late, handled>>, typed' \in [Terminals -> Seq(Lines)],
         loggedIn \subseteq loggedIn',
         p \in Sessions /\ where \in Entered => p \in loggedIn',
         p = Local => /\ step[p] \notin {"none", "ended"}
                      /\ where \notin Loops
  PROVE  TerminalInv'
<1>1. step' \in [Terminals -> Steps] /\ step'[p] = where
      /\ \A q \in Terminals : q # p => step'[q] = step[q]
  BY DEF TerminalInv, TypeInv, Goto
<1>2. Local \in Terminals /\ Sessions \subseteq Terminals
  BY DEF Terminals
<1>3. TypeInv'
  BY <1>1 DEF TerminalInv, TypeInv
<1>4. EnteredByLogin'
  BY <1>1, <1>2 DEF TerminalInv, EnteredByLogin
<1>5. LinesAfterLogin'
  BY DEF TerminalInv, LinesAfterLogin
<1>6. /\ step'[Local] \notin Loops
      /\ LocalEnds'
      /\ ~WithLocal => step'[Local] = "none"
      /\ LocalIsNeverLate'
  BY <1>1, <1>2 DEF TerminalInv, LocalEnds, LocalIsNeverLate
<1>. QED
  BY <1>3, <1>4, <1>5, <1>6 DEF TerminalInv

LEMMA SessionKeeps ==
  ASSUME TerminalInv, NEW s \in Sessions,
         Accept(s) \/ Message(s) \/ HangUp(s) \/ Close(s)
  PROVE  TerminalInv'
<1>0. s \in Terminals /\ s # Local
  BY TerminalConstants DEF Terminals
<1>1. CASE Accept(s)
  BY <1>0, <1>1, OneMoves DEF Accept, Steps, Entered, TerminalInv, TypeInv
<1>2. CASE Message(s)
  <2>1. step[s] \in Loops /\ UNCHANGED <<main, late, handled, typed>>
    BY <1>2 DEF Message
  <2>2. PICK awaited \in BOOLEAN :
          /\ Goto(s, IF awaited THEN After(step[s]) ELSE step[s])
          /\ loggedIn' = IF awaited /\ step[s] = "auth" THEN loggedIn \cup {s} ELSE loggedIn
    BY <1>2 DEF Message
  <2>3. /\ step[s] = "auth" => After(step[s]) = "channel"
        /\ step[s] = "channel" => After(step[s]) = "shell"
        /\ step[s] = "shell" => After(step[s]) = "read"
    BY DEF After
  <2>. DEFINE where == IF awaited THEN After(step[s]) ELSE step[s]
  <2>4. where \in Steps /\ loggedIn \subseteq loggedIn'
    BY <2>1, <2>2, <2>3 DEF Loops, Steps
  <2>5. where \in Entered => s \in loggedIn'
    BY <2>1, <2>2 DEF Loops, Entered, TerminalInv, EnteredByLogin
  <2>. QED
    BY <1>0, <2>1, <2>2, <2>4, <2>5, OneMoves DEF TerminalInv, TypeInv
<1>3. CASE HangUp(s) \/ Close(s)
  BY <1>0, <1>3, OneMoves DEF HangUp, Close, Steps, Entered, TerminalInv, TypeInv
<1>. QED
  BY <1>1, <1>2, <1>3

LEMMA ReadKeeps ==
  ASSUME TerminalInv, NEW p \in Terminals, Read(p)
  PROVE  TerminalInv'
<1>0. /\ Local \in Terminals /\ \A s \in Sessions : s \in Terminals
      /\ typed[p] \in Seq(Lines) /\ handled[p] \in Seq(Lines)
  BY DEF Terminals, TerminalInv, TypeInv
<1>. DEFINE line == Head(typed[p])
            where == IF line = "exit" THEN "exit" ELSE "verify"
<1>1. /\ step[p] = "read" /\ typed[p] # <<>> /\ line \in Lines
      /\ handled' = [handled EXCEPT ![p] = Append(@, line)]
      /\ step' = [step EXCEPT ![p] = where]
      /\ UNCHANGED <<main, late, loggedIn>>
  BY <1>0 DEF Read, Goto
<1>2. typed' \in [Terminals -> Seq(Lines)]
  <2>1. PICK n \in 1 .. (IF p = Local THEN 1 ELSE Len(typed[p])) :
          typed' = [typed EXCEPT ![p] = SubSeq(@, n + 1, Len(@))]
    BY DEF Read
  <2>2. n + 1 \in Nat /\ n + 1 >= 1
    BY <1>0, <2>1
  <2>3. SubSeq(typed[p], n + 1, Len(typed[p])) \in Seq(Lines)
    BY <1>0, <2>2
  <2>. QED
    BY <2>1, <2>3 DEF TerminalInv, TypeInv
<1>. HIDE DEF line
<1>a. Append(handled[p], line) \in Seq(Lines) /\ where \in Steps
  BY <1>0, <1>1 DEF Steps
<1>3. TypeInv'
  BY <1>0, <1>1, <1>2, <1>a DEF TerminalInv, TypeInv
<1>4. EnteredByLogin'
  BY <1>0, <1>1 DEF TerminalInv, TypeInv, EnteredByLogin, Entered
<1>5. LinesAfterLogin'
  BY <1>0, <1>1 DEF TerminalInv, TypeInv, EnteredByLogin, Entered, LinesAfterLogin
<1>6. /\ step'[Local] \notin Loops
      /\ LocalEnds'
      /\ ~WithLocal => step'[Local] = "none"
      /\ LocalIsNeverLate'
  BY <1>0, <1>1 DEF TerminalInv, TypeInv, LocalEnds, LocalIsNeverLate, Loops
<1>. QED
  BY <1>3, <1>4, <1>5, <1>6 DEF TerminalInv

LEMMA TerminalKeeps ==
  ASSUME TerminalInv, NEW p \in Terminals, Type(p) \/ Terminal(p)
  PROVE  TerminalInv'
<1>1. CASE Type(p)
  <2>1. PICK line \in Lines : typed' = [typed EXCEPT ![p] = Append(@, line)]
    BY <1>1 DEF Type
  <2>2. typed' \in [Terminals -> Seq(Lines)]
    BY <2>1 DEF TerminalInv, TypeInv
  <2>3. UNCHANGED <<main, step, loggedIn, handled, late>>
    BY <1>1 DEF Type
  <2>. QED
    BY <2>2, <2>3 DEF TerminalInv, TypeInv, EnteredByLogin, LinesAfterLogin, LocalEnds,
       LocalIsNeverLate
<1>2. CASE Exit(p)
  <2>1. step[p] = "exit" /\ step' = [step EXCEPT ![p] = "ended"]
        /\ UNCHANGED <<main, loggedIn, typed, handled>>
        /\ late' \subseteq late \cup {p} /\ (main # "ended" => late' = late)
    BY <1>2 DEF Exit, Goto
  <2>2. Local \in Terminals /\ \A s \in Sessions : s \in Terminals
    BY DEF Terminals
  <2>3. LocalIsNeverLate'
    <3>1. p = Local => main # "ended"
      BY <2>1 DEF TerminalInv, TypeInv, LocalEnds
    <3>. QED
      BY <2>1, <3>1 DEF TerminalInv, LocalIsNeverLate
  <2>. QED
    BY <2>1, <2>2, <2>3 DEF TerminalInv, TypeInv, Steps, EnteredByLogin, Entered,
       LinesAfterLogin, LocalEnds, Loops
<1>3. CASE Verify(p) \/ Load(p)
  <2>1. PICK where \in {"load", "read"} : Goto(p, where)
    BY <1>3 DEF Verify, Load
  <2>2. p \in Sessions => p \in loggedIn
    BY <1>3 DEF Verify, Load, TerminalInv, EnteredByLogin, Entered
  <2>. QED
    BY <1>3, <2>1, <2>2, OneMoves DEF Verify, Load, Steps, Loops, TerminalInv, TypeInv
<1>. QED
  BY <1>1, <1>2, <1>3, ReadKeeps DEF Terminal

LEMMA TerminalNext == TerminalInv /\ [Next]_vars => TerminalInv'
<1>. SUFFICES ASSUME TerminalInv, [Next]_vars PROVE TerminalInv'
  OBVIOUS
<1>1. CASE Shutdown
  <2>1. Local \in Terminals /\ \A s \in Sessions : s \in Terminals /\ s # Local
    BY TerminalConstants DEF Terminals
  <2>2. \A s \in Sessions : step'[s] = step[s]
    BY <1>1, <2>1 DEF Shutdown, TerminalInv, TypeInv
  <2>3. step' \in [Terminals -> Steps] /\ step'[Local] \in {"none", "ended"}
        /\ (~WithLocal => step'[Local] = "none")
    BY <1>1, <2>1 DEF Shutdown, TerminalInv, TypeInv, Steps
  <2>4. main' \in Stages
    BY <1>1 DEF Shutdown, Stages
  <2>. QED
    BY <1>1, <2>2, <2>3, <2>4 DEF Shutdown, TerminalInv, TypeInv, EnteredByLogin, LinesAfterLogin,
       LocalEnds, LocalIsNeverLate, Loops
<1>2. CASE ForkTerminal
  <2>1. Local \in Terminals /\ \A s \in Sessions : s \in Terminals /\ s # Local
    BY TerminalConstants DEF Terminals
  <2>2. /\ \A s \in Sessions : step'[s] = step[s]
        /\ step' \in [Terminals -> Steps] /\ step'[Local] \notin Loops
        /\ ~WithLocal => step'[Local] = "none"
    BY <1>2, <2>1 DEF ForkTerminal, TerminalInv, TypeInv, Steps, Loops
  <2>3. main' = "listener" /\ main' \in Stages
    BY <1>2 DEF ForkTerminal, Stages
  <2>. QED
    BY <1>2, <2>2, <2>3 DEF ForkTerminal, TerminalInv, TypeInv, EnteredByLogin, LinesAfterLogin,
       LocalEnds, LocalIsNeverLate
<1>3. CASE ForkListener \/ OpenSocket
  <2>1. main' \in {"socket", "serves"} /\ main' \in Stages
    BY <1>3 DEF ForkListener, OpenSocket, Stages
  <2>. QED
    BY <1>3, <2>1 DEF ForkListener, OpenSocket, termVars, TerminalInv, TypeInv, EnteredByLogin,
       LinesAfterLogin, LocalEnds, LocalIsNeverLate
<1>4. CASE Replace \/ UNCHANGED vars
  BY <1>4 DEF Replace, vars, termVars, TerminalInv, TypeInv, EnteredByLogin,
     LinesAfterLogin, LocalEnds, LocalIsNeverLate
<1>. QED
  BY <1>1, <1>2, <1>3, <1>4, SessionKeeps, TerminalKeeps DEF Next, Woken, LastDatagram

(* No line of an SSH session is handled before its user gave the password, *)
(* whatever the client sends and in whatever order.                        *)
THEOREM LoginComesFirst == Spec => []LinesAfterLogin
<1>1. Init => TerminalInv
  BY TerminalInit
<1>2. TerminalInv /\ [Next]_vars => TerminalInv'
  BY TerminalNext
<1>3. TerminalInv => LinesAfterLogin
  BY DEF TerminalInv
<1>. QED
  BY <1>1, <1>2, <1>3, PTL DEF Spec

(* The local terminal, which is killed with the server, never signals a    *)
(* process number that is no longer the server's.                          *)
THEOREM LocalSignalsInTime == Spec => []LocalIsNeverLate
<1>1. Init => TerminalInv
  BY TerminalInit
<1>2. TerminalInv /\ [Next]_vars => TerminalInv'
  BY TerminalNext
<1>3. TerminalInv => LocalIsNeverLate
  BY DEF TerminalInv
<1>. QED
  BY <1>1, <1>2, <1>3, PTL DEF Spec

-----------------------------------------------------------------------------
(* AccessControl *)

(* What no step changes and the check relies on.                           *)
AccessInv ==
    /\ configs = [ips |-> configs.ips, managers |-> configs.managers,
                  networks |-> configs.networks,
                  allowEqualsDeny_ips |-> configs.allowEqualsDeny_ips,
                  allowEqualsDeny_nets |-> configs.allowEqualsDeny_nets]
    /\ configs.networks \in Seq(Networks)
    /\ configs.allowEqualsDeny_nets \in Int

LEMMA AccessInitially == AccessInit => AccessInv
<1>. SUFFICES ASSUME AccessInit PROVE AccessInv
  OBVIOUS
<1>1. PICK l \in ListLengths :
        configs \in [ips : ListsOf(Hosts, l[1]), managers : ListsOf(Hosts, l[2]),
            networks : UNION {ListsOf(Networks, n) : n \in 0 .. MaxNetworks},
            allowEqualsDeny_ips : Flags, allowEqualsDeny_nets : Flags]
  BY DEF AccessInit, Configurations
<1>2. PICK n \in 0 .. MaxNetworks : configs.networks \in ListsOf(Networks, n)
  BY <1>1
<1>3. configs.networks \in Seq(Networks)
  <2>1. n \in Nat /\ configs.networks \in [1 .. n -> Networks]
    BY <1>2, AccessConstants DEF ListsOf
  <2>. QED
    BY <2>1
<1>. QED
  BY <1>1, <1>3, AccessConstants DEF AccessInv

(* The answer of the networks' loop, with one network found that was not,  *)
(* or with the same ones.                                                  *)
LEMMA FoundMore ==
  ASSUME NEW before \in BOOLEAN, NEW after \in BOOLEAN, before => after, NEW flag \in Int
  PROVE  IF flag # 0 THEN Refused(Xor(before, flag)) => Refused(Xor(after, flag))
                     ELSE Refused(Xor(after, flag)) => Refused(Xor(before, flag))
<1>1. CASE before = after
  BY <1>1
<1>2. CASE ~before /\ after
  <2>1. Xor(before, flag) = flag
        /\ Xor(after, flag) = IF flag % 2 = 0 THEN flag + 1 ELSE flag - 1
    BY <1>2 DEF Xor
  <2>2. flag < 0 /\ flag % 2 = 0 => flag + 1 <= 0
    OBVIOUS
  <2>. QED
    BY <2>1, <2>2 DEF Refused
<1>. QED
  BY <1>1, <1>2

LEMMA MoreNetworks == AccessInv => NetworksAreMonotone
<1>. SUFFICES ASSUME AccessInv PROVE NetworksAreMonotone
  OBVIOUS
<1>. SUFFICES ASSUME NEW h \in Hosts, NEW net \in Networks,
                     NEW more, more = [configs EXCEPT !.networks = Append(@, net)],
                     NEW before \in Answers(configs, h), NEW after \in Answers(more, h),
                     before # 2, after # 2
              PROVE  IF configs.allowEqualsDeny_nets # 0 THEN Refused(before) => Refused(after)
                                                         ELSE Refused(after) => Refused(before)
  BY DEF NetworksAreMonotone
<1>1. /\ more.ips = configs.ips /\ more.managers = configs.managers
      /\ more.networks = Append(configs.networks, net)
      /\ more.allowEqualsDeny_ips = configs.allowEqualsDeny_ips
      /\ more.allowEqualsDeny_nets = configs.allowEqualsDeny_nets
  BY DEF AccessInv
<1>2. before = ByLists(configs, h)
  BY DEF Answers
<1>3. after = ByLists(more, h)
  BY DEF Answers
<1>. DEFINE Listed(c) == \E k \in DOMAIN c.networks : InNetwork(h, c.networks[k])
            flag == configs.allowEqualsDeny_nets
            kept == \E k \in DOMAIN configs.ips : h = configs.ips[k]
<1>4. Listed(configs) => Listed(more)
  <2>1. /\ DOMAIN configs.networks \subseteq DOMAIN more.networks
        /\ \A k \in DOMAIN configs.networks : more.networks[k] = configs.networks[k]
    BY <1>1, AppendProperties DEF AccessInv
  <2>. QED
    BY <2>1
<1>5. CASE kept
  BY <1>1, <1>2, <1>3, <1>5 DEF ByLists
<1>6. CASE ~kept
  <2>1. before = Xor(Listed(configs), flag)
    BY <1>2, <1>6 DEF ByLists
  <2>2. after = Xor(Listed(more), flag)
    BY <1>1, <1>3, <1>6 DEF ByLists
  <2>3. Listed(configs) \in BOOLEAN /\ Listed(more) \in BOOLEAN /\ flag \in Int
    BY DEF AccessInv
  <2>. HIDE DEF Listed, flag
  <2>4. IF flag # 0 THEN Refused(before) => Refused(after)
                    ELSE Refused(after) => Refused(before)
    BY <1>4, <2>1, <2>2, <2>3, FoundMore
  <2>. QED
    BY <2>4 DEF flag
<1>. QED
  BY <1>5, <1>6

(* One more network in a blacklist never lets a host in, and one more in a *)
(* list of allowed ones never keeps one out, whatever number the flag is.  *)
THEOREM NetworksOnlyAdd == AccessSpec => []NetworksAreMonotone
<1>1. AccessInit => AccessInv
  BY AccessInitially
<1>2. AccessInv /\ [AccessNext]_accessVars => AccessInv'
  BY DEF AccessInv, AccessNext, check_host_validity, accessVars
<1>3. AccessInv => NetworksAreMonotone
  BY MoreNetworks
<1>. QED
  BY <1>1, <1>2, <1>3, PTL DEF AccessSpec
-----------------------------------------------------------------------------
(* Config *)

Characters == (UNION {ToSet(line) : line \in FileLines}) \cup {" ", Garbage}

(* The lines of the beginning of the file that count *)
CountedLines(n) == Without(SubSeq(text, 1, n), Skipped)

(* What is kept of a line has all its characters but the spaces, and       *)
(* perhaps one more at its end, which is no equals sign.                   *)
Copies(kept, meant) ==
    /\ kept \in Seq(Seq(Characters)) /\ Len(kept) = Len(meant)
    /\ \A p \in 1 .. Len(meant) : kept[p] \in mstrcpy(meant[p])

ConfigInv ==
    /\ text \in Seq(FileLines)
    /\ cpc \in {"count", "copy", "ready", "found"}
    /\ nextLine \in 1 .. Len(text) + 1
    /\ cpc = "count" =>
          /\ lines = Len(CountedLines(nextLine - 1)) /\ destination = <<>>
          /\ \A n \in 1 .. nextLine - 1 : text[n] # Stop
    /\ cpc # "count" => lines = Len(MeantLines)
    /\ cpc = "copy" => Copies(destination, CountedLines(nextLine - 1))
    /\ cpc \in {"ready", "found"} => Copies(destination, CountedLines(Len(text)))
    /\ cpc = "found" =>
          answer = IF Matches(property) = {} THEN None
                   ELSE Found(CHOOSE p \in Matches(property) :
                                 \A j \in Matches(property) : p <= j)

LEMMA FileLinesTyped == \A line \in FileLines : line \in Seq(Characters)
<1>. SUFFICES ASSUME NEW line \in FileLines PROVE line \in Seq(Characters)
  OBVIOUS
<1>1. line \in Seq(ToSet(line)) /\ ToSet(line) \subseteq Characters
  BY ConfigConstants DEF Characters
<1>. QED
  BY <1>1

(* What is kept of a line *)
LEMMA KeptTyped ==
  ASSUME NEW line \in FileLines
  PROVE  /\ Kept(line) \in Seq(Characters)
         /\ mstrcpy(line) \subseteq Seq(Characters)
<1>. DEFINE kept == Without(line, {" "})
<1>1. kept \in Seq(Characters)
  BY FileLinesTyped, WhatIsLeft
<1>2. Kept(line) = [k \in DOMAIN kept |-> IF kept[k] = "~" THEN " " ELSE kept[k]]
  BY DEF Kept
<1>. HIDE DEF kept
<1>3. " " \in Characters /\ Garbage \in Characters
  BY DEF Characters
<1>4. Kept(line) \in Seq(Characters)
  <2>1. /\ DOMAIN kept = 1 .. Len(kept) /\ Len(kept) \in Nat
        /\ \A k \in 1 .. Len(kept) : kept[k] \in Characters
    BY <1>1
  <2>2. Kept(line) \in [1 .. Len(kept) -> Characters]
    BY <1>2, <1>3, <2>1
  <2>. QED
    BY <2>1, <2>2
<1>5. Append(Kept(line), Garbage) \in Seq(Characters)
  BY <1>3, <1>4, AppendProperties
<1>. QED
  BY <1>4, <1>5 DEF mstrcpy

(* The first equals sign is where it was, and with it the name. *)
LEMMA SameLine ==
  ASSUME NEW line \in FileLines, NEW kept \in mstrcpy(line)
  PROVE  /\ EqualAt(kept) = EqualAt(Kept(line)) /\ EqualAt(Kept(line)) \in Nat
         /\ EqualAt(Kept(line)) > 0 =>
               SubSeq(kept, 1, EqualAt(kept) - 1) = NameOf(line) /\ NameOf(line) \in Seq(Characters)
<1>. DEFINE s == Kept(line)
            At(t) == {p \in 1 .. Len(t) : t[p] = "="}
<1>1. s \in Seq(Characters)
  BY KeptTyped
<1>2. kept = s \/ kept = Append(s, Garbage)
  BY DEF mstrcpy
<1>3. /\ EqualAt(kept) = IF At(kept) # {} THEN Min(At(kept)) ELSE 0
      /\ EqualAt(s) = IF At(s) # {} THEN Min(At(s)) ELSE 0
  BY DEF EqualAt, SelectInSeq
<1>. HIDE DEF s
<1>4. At(kept) = At(s)
  <2>1. "=" # Garbage
    BY DEF Garbage
  <2>2. CASE kept = Append(s, Garbage)
    <3>1. /\ Len(kept) = Len(s) + 1 /\ Len(s) \in Nat
          /\ kept[Len(s) + 1] = Garbage /\ \A p \in 1 .. Len(s) : kept[p] = s[p]
      BY <1>1, <2>2
    <3>. QED
      BY <2>1, <3>1
  <2>. QED
    BY <1>2, <2>2
<1>5. At(s) # {} => Min(At(s)) \in 1 .. Len(s)
  <2>1. At(s) \subseteq Nat /\ At(s) \subseteq 1 .. Len(s)
    OBVIOUS
  <2>2. At(s) # {} => \E n \in At(s) : \A m \in At(s) : n <= m
    BY <2>1, Smallest
  <2>. QED
    BY <2>1, <2>2 DEF Min
<1>6. EqualAt(kept) = EqualAt(s) /\ EqualAt(s) \in Nat /\ EqualAt(s) <= Len(s)
  <2>. HIDE DEF At
  <2>1. EqualAt(kept) = EqualAt(s)
    BY <1>3, <1>4
  <2>2. EqualAt(s) = 0 \/ EqualAt(s) \in 1 .. Len(s)
    BY <1>3, <1>5
  <2>. QED
    BY <1>1, <2>1, <2>2
<1>7. ASSUME EqualAt(s) > 0
      PROVE  SubSeq(kept, 1, EqualAt(s) - 1) = SubSeq(s, 1, EqualAt(s) - 1)
             /\ SubSeq(s, 1, EqualAt(s) - 1) \in Seq(Characters)
  <2>. DEFINE n == EqualAt(s) - 1
  <2>1. n \in Nat /\ n <= Len(s)
    BY <1>6, <1>7
  <2>. HIDE DEF n
  <2>2. SubSeq(kept, 1, n) = SubSeq(s, 1, n) /\ SubSeq(s, 1, n) \in Seq(Characters)
    <3>1. CASE kept = Append(s, Garbage)
      <4>1. \A p \in 1 .. n : Append(s, Garbage)[p] = s[p]
        BY <1>1, <2>1
      <4>2. SubSeq(Append(s, Garbage), 1, n) = [p \in 1 .. n |-> Append(s, Garbage)[p]]
        BY <1>1, <2>1
      <4>3. SubSeq(s, 1, n) = [p \in 1 .. n |-> s[p]] /\ SubSeq(s, 1, n) \in Seq(Characters)
        BY <1>1, <2>1
      <4>. QED
        BY <3>1, <4>1, <4>2, <4>3
    <3>. QED
      BY <1>1, <1>2, <2>1, <3>1
  <2>. QED
    BY <2>2 DEF n
<1>. QED
  BY <1>6, <1>7 DEF s, NameOf

(* The part of the file that counts is read up to the line that stops.     *)
LEMMA StopsThere ==
  ASSUME text \in Seq(FileLines), NEW n \in 1 .. Len(text) + 1,
         \A m \in 1 .. n - 1 : text[m] # Stop,
         n = Len(text) + 1 \/ text[n] = Stop
  PROVE  MeantLines = CountedLines(n - 1)
<1>. DEFINE I == {p \in 1 .. Len(text) : text[p] = Stop}
<1>1. Stops = IF I # {} THEN Min(I) ELSE 0
  BY DEF Stops, SelectInSeq
<1>2. Len(text) \in Nat /\ n \in Nat
  OBVIOUS
<1>3. CASE n = Len(text) + 1
  <2>1. I = {}
    BY <1>2, <1>3
  <2>2. SubSeq(text, 1, n - 1) = text
    BY <1>2, <1>3
  <2>. QED
    BY <1>1, <2>1, <2>2 DEF MeantLines, CountedLines
<1>4. CASE n # Len(text) + 1
  <2>1. n \in I /\ \A m \in I : n <= m
    BY <1>2, <1>4
  <2>2. \A m \in I : (\A k \in I : m <= k) => m = n
    BY <1>2, <2>1
  <2>3. Min(I) = n
    <3>. HIDE DEF I
    <3>. QED
      BY <2>1, <2>2 DEF Min
  <2>4. Stops = n /\ n # 0
    BY <1>1, <2>1, <2>3
  <2>. QED
    BY <2>4 DEF MeantLines, CountedLines
<1>. QED
  BY <1>3, <1>4

(* One line more is read. *)
LEMMA ReadOn ==
  ASSUME text \in Seq(FileLines), NEW n \in 1 .. Len(text)
  PROVE  /\ CountedLines(n - 1) \in Seq(FileLines) /\ text[n] \in FileLines
         /\ CountedLines(n) = IF Counts(text[n]) THEN Append(CountedLines(n - 1), text[n])
                              ELSE CountedLines(n - 1)
<1>1. text[n] \in FileLines
  OBVIOUS
<1>2. text[n] \in Skipped <=> ~Counts(text[n])
  BY <1>1 DEF Skipped
<1>. QED
  BY <1>1, <1>2, OneMoreLeft DEF CountedLines

LEMMA ConfigBegin == ConfigInit => ConfigInv
<1>. SUFFICES ASSUME ConfigInit PROVE ConfigInv
  OBVIOUS
<1>1. text \in Seq(FileLines) /\ Len(text) \in Nat
  BY ConfigConstants DEF ConfigInit
<1>2. cpc = "count" /\ nextLine = 1 /\ lines = 0 /\ destination = <<>>
  BY DEF ConfigInit
<1>3. CountedLines(0) = <<>>
  <2>1. PICK g : LeavesOut(g, text, Skipped, FileLines)
    BY <1>1, LeftOver
  <2>2. 0 \in 0 .. Len(text) /\ g[0] = <<>>
    BY <1>1, <2>1 DEF LeavesOut
  <2>. QED
    BY <1>1, <2>1, <2>2, LeftOfBeginning DEF CountedLines
<1>. QED
  BY <1>1, <1>2, <1>3 DEF ConfigInv

LEMMA ConfigStep == ConfigInv /\ [ConfigNext]_configVars => ConfigInv'
<1>. SUFFICES ASSUME ConfigInv, [ConfigNext]_configVars PROVE ConfigInv'
  OBVIOUS
<1>1. /\ text \in Seq(FileLines) /\ Len(text) \in Nat
      /\ nextLine \in 1 .. Len(text) + 1 /\ nextLine \in Nat
  BY DEF ConfigInv
<1>2. ASSUME text' = text
      PROVE  MeantLines' = MeantLines /\ \A n : CountedLines(n)' = CountedLines(n)
  BY <1>2 DEF MeantLines, Stops, SelectInSeq, CountedLines
<1>3. CASE UNCHANGED configVars
  <2>1. /\ text' = text /\ cpc' = cpc /\ nextLine' = nextLine /\ lines' = lines
        /\ destination' = destination /\ property' = property /\ answer' = answer
    BY <1>3 DEF configVars
  <2>2. Matches(property)' = Matches(property) /\ \A p : Found(p)' = Found(p)
    BY <2>1 DEF Matches, File, Found, EndOf
  <2>. QED
    BY <1>2, <2>1, <2>2 DEF ConfigInv, CountedLines, MeantLines, Stops
<1>4. CASE CountLine
  <2>1. /\ text' = text /\ cpc = "count" /\ destination' = destination /\ destination = <<>>
        /\ lines = Len(CountedLines(nextLine - 1))
        /\ \A n \in 1 .. nextLine - 1 : text[n] # Stop
    BY <1>4 DEF CountLine, ConfigInv
  <2>2. CASE nextLine > Len(text) \/ (nextLine <= Len(text) /\ text[nextLine] = Stop)
    <3>1. cpc' = "copy" /\ nextLine' = 1 /\ lines' = lines
      BY <1>4, <2>2 DEF CountLine
    <3>2. nextLine = Len(text) + 1 \/ text[nextLine] = Stop
      BY <1>1, <2>2
    <3>3. MeantLines = CountedLines(nextLine - 1)
      BY <1>1, <2>1, <3>2, StopsThere
    <3>4. Copies(<<>>, CountedLines(0))
      <4>1. PICK g : LeavesOut(g, text, Skipped, FileLines)
        BY <1>1, LeftOver
      <4>2. 0 \in 0 .. Len(text) /\ g[0] = <<>>
        BY <1>1, <4>1 DEF LeavesOut
      <4>3. CountedLines(0) = <<>>
        BY <1>1, <4>1, <4>2, LeftOfBeginning DEF CountedLines
      <4>. QED
        BY <4>3 DEF Copies
    <3>. QED
      BY <1>1, <1>2, <2>1, <3>1, <3>3, <3>4 DEF ConfigInv
  <2>3. CASE ~(nextLine > Len(text) \/ (nextLine <= Len(text) /\ text[nextLine] = Stop))
    <3>1. /\ cpc' = "count" /\ nextLine' = nextLine + 1
          /\ lines' = IF Counts(text[nextLine]) THEN lines + 1 ELSE lines
      BY <1>4, <2>1, <2>3 DEF CountLine
    <3>2. nextLine \in 1 .. Len(text) /\ text[nextLine] # Stop /\ (nextLine + 1) - 1 = nextLine
      BY <1>1, <2>3
    <3>3. /\ CountedLines(nextLine - 1) \in Seq(FileLines)
          /\ CountedLines(nextLine) = IF Counts(text[nextLine])
                                 THEN Append(CountedLines(nextLine - 1), text[nextLine])
                                 ELSE CountedLines(nextLine - 1)
      BY <1>1, <3>2, ReadOn
    <3>4. lines' = Len(CountedLines(nextLine))
      BY <2>1, <3>1, <3>2, <3>3
    <3>5. nextLine + 1 \in 1 .. Len(text) + 1 /\ \A n \in 1 .. nextLine : text[n] # Stop
      BY <1>1, <2>1, <3>2
    <3>. QED
      BY <1>1, <1>2, <2>1, <3>1, <3>2, <3>4, <3>5 DEF ConfigInv
  <2>. QED
    BY <2>2, <2>3
<1>5. CASE CopyLine
  <2>1. /\ text' = text /\ cpc = "copy" /\ lines' = lines /\ lines = Len(MeantLines)
        /\ Copies(destination, CountedLines(nextLine - 1))
    BY <1>5 DEF CopyLine, ConfigInv
  <2>2. CASE nextLine > Len(text)
    <3>1. cpc' = "ready" /\ nextLine' = nextLine /\ destination' = destination
      BY <1>5, <2>2 DEF CopyLine
    <3>2. nextLine - 1 = Len(text)
      BY <1>1, <2>2
    <3>. QED
      BY <1>1, <1>2, <2>1, <3>1, <3>2 DEF ConfigInv
  <2>3. CASE ~(nextLine > Len(text))
    <3>1. nextLine \in 1 .. Len(text) /\ (nextLine + 1) - 1 = nextLine
          /\ nextLine + 1 \in 1 .. Len(text) + 1
      BY <1>1, <2>3
    <3>2. /\ cpc' = "copy" /\ nextLine' = nextLine + 1
          /\ destination' \in IF Counts(text[nextLine])
                               THEN {Append(destination, l) : l \in mstrcpy(text[nextLine])}
                               ELSE {destination}
      BY <1>5, <2>1, <2>3 DEF CopyLine
    <3>3. /\ CountedLines(nextLine - 1) \in Seq(FileLines) /\ text[nextLine] \in FileLines
          /\ CountedLines(nextLine) = IF Counts(text[nextLine])
                                 THEN Append(CountedLines(nextLine - 1), text[nextLine])
                                 ELSE CountedLines(nextLine - 1)
      BY <1>1, <3>1, ReadOn
    <3>4. Copies(destination', CountedLines(nextLine))
      <4>1. CASE Counts(text[nextLine])
        <5>. DEFINE m == CountedLines(nextLine - 1)
                    t == text[nextLine]
        <5>1. PICK l \in mstrcpy(t) : destination' = Append(destination, l)
          BY <3>2, <4>1
        <5>2. l \in Seq(Characters)
          BY <3>3, KeptTyped
        <5>3. /\ m \in Seq(FileLines) /\ CountedLines(nextLine) = Append(m, t) /\ t \in FileLines
              /\ Copies(destination, m)
          BY <2>1, <3>3, <4>1
        <5>. HIDE DEF m, t
        <5>4. /\ destination \in Seq(Seq(Characters)) /\ Len(destination) = Len(m)
              /\ \A p \in 1 .. Len(m) : destination[p] \in mstrcpy(m[p])
          BY <5>3 DEF Copies
        <5>5. Append(destination, l) \in Seq(Seq(Characters))
          BY <5>2, <5>4, AppendProperties
        <5>6. /\ Len(Append(m, t)) = Len(m) + 1 /\ Len(Append(destination, l)) = Len(m) + 1
              /\ Len(m) \in Nat
              /\ Append(m, t)[Len(m) + 1] = t /\ Append(destination, l)[Len(m) + 1] = l
              /\ \A p \in 1 .. Len(m) : /\ Append(m, t)[p] = m[p]
                                         /\ Append(destination, l)[p] = destination[p]
          BY <5>3, <5>4
        <5>7. ASSUME NEW p \in 1 .. Len(m) + 1
              PROVE  Append(destination, l)[p] \in mstrcpy(Append(m, t)[p])
          <6>1. p = Len(m) + 1 \/ p \in 1 .. Len(m)
            BY <5>6
          <6>. QED
            BY <5>1, <5>4, <5>6, <6>1
        <5>. QED
          BY <5>1, <5>3, <5>5, <5>6, <5>7 DEF Copies
      <4>2. CASE ~Counts(text[nextLine])
        BY <2>1, <3>2, <3>3, <4>2
      <4>. QED
        BY <4>1, <4>2
    <3>. QED
      BY <1>1, <1>2, <2>1, <3>1, <3>2, <3>4 DEF ConfigInv
  <2>. QED
    BY <2>2, <2>3
<1>6. ASSUME NEW name, getProperty(name) PROVE ConfigInv'
  <2>1. /\ text' = text /\ cpc = "ready" /\ lines' = lines /\ nextLine' = nextLine
        /\ destination' = destination /\ cpc' = "found" /\ property' = name
        /\ lines = Len(MeantLines) /\ Copies(destination, CountedLines(Len(text)))
    BY <1>6 DEF getProperty, ConfigInv
  <2>2. Matches(property)' = Matches(name) /\ \A p : Found(p)' = Found(p)
    BY <2>1 DEF Matches, File, Found, EndOf
  <2>3. answer' = IF Matches(name) = {} THEN None
                  ELSE Found(CHOOSE p \in Matches(name) : \A j \in Matches(name) : p <= j)
    BY <1>6 DEF getProperty
  <2>. QED
    BY <1>1, <1>2, <2>1, <2>2, <2>3 DEF ConfigInv
<1>. QED
  BY <1>3, <1>4, <1>5, <1>6 DEF ConfigNext

(* The lines that getProperty() goes through are the lines that are meant. *)
LEMMA FileIsMeant ==
  ASSUME ConfigInv, cpc = "found"
  PROVE  /\ MeantLines \in Seq(FileLines) /\ Len(MeantLines) \in Nat
         /\ Len(File) = Len(MeantLines)
         /\ \A p \in 1 .. Len(MeantLines) : File[p] \in mstrcpy(MeantLines[p])
<1>1. text \in Seq(FileLines) /\ Len(text) \in Nat
      /\ lines = Len(MeantLines) /\ Copies(destination, CountedLines(Len(text)))
  BY DEF ConfigInv
<1>2. CountedLines(Len(text)) = Without(text, Skipped)
  <2>1. SubSeq(text, 1, Len(text)) = text
    BY <1>1
  <2>. QED
    BY <2>1 DEF CountedLines
<1>3. PICK n \in 0 .. Len(text) : MeantLines = Without(SubSeq(text, 1, n), Skipped)
  <2>. DEFINE I == {p \in 1 .. Len(text) : text[p] = Stop}
  <2>1. Stops = IF I # {} THEN Min(I) ELSE 0
    BY DEF Stops, SelectInSeq
  <2>2. I # {} => Min(I) \in 1 .. Len(text)
    <3>1. I \subseteq Nat /\ I \subseteq 1 .. Len(text)
      OBVIOUS
    <3>2. I # {} => \E k \in I : \A m \in I : k <= m
      BY <3>1, Smallest
    <3>. QED
      BY <3>1, <3>2 DEF Min
  <2>3. Stops = 0 \/ Stops \in 1 .. Len(text)
    BY <2>1, <2>2
  <2>4. CASE Stops = 0
    <3>1. SubSeq(text, 1, Len(text)) = text /\ Len(text) \in 0 .. Len(text)
      BY <1>1
    <3>. QED
      BY <2>4, <3>1 DEF MeantLines
  <2>5. CASE Stops \in 1 .. Len(text)
    <3>1. Stops - 1 \in 0 .. Len(text) /\ Stops # 0
      BY <1>1, <2>5
    <3>. QED
      BY <3>1 DEF MeantLines
  <2>. QED
    BY <2>3, <2>4, <2>5
<1>. DEFINE all == Without(text, Skipped)
<1>4. /\ MeantLines \in Seq(FileLines) /\ Len(MeantLines) <= Len(all)
      /\ \A p \in 1 .. Len(MeantLines) : all[p] = MeantLines[p]
  BY <1>1, <1>3, LeftBegins
<1>5. Len(MeantLines) \in Nat
  BY <1>4
<1>6. all \in Seq(FileLines)
  BY <1>1, WhatIsLeft
<1>. HIDE DEF all
<1>7. /\ destination \in Seq(Seq(Characters)) /\ Len(destination) = Len(all)
      /\ \A p \in 1 .. Len(all) : destination[p] \in mstrcpy(all[p])
  BY <1>1, <1>2 DEF Copies, all
<1>8. /\ Len(File) = Len(MeantLines)
      /\ \A p \in 1 .. Len(MeantLines) : File[p] = destination[p]
  BY <1>1, <1>4, <1>5, <1>6, <1>7 DEF File
<1>9. \A p \in 1 .. Len(MeantLines) : p \in 1 .. Len(all)
  BY <1>4, <1>5, <1>6
<1>. QED
  BY <1>4, <1>5, <1>7, <1>8, <1>9

(* A line matches if its name begins the name asked for. *)
LEMMA WhatMatches ==
  ASSUME ConfigInv, cpc = "found"
  PROVE  Matches(property) =
           {p \in DOMAIN MeantLines : EqualAt(Kept(MeantLines[p])) > 0
                                      /\ IsPrefix(NameOf(MeantLines[p]), property)}
<1>1. /\ MeantLines \in Seq(FileLines) /\ DOMAIN MeantLines = 1 .. Len(MeantLines)
      /\ Len(File) = Len(MeantLines)
      /\ \A p \in 1 .. Len(MeantLines) : File[p] \in mstrcpy(MeantLines[p])
  BY FileIsMeant
<1>2. ASSUME NEW p \in 1 .. Len(MeantLines)
      PROVE  EqualAt(File[p]) > 0 /\ SameName(File[p], property)
               <=> /\ EqualAt(Kept(MeantLines[p])) > 0
                   /\ IsPrefix(NameOf(MeantLines[p]), property)
  <2>1. MeantLines[p] \in FileLines /\ File[p] \in mstrcpy(MeantLines[p])
    BY <1>1
  <2>. QED
    BY <2>1, SameLine DEF SameName
<1>. QED
  BY <1>1, <1>2 DEF Matches

LEMMA FoundFirst == ConfigInv => FoundIsAsked
<1>. SUFFICES ASSUME ConfigInv, cpc = "found", NoPrefixBefore(property)
     PROVE  IF Named(property) = {} THEN answer = None
            ELSE LET first == CHOOSE p \in Named(property) : \A j \in Named(property) : p <= j
                 IN  answer.at = IF answer.isAList THEN first + 1 ELSE first
  BY DEF FoundIsAsked
<1>. DEFINE N == Named(property)
            M == Matches(property)
            IsFirst(p, S) == p \in S /\ \A j \in S : p <= j
<1>1. N \subseteq Nat /\ M \subseteq Nat /\ N \subseteq DOMAIN MeantLines
  <2>1. DOMAIN MeantLines \subseteq Nat
    BY FileIsMeant
  <2>. QED
    BY <2>1, WhatMatches DEF Named
<1>2. N \subseteq M
  <2>1. ASSUME NEW p \in N PROVE IsPrefix(NameOf(MeantLines[p]), property)
    <3>1. /\ p \in DOMAIN MeantLines /\ EqualAt(Kept(MeantLines[p])) > 0
          /\ NameOf(MeantLines[p]) = property
      BY DEF Named
    <3>2. MeantLines[p] \in FileLines /\ Kept(MeantLines[p]) \in mstrcpy(MeantLines[p])
      BY <3>1, FileIsMeant DEF mstrcpy
    <3>3. NameOf(MeantLines[p]) \in Seq(Characters)
      BY <3>1, <3>2, SameLine
    <3>. QED
      BY <3>1, <3>3 DEF IsPrefix
  <2>. QED
    BY <2>1, WhatMatches DEF Named
<1>3. ASSUME NEW p \in M PROVE p \in N \/ \E j \in N : j < p
  <2>1. /\ p \in DOMAIN MeantLines /\ EqualAt(Kept(MeantLines[p])) > 0
        /\ IsPrefix(NameOf(MeantLines[p]), property)
    BY WhatMatches
  <2>2. CASE NameOf(MeantLines[p]) = property
    BY <2>1, <2>2 DEF Named
  <2>3. CASE NameOf(MeantLines[p]) # property
    BY <2>1, <2>3 DEF NoPrefixBefore, IsStrictPrefix
  <2>. QED
    BY <2>2, <2>3
<1>4. answer = IF M = {} THEN None ELSE Found(CHOOSE p \in M : \A j \in M : p <= j)
  BY DEF ConfigInv
<1>. HIDE DEF N, M
<1>5. CASE N = {}
  BY <1>3, <1>4, <1>5 DEF N
<1>6. CASE N # {}
  <2>. DEFINE first == CHOOSE p \in N : \A j \in N : p <= j
              m == CHOOSE p \in M : \A j \in M : p <= j
  <2>1. IsFirst(first, N)
    <3>1. \E p \in N : \A j \in N : p <= j
      BY <1>1, <1>6, Smallest
    <3>. QED
      BY <3>1
  <2>2. M # {} /\ IsFirst(m, M)
    <3>1. \E p \in M : \A j \in M : p <= j
      BY <1>1, <1>2, <1>6, Smallest
    <3>. QED
      BY <1>2, <1>6, <3>1
  <2>3. answer = Found(m)
    BY <1>4, <2>2
  <2>. HIDE DEF first, m
  <2>4. m = first
    <3>1. m <= first /\ m \in Nat /\ first \in Nat
      BY <1>1, <1>2, <2>1, <2>2
    <3>2. m \in N
      <4>1. \A j \in N : ~(j < m)
        BY <1>1, <2>1, <3>1
      <4>. QED
        BY <1>3, <2>2, <4>1
    <3>. QED
      BY <2>1, <3>1, <3>2
  <2>5. answer.at = IF answer.isAList THEN first + 1 ELSE first
    BY <2>3, <2>4 DEF Found
  <2>. QED
    BY <1>6, <2>5 DEF first, N
<1>. QED
  BY <1>5, <1>6 DEF N

(* getProperty() gives the first line with the name that it is asked for,  *)
(* in whatever file, if no line before has a name that this one begins     *)
(* with (config.c, openConfigFile() and getProperty()): what mstrcpy()     *)
(* leaves at the end of a line and the lines behind the one that stops     *)
(* change nothing.                                                         *)
THEOREM FirstOfTheName == ConfigSpec => []FoundIsAsked
<1>. QED
  BY ConfigBegin, ConfigStep, FoundFirst, PTL DEF ConfigSpec

-----------------------------------------------------------------------------
(* FileList *)

(* The properties speak of lists that have both. *)
Clean == DirectoriesLast /\ WellWritten

(* The names of the files that the elements before the k-th stand for.     *)
Before(k) == {n \in Meant : n[1] < k}

ListTypes ==
    /\ list \in Seq(Entries) /\ Len(list) <= MaxEntries
    /\ i \in 1 .. Len(list) + 1
    /\ pc = "done" => i = Len(list) + 1

(* The array has what the elements looked at stand for, and as many places *)
(* as there were elements while they were files: the place that the next   *)
(* file's name is copied to is the one the array grew by.                  *)
UpToNow ==
    /\ files \in Seq(Names)
    /\ IsInjective(files)
    /\ ToSet(files) = Before(i)
    /\ (\A j \in 1 .. i - 1 : list[j].kind = "file") => Len(files) = i - 1

ListInv == ListTypes /\ (Clean /\ pc # "crashed" => UpToNow)

LEMMA ListInitially == ListInit => ListInv
<1>. SUFFICES ASSUME ListInit PROVE ListInv
  OBVIOUS
<1>1. PICK n \in 0 .. MaxEntries : list \in [1 .. n -> Entries]
  BY DEF ListInit
<1>2. n \in Nat /\ list \in Seq(Entries) /\ Len(list) = n
  BY <1>1, ListConstants
<1>3. ListTypes
  BY <1>1, <1>2 DEF ListInit, ListTypes
<1>4. files = <<>> /\ i = 1
  BY DEF ListInit
<1>5. ToSet(files) = {} /\ Before(i) = {} /\ IsInjective(files)
  BY <1>4 DEF ToSet, Before, Meant, Names, IsInjective
<1>6. files \in Seq(Names) /\ Len(files) = i - 1
  BY <1>4
<1>7. UpToNow
  BY <1>5, <1>6 DEF UpToNow
<1>. QED
  BY <1>3, <1>7 DEF ListInv

(* Two sequences without repetition and without a common element.          *)
LEMMA Joined ==
  ASSUME NEW S, NEW s \in Seq(S), NEW t \in Seq(S), IsInjective(s), IsInjective(t),
         ToSet(s) \cap ToSet(t) = {}
  PROVE  /\ IsInjective(s \o t)
         /\ ToSet(s \o t) = ToSet(s) \cup ToSet(t)
<1>. DEFINE st == s \o t
<1>1. /\ st \in Seq(S) /\ Len(st) = Len(s) + Len(t)
      /\ Len(s) \in Nat /\ Len(t) \in Nat
      /\ DOMAIN st = 1 .. Len(st) /\ DOMAIN s = 1 .. Len(s) /\ DOMAIN t = 1 .. Len(t)
  OBVIOUS
<1>2. /\ \A k \in DOMAIN s : k \in DOMAIN st /\ st[k] = s[k]
      /\ \A k \in DOMAIN t : k + Len(s) \in DOMAIN st /\ st[k + Len(s)] = t[k]
      /\ \A k \in DOMAIN st :
            \/ k \in DOMAIN s /\ st[k] = s[k]
            \/ k - Len(s) \in DOMAIN t /\ st[k] = t[k - Len(s)]
  BY <1>1, ConcatProperties
<1>3. /\ \A k \in DOMAIN s : s[k] \in ToSet(s)
      /\ \A k \in DOMAIN t : t[k] \in ToSet(t)
  BY DEF ToSet
<1>. HIDE DEF st
<1>4. IsInjective(st)
  <2>. SUFFICES ASSUME NEW a \in DOMAIN st, NEW b \in DOMAIN st, st[a] = st[b]
                PROVE  a = b
    BY DEF IsInjective
  <2>1. CASE a \in DOMAIN s /\ st[a] = s[a] /\ b \in DOMAIN s /\ st[b] = s[b]
    BY <2>1 DEF IsInjective
  <2>2. CASE /\ a - Len(s) \in DOMAIN t /\ st[a] = t[a - Len(s)]
             /\ b - Len(s) \in DOMAIN t /\ st[b] = t[b - Len(s)]
    <3>1. a - Len(s) = b - Len(s)
      BY <2>2 DEF IsInjective
    <3>. QED
      BY <1>1, <3>1
  <2>. QED
    BY <1>2, <1>3, <2>1, <2>2
<1>5. ToSet(st) = ToSet(s) \cup ToSet(t)
  <2>1. ToSet(st) \subseteq ToSet(s) \cup ToSet(t)
    BY <1>2 DEF ToSet
  <2>2. ToSet(s) \subseteq ToSet(st)
    BY <1>2 DEF ToSet
  <2>3. ToSet(t) \subseteq ToSet(st)
    BY <1>2 DEF ToSet
  <2>. QED
    BY <2>1, <2>2, <2>3
<1>. QED
  BY <1>4, <1>5 DEF st

(* What an element adds are the names it stands for.                       *)
LEMMA Added ==
  ASSUME ListInv, Clean, UpToNow, pc = "loop", i <= Len(list), NEW found \in Seq(Names),
         IsInjective(found), files' = files \o found, i' = i + 1, list' = list,
         ToSet(found) = {n \in Meant : n[1] = i},
         list[i].kind = "file" => Len(found) = 1
  PROVE  UpToNow'
<1>1. i \in Nat /\ i > 0 /\ \A n \in Meant : n[1] \in Nat
  BY DEF ListInv, ListTypes, Meant, Names
<1>2. ToSet(files) \cap ToSet(found) = {} /\ Before(i + 1) = ToSet(files) \cup ToSet(found)
  BY <1>1 DEF UpToNow, Before
<1>3. IsInjective(files') /\ ToSet(files') = ToSet(files) \cup ToSet(found)
  BY <1>2, Joined DEF UpToNow
<1>4. Before(i)' = Before(i + 1)
  BY DEF Before, Meant
<1>5. files' \in Seq(Names) /\ Len(files') = Len(files) + Len(found)
  BY DEF UpToNow
<1>6. (\A j \in 1 .. i' - 1 : list'[j].kind = "file") => Len(files') = i' - 1
  <2>. SUFFICES ASSUME \A j \in 1 .. i : list[j].kind = "file" PROVE Len(files') = i
    BY <1>1
  <2>1. Len(files) = i - 1 /\ Len(found) = 1
    BY <1>1 DEF UpToNow
  <2>. QED
    BY <1>1, <1>5, <2>1
<1>. QED
  BY <1>2, <1>3, <1>4, <1>5, <1>6 DEF UpToNow

(* The last place of an array that has just grown. *)
LEMMA LastPlace ==
  ASSUME NEW S, NEW s \in Seq(S), NEW a \in S, NEW b \in S
  PROVE  /\ Len(Append(s, a)) = Len(s) + 1
         /\ [Append(s, a) EXCEPT ![Len(s) + 1] = b] = Append(s, b)
         /\ Append(s, b) = s \o <<b>>
<1>. DEFINE k == Len(s) + 1
            put == [Append(s, a) EXCEPT ![k] = b]
<1>1. Len(s) \in Nat /\ k \in Nat /\ k >= 1
  OBVIOUS
<1>2. Append(s, a) \in Seq(S) /\ Append(s, b) \in Seq(S) /\ Len(Append(s, a)) = k
      /\ Len(Append(s, b)) = k
  BY AppendProperties
<1>3. \A q \in 1 .. Len(s) : Append(s, a)[q] = s[q] /\ Append(s, b)[q] = s[q]
  BY AppendProperties
<1>4. DOMAIN Append(s, a) = 1 .. k /\ DOMAIN Append(s, b) = 1 .. k /\ Append(s, b)[k] = b
  BY <1>2, AppendProperties
<1>5. \A q \in 1 .. k : q = k \/ q \in 1 .. Len(s)
  BY <1>1
<1>6. ASSUME NEW K, NEW old \in [1 .. K -> S], NEW new \in [1 .. K -> S], new[K] = b,
             \A q \in 1 .. K : q # K => old[q] = new[q]
      PROVE  [old EXCEPT ![K] = b] = new
  BY <1>6
<1>7. Append(s, a) \in [1 .. k -> S] /\ Append(s, b) \in [1 .. k -> S]
  BY <1>2, LenProperties
<1>8. put = Append(s, b)
  <2>1. \A q \in 1 .. k : q # k => Append(s, a)[q] = Append(s, b)[q]
    BY <1>3, <1>5
  <2>. HIDE DEF k
  <2>. QED
    BY <1>4, <1>6, <1>7, <2>1
<1>. QED
  BY <1>2, <1>8, AppendIsConcat

LEMMA Listed ==
  ASSUME ListInv, i <= Len(list)
  PROVE  i \in DOMAIN list /\ i \in 1 .. MaxEntries /\ list[i] \in Entries
<1>1. list \in Seq(Entries) /\ Len(list) \in Nat /\ i \in Nat /\ i >= 1 /\ i <= MaxEntries
  BY ListConstants DEF ListInv, ListTypes
<1>2. DOMAIN list = 1 .. Len(list)
  BY <1>1
<1>. QED
  BY <1>1, <1>2, ListConstants

(* A file finds its place, since everything before it is a file, too.      *)
LEMMA AddFileKeeps == ListInv /\ AddFile => ListInv'
<1>. SUFFICES ASSUME ListInv, AddFile PROVE ListInv'
  OBVIOUS
<1>1. /\ pc = "loop" /\ i <= Len(list) /\ list' = list /\ i' \in {i, i + 1}
      /\ i' = i + 1 => pc' = IF i = Len(list) THEN "done" ELSE "loop"
      /\ i' = i => pc' = "crashed"
  BY DEF AddFile, Advance, ListInv, ListTypes
<1>2. ListTypes'
  BY <1>1 DEF ListInv, ListTypes
<1>3. ASSUME Clean, pc' # "crashed" PROVE UpToNow'
  <2>. DEFINE e == list[i]
              name == <<i, 0>>
  <2>1. i \in DOMAIN list /\ i \in 1 .. MaxEntries /\ e \in Entries
    BY <1>1, Listed
  <2>2. e.kind = "file" /\ e.files = 0
    <3>1. e.kind = "file" \/ e.slash
      BY <1>3, <2>1 DEF Clean, WellWritten
    <3>2. e.kind # "dir"
      BY DEF AddFile, is_regular_file
    <3>. QED
      BY <2>1, <3>1, <3>2 DEF Entries
  <2>3. \A j \in 1 .. i - 1 : list[j].kind = "file"
    <3>. SUFFICES ASSUME NEW j \in 1 .. i - 1 PROVE list[j].kind = "file"
      OBVIOUS
    <3>1. j \in DOMAIN list /\ j < i /\ list[j] \in Entries
      BY <2>1 DEF ListInv, ListTypes
    <3>2. list[j].kind # "dir"
      BY <1>3, <2>1, <2>2, <3>1 DEF Clean, DirectoriesLast
    <3>3. list[j].kind = "file" \/ list[j].slash
      BY <1>3, <3>1 DEF Clean, WellWritten
    <3>. QED
      BY <3>1, <3>2, <3>3 DEF Entries
  <2>4. UpToNow
    BY <1>1, <1>3 DEF ListInv
  <2>5. files \in Seq(Names) /\ Len(files) = i - 1
    BY <2>3, <2>4 DEF UpToNow
  <2>6. name \in Names
    BY <2>1, ListConstants DEF Names
  <2>7. /\ Len(Append(files, Unwritten)) = i
        /\ [Append(files, Unwritten) EXCEPT ![i] = name] = files \o <<name>>
    <3>. DEFINE S == Int \X Int
    <3>1. Len(files) \in Nat /\ Len(files) + 1 = i /\ files \in Seq(S)
      BY <2>1, <2>5, ListConstants DEF Names
    <3>2. Unwritten \in S /\ name \in S
      BY <2>1 DEF Unwritten
    <3>. HIDE DEF name, S
    <3>3. /\ Len(Append(files, Unwritten)) = Len(files) + 1
          /\ [Append(files, Unwritten) EXCEPT ![Len(files) + 1] = name] = files \o <<name>>
      <4>1. \A s \in Seq(S), a, b \in S :
              /\ Len(Append(s, a)) = Len(s) + 1
              /\ [Append(s, a) EXCEPT ![Len(s) + 1] = b] = Append(s, b)
              /\ Append(s, b) = s \o <<b>>
        BY LastPlace
      <4>2. /\ Len(Append(files, Unwritten)) = Len(files) + 1
            /\ [Append(files, Unwritten) EXCEPT ![Len(files) + 1] = name] = Append(files, name)
            /\ Append(files, name) = files \o <<name>>
        BY <3>1, <3>2, <4>1, Zenon
      <4>. QED
        BY <4>2
    <3>. QED
      BY <3>1, <3>3
  <2>8. files' = files \o <<name>> /\ i' = i + 1
    <3>1. i <= Len(Append(files, Unwritten)) /\ ~(i > Len(Append(files, Unwritten)))
      BY <2>1, <2>7
    <3>. QED
      BY <2>7, <3>1 DEF AddFile, Advance
  <2>9. <<name>> \in Seq(Names) /\ IsInjective(<<name>>) /\ Len(<<name>>) = 1
        /\ ToSet(<<name>>) = {name}
    BY <2>6 DEF IsInjective, ToSet
  <2>10. {n \in Meant : n[1] = i} = {name}
    BY <2>1, <2>2, <2>6, <1>1 DEF Meant, Names
  <2>. QED
    BY <1>1, <1>3, <2>4, <2>8, <2>9, <2>10, Added
<1>. QED
  BY <1>1, <1>2, <1>3 DEF ListInv, Clean, DirectoriesLast, WellWritten

LEMMA AddDirectoryKeeps == ListInv /\ AddDirectory => ListInv'
<1>. SUFFICES ASSUME ListInv, AddDirectory PROVE ListInv'
  OBVIOUS
<1>1. /\ pc = "loop" /\ i <= Len(list) /\ list' = list /\ i' = i + 1
      /\ pc' = IF i = Len(list) THEN "done" ELSE "loop"
  BY DEF AddDirectory, Advance
<1>2. ListTypes'
  BY <1>1 DEF ListInv, ListTypes
<1>3. ASSUME Clean PROVE UpToNow'
  <2>. DEFINE e == list[i]
              found == [q \in 1 .. e.files |-> <<i, q>>]
  <2>1. i \in DOMAIN list /\ i \in 1 .. MaxEntries /\ e \in Entries
    BY <1>1, Listed
  <2>2. e.kind = "dir" /\ e.slash /\ e.files \in 0 .. MaxFiles
    <3>1. e.kind = "file" \/ e.slash
      BY <1>3, <2>1 DEF Clean, WellWritten
    <3>2. e.kind # "file"
      BY DEF AddDirectory, is_regular_file
    <3>. QED
      BY <2>1, <3>1, <3>2 DEF Entries
  <2>3. files' = files \o found
    BY <2>2 DEF AddDirectory, getFiles
  <2>4. \A q \in 1 .. e.files : <<i, q>> \in Names
    BY <2>1, <2>2, ListConstants DEF Names
  <2>5. e.files \in Nat
    BY <2>2, ListConstants
  <2>6. found \in Seq(Names) /\ DOMAIN found = 1 .. e.files
    BY <2>4, <2>5
  <2>7. IsInjective(found)
    BY <2>6 DEF IsInjective
  <2>8. ToSet(found) = {n \in Meant : n[1] = i}
    <3>1. ToSet(found) = {<<i, q>> : q \in 1 .. e.files}
      BY <2>6 DEF ToSet
    <3>2. ASSUME NEW q \in 1 .. e.files PROVE <<i, q>> \in Meant
      BY <1>1, <2>2, <2>4, <2>5 DEF Meant
    <3>3. ASSUME NEW n \in Meant, n[1] = i PROVE n = <<i, n[2]>> /\ n[2] \in 1 .. e.files
      BY <2>2, <2>5, <3>3 DEF Meant, Names
    <3>. QED
      BY <3>1, <3>2, <3>3
  <2>9. UpToNow
    BY <1>1, <1>3 DEF ListInv
  <2>. HIDE DEF found
  <2>. QED
    BY <1>1, <1>3, <2>2, <2>3, <2>6, <2>7, <2>8, <2>9, Added
<1>. QED
  BY <1>1, <1>2, <1>3 DEF ListInv, Clean, DirectoriesLast, WellWritten

LEMMA ListKeeps == ListInv /\ [ListNext]_listVars => ListInv'
<1>. SUFFICES ASSUME ListInv, [ListNext]_listVars PROVE ListInv'
  OBVIOUS
<1>1. CASE Finish
  BY <1>1 DEF Finish, ListInv, ListTypes, UpToNow, Clean, DirectoriesLast, WellWritten,
     Before, Meant
<1>2. CASE UNCHANGED listVars
  BY <1>2 DEF listVars, ListInv, ListTypes, UpToNow, Clean, DirectoriesLast, WellWritten,
     Before, Meant
<1>. QED
  BY <1>1, <1>2, AddFileKeeps, AddDirectoryKeeps DEF ListNext

(* The array has one place for every file that is meant.                   *)
LEMMA Counted == ListInv => ListedOnce
<1>. SUFFICES ASSUME ListInv, pc = "done", Clean
              PROVE  ToSet(files) = Meant /\ Len(files) = Cardinality(Meant)
  BY DEF ListedOnce, Clean
<1>1. UpToNow /\ i = Len(list) + 1
  BY DEF ListInv, ListTypes
<1>2. ToSet(files) = Meant
  BY <1>1 DEF UpToNow, Before, Meant, Names, ListInv, ListTypes
<1>3. files \in [1 .. Len(files) -> Meant] /\ Len(files) \in Nat
  BY <1>1, <1>2 DEF UpToNow, ToSet
<1>4. files \in Bijection(1 .. Len(files), Meant)
  <2>1. files \in Injection(1 .. Len(files), Meant)
    BY <1>1, <1>3 DEF UpToNow, Injection
  <2>2. files \in Surjection(1 .. Len(files), Meant)
    BY <1>2, <1>3 DEF ToSet, Surjection
  <2>. QED
    BY <2>1, <2>2 DEF Bijection
<1>5. Cardinality(Meant) = Len(files)
  BY <1>3, <1>4, FS_CountingElements DEF ExistsBijection
<1>. QED
  BY <1>2, <1>5

(* With the directories at the end, and each with its slash, the array has *)
(* every file that the list stands for, once, and nothing else.            *)
THEOREM EveryFileOnce == ListSpec => []ListedOnce
<1>1. ListInit => ListInv
  BY ListInitially
<1>2. ListInv /\ [ListNext]_listVars => ListInv'
  BY ListKeeps
<1>3. ListInv => ListedOnce
  BY Counted
<1>. QED
  BY <1>1, <1>2, <1>3, PTL DEF ListSpec

-----------------------------------------------------------------------------
(* Extract *)

(* Lengths of pieces that stand one after the other have places where they *)
(* begin: by induction on their number.                                    *)
LEMMA Places ==
  ASSUME NEW N \in Nat, NEW w \in [1 .. N -> Nat]
  PROVE  \E g \in [1 .. N + 1 -> Nat] :
            g[1] = 0 /\ \A k \in 1 .. N : g[k + 1] = g[k] + w[k]
<1>. DEFINE next == [p \in (1 .. N) \X Nat |-> p[2] + w[p[1]]]
<1>1. next \in [(1 .. N) \X Nat -> Nat]
  OBVIOUS
<1>. HIDE DEF next
<1>2. PICK h : Recursive(h, N, Nat, 0, next)
  BY <1>1, Recursion
<1>3. /\ h \in [0 .. N -> Nat] /\ h[0] = 0
      /\ \A n \in 1 .. N : h[n] = h[n - 1] + w[n]
  <2>1. h \in [0 .. N -> Nat] /\ h[0] = 0 /\ \A n \in 1 .. N : h[n] = next[<<n, h[n - 1]>>]
    BY <1>2 DEF Recursive
  <2>2. ASSUME NEW n \in 1 .. N PROVE h[n] = h[n - 1] + w[n]
    <3>1. n - 1 \in 0 .. N /\ h[n - 1] \in Nat
      BY <2>1
    <3>. QED
      BY <2>1, <3>1 DEF next
  <2>. QED
    BY <2>1, <2>2
<1>. DEFINE g == [k \in 1 .. N + 1 |-> h[k - 1]]
<1>4. g \in [1 .. N + 1 -> Nat] /\ g[1] = 0
  <2>1. \A k \in 1 .. N + 1 : k - 1 \in 0 .. N
    OBVIOUS
  <2>2. 1 \in 1 .. N + 1 /\ 1 - 1 = 0
    OBVIOUS
  <2>. QED
    BY <1>3, <2>1, <2>2
<1>5. ASSUME NEW k \in 1 .. N PROVE g[k + 1] = g[k] + w[k]
  <2>1. k \in 1 .. N + 1 /\ k + 1 \in 1 .. N + 1 /\ (k + 1) - 1 = k
    OBVIOUS
  <2>. QED
    BY <1>3, <2>1
<1>. QED
  BY <1>4, <1>5

(* The lengths of the files stored are numbers. *)
Stores == setting \in Settings /\ dims \in [Files -> 0 .. MaxDim]

LEMMA Sizes ==
  ASSUME Stores
  PROVE  /\ NFiles \in Nat /\ MaxDim \in Nat /\ Block \in Nat \ {0}
         /\ \A f \in Files : /\ dims[f] \in Nat /\ dims[f] <= MaxDim
                             /\ transfer_dimension(f) \in Nat /\ dims[f] <= transfer_dimension(f)
                             /\ transfer_dimension(f) <= MaxDim + Block
<1>1. NFiles \in Nat /\ MaxDim \in Nat /\ Block \in Nat \ {0}
  BY ExtractConstants DEF Stores, NFiles, MaxDim, Block
<1>2. ASSUME NEW f \in Files
      PROVE  /\ dims[f] \in Nat /\ dims[f] <= MaxDim
             /\ transfer_dimension(f) \in Nat /\ dims[f] <= transfer_dimension(f)
             /\ transfer_dimension(f) <= MaxDim + Block
  <2>1. dims[f] \in Nat /\ dims[f] <= MaxDim
    BY <1>1 DEF Stores
  <2>2. dims[f] % Block \in Int /\ dims[f] % Block >= 0 /\ dims[f] % Block < Block
    BY <1>1, <2>1, DivMod
  <2>. QED
    BY <1>1, <2>1, <2>2 DEF transfer_dimension
<1>. QED
  BY <1>1, <1>2

(* Where the files begin in the stored one. *)
LEMMA Layout ==
  ASSUME Stores
  PROVE  /\ Start[1] = 0
         /\ \A f \in Files : Start[f + 1] = Start[f] + Header + transfer_dimension(f)
<1>. DEFINE w == [f \in 1 .. NFiles |-> Header + transfer_dimension(f)]
            D == 1 .. NFiles + 1
            Defines(g) == g = [f \in D |-> IF f = 1 THEN 0
                                           ELSE g[f - 1] + Header + transfer_dimension(f - 1)]
<1>1. NFiles \in Nat /\ w \in [1 .. NFiles -> Nat]
  BY Sizes, ExtractConstants DEF Files
<1>2. PICK g \in [D -> Nat] : g[1] = 0 /\ \A k \in 1 .. NFiles : g[k + 1] = g[k] + w[k]
  <2>. HIDE DEF w
  <2>. QED
    BY <1>1, Places
<1>3. Defines(g)
  <2>1. ASSUME NEW f \in D, f # 1
        PROVE  g[f] = g[f - 1] + Header + transfer_dimension(f - 1)
    <3>1. f - 1 \in 1 .. NFiles /\ (f - 1) + 1 = f /\ f - 1 \in D
      BY <1>1, <2>1
    <3>2. g[f] = g[f - 1] + w[f - 1]
      BY <1>2, <3>1
    <3>3. g[f - 1] \in Nat /\ transfer_dimension(f - 1) \in Nat
      BY <1>2, <3>1, Sizes DEF Files
    <3>. QED
      BY <3>1, <3>2, <3>3, ExtractConstants
  <2>. QED
    BY <1>2, <2>1
<1>4. Defines(Start)
  BY <1>3 DEF Start
<1>5. 1 \in D
  BY <1>1
<1>6. ASSUME NEW f \in Files PROVE Start[f + 1] = Start[f] + Header + transfer_dimension(f)
  <2>1. f + 1 \in D /\ f + 1 # 1 /\ (f + 1) - 1 = f
    BY <1>1 DEF Files
  <2>. QED
    BY <1>4, <2>1
<1>. QED
  BY <1>4, <1>5, <1>6

(* The beginnings are numbers and rise: by induction on the files.         *)
LEMMA Rising ==
  ASSUME Stores
  PROVE  /\ \A f \in 1 .. NFiles + 1 : Start[f] \in Nat
         /\ \A f \in Files, g \in 1 .. NFiles + 1 : f < g => Start[f + 1] <= Start[g]
<1>. DEFINE Below(g) == /\ \A k \in 1 .. g : Start[k] \in Nat
                        /\ \A f \in Files : f < g => Start[f + 1] <= Start[g]
            T == {n \in Nat : n <= NFiles => Below(n + 1)}
<1>1. NFiles \in Nat /\ Files = 1 .. NFiles /\ Header \in Nat
  BY Sizes, ExtractConstants DEF Files
<1>2. 0 \in T
  <2>1. \A k \in 1 .. 0 + 1 : k = 1
    OBVIOUS
  <2>2. \A f \in Files : ~(f < 0 + 1)
    BY <1>1
  <2>3. Below(0 + 1)
    BY <2>1, <2>2, Layout
  <2>. QED
    BY <2>3
<1>3. ASSUME NEW n \in Nat, n \in T PROVE n + 1 \in T
  <2>. SUFFICES ASSUME n + 1 <= NFiles PROVE Below((n + 1) + 1)
    OBVIOUS
  <2>1. n + 1 \in Files /\ Below(n + 1)
    BY <1>1, <1>3
  <2>2. /\ Start[(n + 1) + 1] = Start[n + 1] + Header + transfer_dimension(n + 1)
        /\ transfer_dimension(n + 1) \in Nat
    BY <2>1, Layout, Sizes
  <2>3. Start[n + 1] \in Nat /\ Start[(n + 1) + 1] \in Nat /\ Start[n + 1] <= Start[(n + 1) + 1]
    BY <1>1, <2>1, <2>2
  <2>4. ASSUME NEW f \in Files, f < (n + 1) + 1 PROVE Start[f + 1] <= Start[(n + 1) + 1]
    <3>1. CASE f = n + 1
      BY <2>3, <3>1
    <3>2. CASE f # n + 1
      <4>1. f < n + 1 /\ f \in Nat
        BY <1>1, <2>4, <3>2
      <4>2. Start[f + 1] <= Start[n + 1]
        BY <2>1, <4>1
      <4>3. Start[f + 1] \in Nat
        <5>1. f + 1 \in 1 .. n + 1
          BY <1>1, <4>1
        <5>. QED
          BY <2>1, <5>1
      <4>. QED
        BY <2>3, <4>2, <4>3
    <3>. QED
      BY <3>1, <3>2
  <2>5. ASSUME NEW k \in 1 .. (n + 1) + 1 PROVE Start[k] \in Nat
    <3>1. k = (n + 1) + 1 \/ k \in 1 .. n + 1
      OBVIOUS
    <3>. QED
      BY <2>1, <2>3, <3>1
  <2>. QED
    BY <2>4, <2>5
<1>4. Nat \subseteq T
  <2>. HIDE DEF T
  <2>. QED
    BY <1>2, <1>3, Reached
<1>5. ASSUME NEW g \in 1 .. NFiles + 1 PROVE Below(g)
  <2>1. g - 1 \in Nat /\ g - 1 <= NFiles /\ (g - 1) + 1 = g
    BY <1>1
  <2>2. g - 1 \in T
    BY <1>4, <2>1
  <2>3. Below((g - 1) + 1)
    BY <2>1, <2>2
  <2>. QED
    BY <2>1, <2>3
<1>6. \A g \in 1 .. NFiles + 1 : g \in 1 .. g
  OBVIOUS
<1>. QED
  BY <1>5, <1>6

Size == [f \in Files |-> transfer_dimension(f)]

(* The first n bytes of file f. *)
Bytes(f, n) == [k \in 1 .. n |-> <<f, k>>]

Reading == xpc \in {"bar", "block"}

(* Settings under which both ends agree where a file ends: one file, which *)
(* may be followed by less than a packet, or encrypted ones, whose padding *)
(* goes up to a whole number of packets; and no length beyond an int.      *)
Restorable ==
    \A s \in Settings : /\ s.files = 1 \/ (s.encrypted /\ s.block % Packet = 0)
                        /\ s.dim + s.block <= IntMax

ExtractTypes ==
    /\ Stores
    /\ xpc \in {"head", "bar", "block", "end", "hung"}
    /\ eof \in BOOLEAN /\ current \in 0 .. NFiles /\ counted \in Nat
    /\ out \in [Files -> Seq(Files \X Nat)]

(* Between two files it stands in front of the next one's header.          *)
AtHeader == xpc = "head" => pos = Start[current + 1] /\ (eof => current = NFiles)

(* In a file it stands at the byte that it has counted to.                 *)
InFile ==
    Reading =>
        /\ current \in Files /\ ~eof
        /\ pos = Start[current] + Header + counted /\ counted < Size[current]
        /\ NFiles = 1 \/ (Size[current] - counted) % Packet = 0
        /\ rimanenteDaScrivere = dims[current] - Smaller(counted, dims[current])

(* What is written of every file is a beginning of it. *)
WrittenOf(f) ==
    IF f < current \/ (f = current /\ ~Reading) THEN dims[f]
    ELSE IF f = current THEN Smaller(counted, dims[f]) ELSE 0
Beginnings == xpc # "hung" => \A f \in Files : out[f] = Bytes(f, WrittenOf(f))

ExtractInv ==
    /\ ExtractTypes /\ AtHeader /\ InFile /\ Beginnings
    /\ xpc = "end" => current = NFiles

LEMMA StoredStays ==
  ASSUME UNCHANGED <<setting, dims>>
  PROVE  /\ NFiles' = NFiles /\ Files' = Files /\ Start' = Start /\ Size' = Size
         /\ Stores' = Stores
<1>1. /\ NFiles' = NFiles /\ Files' = Files /\ MaxDim' = MaxDim
      /\ Block' = Block /\ Encrypted' = Encrypted
  BY DEF NFiles, Files, MaxDim, Block, Encrypted
<1>2. Stores' = Stores
  BY <1>1 DEF Stores
<1>3. Start' = Start
  BY DEF Start, NFiles, transfer_dimension, Encrypted, Block
<1>4. Size' = Size
  BY DEF Size, Files, NFiles, transfer_dimension, Encrypted, Block
<1>. QED
  BY <1>1, <1>2, <1>3, <1>4

(* The same with the lengths as a function. *)
LEMMA Pieces ==
  ASSUME Stores
  PROVE  /\ Size \in [Files -> Nat]
         /\ \A f \in Files : /\ dims[f] \in Nat /\ dims[f] <= Size[f]
                             /\ Size[f] = transfer_dimension(f)
                             /\ f + 1 \in 1 .. NFiles + 1
                             /\ Start[f] \in Nat /\ Start[f + 1] \in Nat
                             /\ Start[f + 1] = Start[f] + Header + Size[f]
         /\ Length \in Nat /\ Header \in Nat /\ Header > 0 /\ Packet \in Nat /\ Packet > 0
         /\ \A f \in 1 .. NFiles + 1 : Start[f] <= Length
<1>1. NFiles \in Nat /\ Files = 1 .. NFiles
  BY Sizes DEF Files
<1>2. Size \in [Files -> Nat] /\ \A f \in Files : Size[f] = transfer_dimension(f)
  BY Sizes DEF Size
<1>3. \A f \in Files : f \in 1 .. NFiles + 1 /\ f + 1 \in 1 .. NFiles + 1
  BY <1>1
<1>4. NFiles + 1 \in 1 .. NFiles + 1
  BY <1>1
<1>5. ASSUME NEW f \in 1 .. NFiles + 1 PROVE Start[f] <= Length
  <2>1. CASE f = NFiles + 1
    BY <1>4, <2>1, Rising DEF Length
  <2>2. CASE f # NFiles + 1
    <3>1. f \in Files /\ f < NFiles + 1
      BY <1>1, <2>2
    <3>2. Start[f + 1] <= Start[NFiles + 1]
      BY <1>4, <3>1, Rising
    <3>3. Start[f] <= Start[f + 1]
      BY <1>2, <1>3, <3>1, Layout, Rising, Sizes, ExtractConstants
    <3>. QED
      BY <1>3, <1>4, <3>1, <3>2, <3>3, Rising DEF Length
  <2>. QED
    BY <2>1, <2>2
<1>6. Length \in Nat
  BY <1>4, Rising DEF Length
<1>. QED
  BY <1>2, <1>3, <1>5, <1>6, Sizes, Layout, Rising, ExtractConstants

LEMMA ExtractBegin == ExtractInit => ExtractInv
<1>. SUFFICES ASSUME ExtractInit PROVE ExtractInv
  OBVIOUS
<1>1. Stores
  BY DEF ExtractInit, Stores
<1>2. NFiles \in Nat /\ Files = 1 .. NFiles
  BY <1>1, Sizes DEF Files
<1>3. ExtractTypes
  <2>1. <<>> \in Seq(Files \X Nat)
    OBVIOUS
  <2>2. out \in [Files -> Seq(Files \X Nat)]
    BY <2>1 DEF ExtractInit
  <2>3. /\ current \in 0 .. NFiles /\ counted \in Nat /\ eof \in BOOLEAN
        /\ xpc \in {"head", "bar", "block", "end", "hung"}
    <3>1. current = 0 /\ counted = 0 /\ eof = FALSE /\ xpc = "head"
      BY DEF ExtractInit
    <3>2. 0 \in 0 .. NFiles /\ 0 \in Nat
      BY <1>2
    <3>. QED
      BY <3>1, <3>2
  <2>. QED
    BY <1>1, <2>2, <2>3 DEF ExtractTypes
<1>4. AtHeader
  BY <1>1, Layout DEF ExtractInit, AtHeader
<1>5. InFile
  BY DEF ExtractInit, InFile, Reading
<1>6. Beginnings
  <2>1. ASSUME NEW f \in Files PROVE out[f] = Bytes(f, WrittenOf(f))
    <3>1. WrittenOf(f) = 0
      BY <1>2 DEF WrittenOf, ExtractInit
    <3>2. Bytes(f, 0) = <<>>
      BY DEF Bytes
    <3>. QED
      BY <3>1, <3>2 DEF ExtractInit
  <2>. QED
    BY <2>1 DEF Beginnings
<1>. QED
  BY <1>3, <1>4, <1>5, <1>6 DEF ExtractInit, ExtractInv

(* Encrypted files end with a whole packet. *)
LEMMA WholePackets ==
  ASSUME Stores, Restorable, NEW f \in Files
  PROVE  /\ NFiles = 1 \/ Size[f] % Packet = 0
         /\ Size[f] <= IntMax
<1>1. /\ setting \in Settings /\ dims[f] \in Nat /\ Block \in Nat \ {0} /\ Packet \in Nat \ {0}
      /\ Size[f] = transfer_dimension(f) /\ transfer_dimension(f) \in Nat
      /\ transfer_dimension(f) <= MaxDim + Block
      /\ IntMax \in Nat /\ MaxDim \in Nat
  BY Sizes, Pieces, ExtractConstants DEF Stores
<1>2. NFiles = 1 \/ (Encrypted /\ Block % Packet = 0)
  BY <1>1 DEF Restorable, NFiles, Encrypted, Block
<1>3. MaxDim + Block <= IntMax
  BY <1>1 DEF Restorable, MaxDim, Block
<1>4. ASSUME Encrypted, Block % Packet = 0 PROVE transfer_dimension(f) % Packet = 0
  <2>. DEFINE d == dims[f]
              q == d \div Block
              r == d % Block
  <2>1. q \in Int /\ r \in Int /\ r >= 0 /\ r < Block /\ d = Block * q + r
    <3>1. d \in Int /\ Block \in Nat \ {0}
      BY <1>1
    <3>. QED
      BY <3>1, DivMod
  <2>2. transfer_dimension(f) = d + (Block - r)
    BY <1>4 DEF transfer_dimension
  <2>3. PICK m \in Int : Block = Packet * m
    BY <1>1, <1>4, Multiple
  <2>. HIDE DEF q, r
  <2>4. transfer_dimension(f) = Block * (q + 1)
    BY <1>1, <2>1, <2>2
  <2>5. Block * (q + 1) = Packet * (m * (q + 1)) /\ m * (q + 1) \in Int
    BY <1>1, <2>1, <2>3
  <2>. QED
    BY <1>1, <2>4, <2>5, Multiple
<1>. QED
  BY <1>1, <1>2, <1>3, <1>4

(* The byte of a file at its place in the stored one. *)
LEMMA ByteIs ==
  ASSUME Stores, NEW f \in Files, NEW m \in 1 .. Size[f]
  PROVE  ByteAt(Start[f] + Header + m) = <<f, m>>
<1>. DEFINE p == Start[f] + Header + m
            Holds(g) == g \in Files /\ Start[g] < p /\ p <= Start[g + 1]
<1>1. /\ Size[f] \in Nat /\ m \in Nat /\ m > 0 /\ m <= Size[f] /\ Header \in Nat /\ Header > 0
      /\ Start[f] \in Nat /\ Start[f + 1] = Start[f] + Header + Size[f]
      /\ transfer_dimension(f) = Size[f]
  BY Pieces
<1>2. Holds(f)
  BY <1>1
<1>3. ASSUME NEW g \in Files, g # f PROVE ~Holds(g)
  <2>0. NFiles \in Nat /\ f \in 1 .. NFiles /\ g \in 1 .. NFiles
    BY Sizes DEF Files
  <2>1. /\ f \in 1 .. NFiles + 1 /\ g \in 1 .. NFiles + 1 /\ f \in Nat /\ g \in Nat
        /\ Start[g] \in Nat /\ Start[g + 1] \in Nat /\ Start[f + 1] \in Nat /\ p \in Nat
    BY <1>1, <2>0, Pieces
  <2>2. CASE g < f
    BY <1>1, <2>1, <2>2, Rising
  <2>3. CASE f < g
    BY <1>1, <2>1, <2>3, Rising
  <2>. QED
    BY <1>3, <2>1, <2>2, <2>3
<1>4. (CHOOSE g \in Files : Start[g] < p /\ p <= Start[g + 1]) = f
  BY <1>2, <1>3
<1>5. ByteAt(p) = Stored(f)[p - Start[f]]
  BY <1>4 DEF ByteAt
<1>6. p - Start[f] \in 1 .. Header + transfer_dimension(f) /\ ~(p - Start[f] <= Header)
      /\ (p - Start[f]) - Header = m
  BY <1>1
<1>. QED
  BY <1>5, <1>6 DEF Stored

(* One packet more of a file. *)
LEMMA MoreBytes ==
  ASSUME NEW f \in Nat, NEW m \in Nat, NEW t \in Nat
  PROVE  Bytes(f, m) \o [k \in 1 .. t |-> <<f, m + k>>] = Bytes(f, m + t)
<1>. DEFINE more == [k \in 1 .. t |-> <<f, m + k>>]
            S == Nat \X Nat
            both == Bytes(f, m) \o more
<1>1. Bytes(f, m) \in [1 .. m -> S] /\ more \in [1 .. t -> S] /\ Bytes(f, m + t) \in [1 .. m + t -> S]
  BY DEF Bytes
<1>2. Bytes(f, m) \in Seq(S) /\ Len(Bytes(f, m)) = m /\ more \in Seq(S) /\ Len(more) = t
  BY <1>1
<1>3. /\ both \in Seq(S) /\ Len(both) = m + t /\ m + t \in Nat
      /\ \A k \in 1 .. m + t : both[k] = IF k <= m THEN Bytes(f, m)[k] ELSE more[k - m]
  <2>. HIDE DEF more, S
  <2>. QED
    BY <1>2, ConcatProperties
<1>4. \A k \in 1 .. m + t : both[k] = IF k <= m THEN Bytes(f, m)[k] ELSE more[k - m]
  BY <1>3
<1>5. ASSUME NEW k \in 1 .. m + t PROVE both[k] = <<f, k>>
  <2>1. CASE k <= m
    BY <1>4, <2>1 DEF Bytes
  <2>2. CASE ~(k <= m)
    <3>1. k - m \in 1 .. t /\ m + (k - m) = k
      BY <2>2
    <3>. QED
      BY <1>4, <2>2, <3>1
  <2>. QED
    BY <2>1, <2>2
<1>6. both \in [1 .. m + t -> S]
  BY <1>3, LenProperties
<1>. QED
  BY <1>1, <1>5, <1>6 DEF Bytes

LEMMA PacketNumbers ==
  ASSUME NEW c \in Nat, NEW size \in Nat, NEW d \in Nat, NEW p \in Nat, p > 0, NEW rest \in Nat,
         c < size, d <= size, size - c <= rest,
         NEW r, r = d - Smaller(c, d), NEW t, t = Smaller(p, r), NEW n, n = Smaller(p, rest)
  PROVE  /\ t \in Nat /\ t <= n /\ t <= p /\ n \in Nat /\ n <= p
         /\ Smaller(c, d) + t = Smaller(c + p, d) /\ r - t = d - Smaller(c + p, d)
         /\ Smaller(c, d) \in Nat
         /\ t > 0 => Smaller(c, d) = c /\ c + t <= d
  BY DEF Smaller

(* A step that reads nothing. *)
LEMMA NothingRead ==
  ASSUME ExtractInv, End \/ ShortHeader \/ DrawBar, UNCHANGED setting
  PROVE  ExtractInv'
<1>1. Stores /\ UNCHANGED <<setting, dims, current, counted, rimanenteDaScrivere, out>>
  BY DEF ExtractInv, ExtractTypes, End, ShortHeader, DrawBar
<1>2. /\ NFiles' = NFiles /\ Files' = Files /\ Start' = Start /\ Size' = Size
      /\ Stores' = Stores
  BY <1>1, StoredStays
<1>3. CASE End
  <2>1. xpc = "head" /\ xpc' = "end" /\ eof /\ UNCHANGED <<pos, eof>>
    BY <1>3 DEF End
  <2>2. \A f \in Files : WrittenOf(f)' = WrittenOf(f)
    BY <1>1, <2>1 DEF WrittenOf, Reading
  <2>. QED
    BY <1>1, <1>2, <2>1, <2>2 DEF ExtractInv, ExtractTypes, AtHeader, InFile, Reading,
       Beginnings
<1>4. CASE ShortHeader
  <2>1. xpc = "head" /\ xpc' = "head" /\ pos' = Length /\ eof' = TRUE /\ Rest < Header
    BY <1>4 DEF ShortHeader
  <2>2. current \in 0 .. NFiles /\ pos = Start[current + 1] /\ NFiles \in Nat
    BY <1>1, <2>1, Sizes DEF ExtractInv, ExtractTypes, AtHeader
  <2>3. current = NFiles
    <3>. SUFFICES ASSUME current # NFiles PROVE FALSE
      OBVIOUS
    <3>. DEFINE f == current + 1
    <3>1. f \in Files /\ f + 1 \in 1 .. NFiles + 1
      BY <2>2 DEF Files
    <3>. HIDE DEF f
    <3>2. /\ Start[f] \in Nat /\ Start[f + 1] = Start[f] + Header + Size[f] /\ Size[f] \in Nat
          /\ Start[f + 1] <= Length /\ Length \in Nat /\ Header \in Nat
      BY <1>1, <3>1, Pieces
    <3>3. pos = Start[f]
      BY <2>2 DEF f
    <3>. QED
      BY <2>1, <3>2, <3>3 DEF Rest
  <2>4. AtHeader'
    BY <1>1, <1>2, <2>1, <2>3 DEF AtHeader, Length
  <2>5. \A f \in Files : WrittenOf(f)' = WrittenOf(f)
    BY <1>1, <2>1 DEF WrittenOf, Reading
  <2>. QED
    BY <1>1, <1>2, <2>1, <2>4, <2>5 DEF ExtractInv, ExtractTypes, InFile, Reading,
       Beginnings
<1>5. CASE DrawBar
  <2>1. xpc = "bar" /\ xpc' \in {"block", "hung"} /\ UNCHANGED <<pos, eof>>
    BY <1>5 DEF DrawBar
  <2>2. xpc' # "hung" => \A f \in Files : WrittenOf(f)' = WrittenOf(f)
    BY <1>1, <2>1 DEF WrittenOf, Reading
  <2>. QED
    BY <1>1, <1>2, <2>1, <2>2 DEF ExtractInv, ExtractTypes, AtHeader, InFile, Reading,
       Beginnings
<1>. QED
  BY <1>3, <1>4, <1>5

(* Between two files it reads the header of the next one. *)
LEMMA HeaderRead ==
  ASSUME ExtractInv, Restorable, ReadHeader, UNCHANGED setting
  PROVE  ExtractInv'
<1>. DEFINE f == current + 1
<1>1. /\ Stores /\ UNCHANGED <<setting, dims, eof, out>>
      /\ xpc = "head" /\ ~eof /\ Rest >= Header /\ pos' = pos + Header
  BY DEF ExtractInv, ExtractTypes, ReadHeader
<1>2. /\ NFiles' = NFiles /\ Files' = Files /\ Start' = Start /\ Size' = Size
      /\ Stores' = Stores
  BY <1>1, StoredStays
<1>3. current \in 0 .. NFiles /\ pos = Start[f] /\ NFiles \in Nat
  BY <1>1, Sizes DEF ExtractInv, ExtractTypes, AtHeader
<1>4. f \in Files
  <2>1. Length \in Nat /\ Header \in Nat /\ Header > 0
    BY <1>1, Pieces
  <2>2. current # NFiles
    BY <1>1, <1>3, <2>1 DEF Rest, Length
  <2>. QED
    BY <1>3, <2>2 DEF Files
<1>5. /\ current' = f /\ counted' = 0 /\ rimanenteDaScrivere' = dims[f]
      /\ xpc' = IF transfer_dimension(f) = 0 THEN "head" ELSE "bar"
  BY <1>3, <1>4 DEF ReadHeader
<1>. HIDE DEF f
<1>6. /\ Size[f] \in Nat /\ dims[f] \in Nat /\ dims[f] <= Size[f] /\ Size[f] = transfer_dimension(f)
      /\ Start[f] \in Nat /\ Start[f + 1] = Start[f] + Header + Size[f] /\ Header \in Nat
  BY <1>1, <1>4, Pieces
<1>7. ExtractTypes'
  <2>1. current' \in 0 .. NFiles
    BY <1>3, <1>4, <1>5 DEF Files
  <2>. QED
    BY <1>1, <1>2, <1>5, <2>1 DEF ExtractInv, ExtractTypes
<1>8. AtHeader'
  BY <1>1, <1>2, <1>3, <1>5, <1>6 DEF AtHeader
<1>9. InFile'
  <2>1. Smaller(0, dims[f]) = 0 /\ dims[f] - 0 = dims[f] /\ Size[f] - 0 = Size[f]
        /\ Start[f] + Header + 0 = Start[f] + Header
    BY <1>6 DEF Smaller
  <2>2. xpc' # "head" => 0 < Size[f]
    BY <1>5, <1>6
  <2>3. NFiles = 1 \/ Size[f] % Packet = 0
    BY <1>1, <1>4, WholePackets
  <2>. QED
    BY <1>1, <1>2, <1>3, <1>4, <1>5, <2>1, <2>2, <2>3 DEF InFile, Reading
<1>10. Beginnings'
  <2>1. ASSUME NEW g \in Files PROVE WrittenOf(g)' = WrittenOf(g)
    <3>1. g \in Nat /\ f \in Nat /\ dims'[g] = dims[g] /\ current = f - 1
      BY <1>1, <1>3, <1>4 DEF Files, f
    <3>2. f = g => WrittenOf(g) = 0
      BY <3>1 DEF WrittenOf
    <3>3. f = g => WrittenOf(g)' = 0
      <4>1. xpc' = "head" => dims[f] = 0
        BY <1>5, <1>6
      <4>. QED
        BY <1>5, <1>6, <3>1, <4>1 DEF WrittenOf, Reading, Smaller
    <3>4. f # g => WrittenOf(g)' = WrittenOf(g)
      BY <1>1, <1>5, <3>1 DEF WrittenOf, Reading
    <3>. QED
      BY <3>2, <3>3, <3>4
  <2>. QED
    BY <1>1, <1>2, <2>1 DEF ExtractInv, Beginnings
<1>. QED
  BY <1>5, <1>7, <1>8, <1>9, <1>10 DEF ExtractInv
(* What fread() leaves in the buffer where the file goes on. *)
LEMMA PacketBytes ==
  ASSUME Stores, ReadBlock, NEW t \in Nat, t <= Packet, t <= Smaller(Packet, Rest),
         current \in Files, counted \in Nat,
         pos = Start[current] + Header + counted, t > 0 => counted + t <= Size[current]
  PROVE  SubSeq(data', 1, t) = [k \in 1 .. t |-> <<current, counted + k>>]
<1>1. data' = Filled(Smaller(Packet, Rest))
  BY DEF ReadBlock
<1>2. /\ Packet \in Nat /\ Size[current] \in Nat /\ Start[current] \in Nat /\ Header \in Nat
      /\ Length \in Nat
  BY Pieces
<1>3. pos \in Nat /\ Rest \in Int /\ Smaller(Packet, Rest) \in Int
  BY <1>2 DEF Rest, Smaller
<1>4. ASSUME NEW k \in 1 .. t PROVE data'[k] = <<current, counted + k>>
  <2>1. k \in 1 .. Packet /\ k <= Smaller(Packet, Rest) /\ counted + k \in 1 .. Size[current]
    BY <1>2, <1>3
  <2>2. data'[k] = ByteAt(pos + k)
    BY <1>1, <2>1 DEF Filled
  <2>3. pos + k = Start[current] + Header + (counted + k)
    BY <1>2
  <2>4. ByteAt(Start[current] + Header + (counted + k)) = <<current, counted + k>>
    BY <2>1, ByteIs
  <2>. QED
    BY <2>2, <2>3, <2>4
<1>. DEFINE S == {data'[k] : k \in 1 .. Packet}
            packet == [k \in 1 .. t |-> <<current, counted + k>>]
            read == SubSeq(data', 1, t)
<1>5. data' \in Seq(S) /\ Len(data') = Packet
  <2>1. DOMAIN data' = 1 .. Packet /\ data' = [k \in 1 .. Packet |-> data'[k]]
    BY <1>1 DEF Filled
  <2>2. data' \in [1 .. Packet -> S]
    BY <2>1
  <2>. HIDE DEF S
  <2>. QED
    BY <1>2, <2>2
<1>6. /\ read \in Seq(S) /\ Len(read) = t
      /\ \A k \in 1 .. t : read[k] = data'[k]
  <2>. HIDE DEF S
  <2>1. \A k \in 1 .. t : 1 \in 1 .. Len(data') + 1 /\ t \in 0 .. Len(data')
    BY <1>2, <1>5
  <2>2. read = [k \in 1 .. t |-> data'[k]]
    BY <1>2, <1>5
  <2>3. \A k \in 1 .. t : data'[k] \in S
    BY <1>2, <1>5
  <2>. QED
    BY <2>2, <2>3
<1>7. read = [k \in 1 .. t |-> read[k]]
  <2>. HIDE DEF S, read
  <2>. QED
    BY <1>6, LenProperties
<1>. HIDE DEF read
<1>8. \A k \in 1 .. t : read[k] = <<current, counted + k>>
  BY <1>4, <1>6
<1>9. read = packet
  BY <1>7, <1>8
<1>. QED
  BY <1>9 DEF read

(* A packet read is a packet more of the file, and at the file's end it    *)
(* stands where the next one begins.                                       *)
LEMMA PacketRead ==
  ASSUME ExtractInv, Restorable, ReadBlock, UNCHANGED setting
  PROVE  ExtractInv'
<1>. DEFINE d == dims[current]
            size == Size[current]
            n == Smaller(Packet, Rest)
            t == ToWrite
            next == counted + Packet
<1>1. Stores /\ xpc = "block" /\ UNCHANGED <<setting, dims, current>>
  BY DEF ExtractInv, ExtractTypes, ReadBlock
<1>2. /\ NFiles' = NFiles /\ Files' = Files /\ Start' = Start /\ Size' = Size
      /\ Stores' = Stores
  BY <1>1, StoredStays
<1>3. /\ current \in Files /\ current \in Nat /\ ~eof /\ counted \in Nat /\ NFiles \in Nat
      /\ pos = Start[current] + Header + counted /\ counted < size
      /\ NFiles = 1 \/ (size - counted) % Packet = 0
      /\ rimanenteDaScrivere = d - Smaller(counted, d)
  BY <1>1, Sizes DEF ExtractInv, ExtractTypes, InFile, Reading, Files
<1>4. /\ size \in Nat /\ d \in Nat /\ d <= size /\ size = transfer_dimension(current)
      /\ Start[current] \in Nat /\ Start[current + 1] = Start[current] + Header + size
      /\ Start[current + 1] <= Length /\ Length \in Nat
      /\ Header \in Nat /\ Packet \in Nat /\ Packet > 0 /\ Packet \in Nat \ {0}
  BY <1>1, <1>3, Pieces
<1>5. Rest \in Nat /\ size - counted <= Rest
  BY <1>3, <1>4 DEF Rest
<1>6. /\ t \in Nat /\ t <= n /\ t <= Packet /\ n \in Nat /\ n <= Packet
      /\ Smaller(counted, d) + t = Smaller(next, d)
      /\ rimanenteDaScrivere - t = d - Smaller(next, d)
      /\ Smaller(counted, d) \in Nat
      /\ t > 0 => Smaller(counted, d) = counted /\ counted + t <= d
  <2>1. t = Smaller(Packet, rimanenteDaScrivere)
    BY DEF ToWrite
  <2>2. n = Smaller(Packet, Rest) /\ next = counted + Packet
    BY DEF n
  <2>. HIDE DEF d, size, n, t, next
  <2>3. /\ counted \in Nat /\ size \in Nat /\ d \in Nat /\ Packet \in Nat /\ Packet > 0
        /\ Rest \in Nat /\ counted < size /\ d <= size /\ size - counted <= Rest
        /\ rimanenteDaScrivere = d - Smaller(counted, d)
    BY <1>3, <1>4, <1>5
  <2>. QED
    BY <2>1, <2>2, <2>3, PacketNumbers
<1>7. /\ pos' = pos + n /\ eof' = (n < Packet) /\ counted' = next
      /\ out' = [out EXCEPT ![current] = @ \o SubSeq(data', 1, t)]
      /\ rimanenteDaScrivere' = rimanenteDaScrivere - t
      /\ \/ xpc' = IF next < size THEN "bar" ELSE "head"
         \/ next > IntMax /\ xpc' = "head"
  BY <1>4 DEF ReadBlock, Advanced
<1>8. SubSeq(data', 1, t) = [k \in 1 .. t |-> <<current, counted + k>>]
  <2>1. t > 0 => counted + t <= size
    BY <1>3, <1>4, <1>6
  <2>. HIDE DEF t
  <2>. QED
    BY <1>1, <1>3, <1>6, <2>1, PacketBytes
<1>. HIDE DEF t, n, d, size
<1>9. xpc' = IF next < size THEN "bar" ELSE "head"
  <2>1. size <= IntMax /\ IntMax \in Nat
    BY <1>1, <1>3, WholePackets, ExtractConstants DEF size
  <2>2. next > IntMax => ~(next < size)
    BY <1>3, <1>4, <2>1
  <2>. QED
    BY <1>7, <2>2
<1>10. next \in Nat /\ (~(next < size) => Smaller(next, d) = d) /\ Smaller(next, d) \in Nat
  BY <1>3, <1>4 DEF Smaller
<1>11. out'[current] = Bytes(current, Smaller(next, d))
  <2>1. out[current] = Bytes(current, Smaller(counted, d))
    BY <1>1, <1>3 DEF ExtractInv, Beginnings, WrittenOf, Reading, d
  <2>2. out'[current] = Bytes(current, Smaller(counted, d)) \o SubSeq(data', 1, t)
    BY <1>3, <1>7, <2>1 DEF ExtractInv, ExtractTypes
  <2>3. [k \in 1 .. t |-> <<current, counted + k>>]
          = [k \in 1 .. t |-> <<current, Smaller(counted, d) + k>>]
    <3>1. \A k \in 1 .. t : Smaller(counted, d) = counted
      BY <1>6
    <3>. QED
      BY <3>1
  <2>4. Bytes(current, Smaller(counted, d))
          \o [k \in 1 .. t |-> <<current, Smaller(counted, d) + k>>]
          = Bytes(current, Smaller(counted, d) + t)
    BY <1>3, <1>6, MoreBytes
  <2>. QED
    BY <1>6, <1>8, <2>2, <2>3, <2>4
<1>12. ExtractTypes'
  <2>1. Bytes(current, Smaller(next, d)) \in Seq(Files \X Nat)
    <3>1. Bytes(current, Smaller(next, d)) \in [1 .. Smaller(next, d) -> Files \X Nat]
      BY <1>3 DEF Bytes
    <3>. QED
      BY <1>10, <3>1
  <2>2. out' \in [Files -> Seq(Files \X Nat)]
    <3>1. out \in [Files -> Seq(Files \X Nat)]
      BY DEF ExtractInv, ExtractTypes
    <3>2. out' = [out EXCEPT ![current] = Bytes(current, Smaller(next, d))]
      BY <1>3, <1>7, <1>11, <3>1
    <3>. QED
      BY <2>1, <3>1, <3>2
  <2>3. eof' \in BOOLEAN /\ counted' \in Nat /\ xpc' \in {"head", "bar"}
    BY <1>7, <1>9, <1>10
  <2>4. current' \in 0 .. NFiles'
    BY <1>1, <1>2, <1>3 DEF ExtractInv, ExtractTypes
  <2>. QED
    BY <1>1, <1>2, <2>2, <2>3, <2>4 DEF ExtractTypes
<1>13. /\ next < size => n = Packet /\ (NFiles = 1 \/ (size - next) % Packet = 0)
       /\ ~(next < size) => pos + n = Start[current + 1] /\ (n < Packet => current = NFiles)
  <2>1. n = IF Packet < Rest THEN Packet ELSE Rest
    BY DEF n, Smaller
  <2>2. CASE NFiles = 1
    <3>1. current = 1 /\ Rest = size - counted
      BY <1>3, <1>4, <2>2 DEF Rest, Length, Files
    <3>. QED
      BY <1>3, <1>4, <2>1, <2>2, <3>1
  <2>3. CASE NFiles # 1
    <3>. DEFINE left == size - counted
    <3>1. left \in Nat /\ left > 0 /\ left % Packet = 0 /\ left <= Rest
      BY <1>3, <1>4, <1>5, <2>3
    <3>. HIDE DEF left
    <3>2. left >= Packet /\ (left - Packet) % Packet = 0
      BY <1>4, <3>1, ModStep
    <3>3. n = Packet /\ size - next = left - Packet /\ next = size - (left - Packet)
      <4>1. n = Packet
        BY <1>4, <1>5, <2>1, <3>1, <3>2
      <4>2. left = size - counted /\ size \in Nat /\ counted \in Nat /\ Packet \in Nat
        BY <1>3, <1>4 DEF left
      <4>. QED
        BY <4>1, <4>2
    <3>4. (size - next) % Packet = 0
      BY <3>2, <3>3
    <3>5. next <= size
      BY <1>3, <1>4, <3>1, <3>2, <3>3
    <3>6. ~(next < size) => pos + n = Start[current + 1]
      <4>1. /\ size \in Nat /\ counted \in Nat /\ Packet \in Nat /\ Header \in Nat
            /\ Start[current] \in Nat /\ pos = Start[current] + Header + counted
            /\ Start[current + 1] = Start[current] + Header + size
        BY <1>3, <1>4
      <4>2. ~(next < size) => counted + Packet = size
        BY <3>5, <4>1
      <4>. QED
        BY <3>3, <4>1, <4>2
    <3>. QED
      BY <1>4, <3>3, <3>4, <3>6
  <2>. QED
    BY <2>2, <2>3
<1>14. AtHeader'
  BY <1>1, <1>2, <1>7, <1>9, <1>13 DEF AtHeader
<1>15. InFile'
  <2>. SUFFICES ASSUME next < size PROVE InFile'
    BY <1>9 DEF InFile, Reading
  <2>1. n = Packet /\ (NFiles = 1 \/ (size - next) % Packet = 0)
    BY <1>13
  <2>2. pos + n = Start[current] + Header + next
    BY <1>3, <1>4, <2>1
  <2>3. ~eof'
    <3>1. ~(n < Packet)
      BY <1>4, <2>1
    <3>2. eof' = (n < Packet)
      BY <1>7
    <3>. QED
      BY <3>1, <3>2, Zenon
  <2>4. rimanenteDaScrivere' = d - Smaller(next, d)
    BY <1>6, <1>7
  <2>. QED
    BY <1>1, <1>2, <1>3, <1>7, <2>1, <2>2, <2>3, <2>4 DEF InFile, d, size
<1>16. Beginnings'
  <2>1. ASSUME NEW f \in Files PROVE out'[f] = Bytes(f, WrittenOf(f)')
    <3>1. CASE f = current
      <4>1. WrittenOf(f)' = Smaller(next, d)
        BY <1>1, <1>3, <1>7, <1>9, <1>10, <3>1 DEF WrittenOf, Reading, d
      <4>. QED
        BY <1>11, <3>1, <4>1
    <3>2. CASE f # current
      <4>1. WrittenOf(f)' = WrittenOf(f)
        BY <1>1, <3>2 DEF WrittenOf
      <4>2. out'[f] = out[f]
        BY <1>7, <3>2 DEF ExtractInv, ExtractTypes
      <4>3. out[f] = Bytes(f, WrittenOf(f))
        BY <1>1 DEF ExtractInv, Beginnings
      <4>. QED
        BY <4>1, <4>2, <4>3
    <3>. QED
      BY <3>1, <3>2
  <2>. QED
    BY <1>2, <2>1 DEF Beginnings
<1>17. xpc' # "end"
  BY <1>9
<1>. QED
  BY <1>12, <1>14, <1>15, <1>16, <1>17 DEF ExtractInv

LEMMA ExtractStep ==
  ExtractInv /\ Restorable /\ [ExtractNext]_extractVars => ExtractInv'
<1>. SUFFICES ASSUME ExtractInv, Restorable, [ExtractNext]_extractVars
              PROVE  ExtractInv'
  OBVIOUS
<1>1. CASE ExtractNext
  BY <1>1, NothingRead, HeaderRead, PacketRead DEF ExtractNext
<1>2. CASE UNCHANGED extractVars
  <2>1. UNCHANGED <<setting, dims, xpc, pos, eof, current, counted, rimanenteDaScrivere, out>>
    BY <1>2 DEF extractVars
  <2>2. /\ NFiles' = NFiles /\ Files' = Files /\ Start' = Start /\ Size' = Size
        /\ Stores' = Stores
    BY <2>1, StoredStays
  <2>3. \A f \in Files : WrittenOf(f)' = WrittenOf(f)
    BY <2>1 DEF WrittenOf, Reading
  <2>4. ExtractTypes' /\ AtHeader'
    BY <2>1, <2>2 DEF ExtractInv, ExtractTypes, AtHeader
  <2>5. InFile'
    BY <2>1, <2>2 DEF ExtractInv, InFile, Reading
  <2>6. Beginnings'
    BY <2>1, <2>2, <2>3 DEF ExtractInv, Beginnings
  <2>. QED
    BY <2>1, <2>2, <2>4, <2>5, <2>6 DEF ExtractInv
<1>. QED
  BY <1>1, <1>2

LEMMA ExtractEnd == ExtractInv => Restored
<1>. SUFFICES ASSUME ExtractInv, xpc \in {"end", "astray"}, NEW f \in Files
              PROVE  out[f] = Original(f)
  BY DEF Restored
<1>1. xpc = "end" /\ current = NFiles /\ NFiles \in Nat
  BY Sizes DEF ExtractInv, ExtractTypes
<1>2. WrittenOf(f) = dims[f]
  BY <1>1 DEF WrittenOf, Reading, Files
<1>. QED
  BY <1>1, <1>2 DEF ExtractInv, Beginnings, Bytes, Original

(* Where both ends agree on where a file ends, whatever the number of the  *)
(* files, their lengths, the block and the packet, the program that gets   *)
(* files back writes every file that was stored under the name, byte for   *)
(* byte (the loop of src/src/extract.cpp).                                 *)
THEOREM StoredComesBack == Restorable => (ExtractSpec => []Restored)
<1>. SUFFICES ASSUME Restorable PROVE ExtractSpec => []Restored
  OBVIOUS
<1>1. ExtractInit => ExtractInv
  BY ExtractBegin
<1>2. ExtractInv /\ [ExtractNext]_extractVars => ExtractInv'
  BY ExtractStep
<1>3. ExtractInv => Restored
  BY ExtractEnd
<1>. QED
  BY <1>1, <1>2, <1>3, PTL DEF ExtractSpec
=============================================================================
