------------------------------ MODULE Terminal ------------------------------
(***************************************************************************)
(* The server's terminals: init_terminal() on the standard input and the   *)
(* SSH sessions of handle_session(), both of which hand their lines to     *)
(* parseCommand() (src/src/Terminal/), and the part of main() that starts  *)
(* them and ends them.                                                     *)
(*                                                                         *)
(* Every process has one step it is at.  The terminals are forked before   *)
(* the server has its socket and may end it before.  A command is a file   *)
(* that parseCommand() verifies and then loads by its name; whoever        *)
(* installs commands may replace it at any time, also by one that is not   *)
(* signed.                                                                 *)
(***************************************************************************)
EXTENDS Integers, Sequences, FiniteSets, SequencesExt

CONSTANTS
    Sessions,    \* the processes forked for SSH connections
    Local,       \* the process of the local terminal
    WithLocal,   \* whether the server was started with `terminal'
    MaxLines,    \* bound: lines typed in each terminal
    MaxMessages, \* bound: SSH messages of each session before its shell
    MaxChanges   \* bound: replacements of the command's file

(* The local terminal is a process of its own. *)
ASSUME TerminalConstants == Local \notin Sessions /\ WithLocal \in BOOLEAN

Terminals == Sessions \cup {Local}
Lines == {"cmd", "exit"}

(* The versions of the command's file: every other one is signed. *)
Signed(version) == version % 2 = 0

(* main() is about to fork the terminal, the listener, to make its socket, *)
(* waits in recvfrom(), has ended.                                         *)
Stages == {"terminal", "listener", "socket", "serves", "ended"}

VARIABLES
    main,        \* the server: one of Stages
    keepRunning,
    unblocked,   \* whether recvfrom() returns without a datagram
    listener,    \* whether the process that accepts SSH connections lives
    step,        \* of every terminal
    messages,    \* SSH messages received by every session
    loggedIn,    \* the sessions that gave the right password
    typed,       \* lines typed and not yet read
    count,       \* how many were typed
    handled,     \* the lines that were handled, last one last
    file,        \* the version of the command's file
    loaded,      \* the versions that were run
    late         \* who sent SIGHUP to the server's pid after its end

termVars == <<step, messages, loggedIn, typed, count, handled>>
vars == <<main, keepRunning, unblocked, listener, termVars, file, loaded, late>>

Init ==
    /\ main = "terminal" /\ keepRunning = TRUE /\ unblocked = FALSE /\ listener = FALSE
    /\ step = [p \in Terminals |-> "none"]
    /\ messages = [s \in Sessions |-> 0]
    /\ loggedIn = {}
    /\ typed = [p \in Terminals |-> <<>>]
    /\ count = [p \in Terminals |-> 0]
    /\ handled = [p \in Terminals |-> <<>>]
    /\ file = 0 /\ loaded = {} /\ late = {}

Goto(p, where) == step' = [step EXCEPT ![p] = where]

-----------------------------------------------------------------------------
(* The start of main() *)

ForkTerminal ==
    /\ main = "terminal" /\ main' = "listener"
    /\ step' = IF WithLocal THEN [step EXCEPT ![Local] = "read"] ELSE step
    /\ UNCHANGED <<keepRunning, unblocked, listener, messages, loggedIn, typed, count, handled,
                   file, loaded, late>>

ForkListener ==
    /\ main = "listener" /\ main' = "socket"
    /\ listener' = TRUE
    /\ UNCHANGED <<keepRunning, unblocked, termVars, file, loaded, late>>

(* Without a socket or its port every recvfrom() fails at once.            *)
OpenSocket ==
    /\ main = "socket" /\ main' = "serves"
    /\ unblocked' \in BOOLEAN
    /\ UNCHANGED <<keepRunning, listener, termVars, file, loaded, late>>

-----------------------------------------------------------------------------
(* serve_ssh_terminal() and the three loops of handle_session() *)

Accept(s) ==
    /\ listener /\ step[s] = "none"
    /\ Goto(s, "auth")
    /\ UNCHANGED <<main, keepRunning, unblocked, listener, messages, loggedIn, typed, count, handled, file,
                   loaded, late>>

(* The message each loop waits for; every other one is answered and the    *)
(* loop goes on.  Without a message the session ends.                      *)
After(where) == CASE where = "auth" -> "channel"
                  [] where = "channel" -> "shell"
                  [] where = "shell" -> "read"

Loops == {"auth", "channel", "shell"}

Message(s) ==
    /\ step[s] \in Loops /\ messages[s] < MaxMessages
    /\ messages' = [messages EXCEPT ![s] = @ + 1]
    /\ \E awaited \in BOOLEAN :
          /\ Goto(s, IF awaited THEN After(step[s]) ELSE step[s])
          /\ loggedIn' = IF awaited /\ step[s] = "auth" THEN loggedIn \cup {s} ELSE loggedIn
    /\ UNCHANGED <<main, keepRunning, unblocked, listener, typed, count, handled, file, loaded, late>>

(* Mutant of HangUp: after a failed login the loops go on. *)
HangUpGoesOn(s) ==
    /\ step[s] \in Loops
    /\ Goto(s, IF step[s] = "auth" THEN "channel" ELSE "ended")
    /\ UNCHANGED <<main, keepRunning, unblocked, listener, messages, loggedIn, typed, count, handled, file,
                   loaded, late>>

HangUp(s) ==
    /\ step[s] \in Loops
    /\ Goto(s, "ended")
    /\ UNCHANGED <<main, keepRunning, unblocked, listener, messages, loggedIn, typed, count, handled, file,
                   loaded, late>>

-----------------------------------------------------------------------------
(* The loops that read lines *)

Type(p) ==
    /\ step[p] \in {"read", "verify", "load"} /\ count[p] < MaxLines
    /\ \E line \in Lines : typed' = [typed EXCEPT ![p] = Append(@, line)]
    /\ count' = [count EXCEPT ![p] = @ + 1]
    /\ UNCHANGED <<main, keepRunning, unblocked, listener, step, messages, loggedIn, handled, file, loaded,
                   late>>

(* getline() takes one line.  ssh_channel_read() takes what has arrived,   *)
(* of which strtok() leaves the first line.                                *)
Read(p) ==
    /\ step[p] = "read" /\ typed[p] # <<>>
    /\ LET line == Head(typed[p])
       IN  /\ handled' = [handled EXCEPT ![p] = Append(@, line)]
           /\ Goto(p, IF line = "exit" THEN "exit" ELSE "verify")
    /\ \E n \in 1 .. (IF p = Local THEN 1 ELSE Len(typed[p])) :
          typed' = [typed EXCEPT ![p] = SubSeq(@, n + 1, Len(@))]
    /\ UNCHANGED <<main, keepRunning, unblocked, listener, messages, loggedIn, count, file, loaded, late>>

(* The connection is closed: ssh_channel_read() returns no more than 0. *)
Close(s) ==
    /\ step[s] = "read" /\ s # Local /\ typed[s] = <<>>
    /\ Goto(s, "ended")
    /\ UNCHANGED <<main, keepRunning, unblocked, listener, messages, loggedIn, typed, count, handled, file,
                   loaded, late>>

(* Mutant of Exit: only the session ends. *)
ExitQuietly(p) ==
    /\ step[p] = "exit"
    /\ Goto(p, "ended")
    /\ UNCHANGED <<main, keepRunning, unblocked, listener, messages, loggedIn, typed, count, handled, file,
                   loaded, late>>

(* kill(serverpid, SIGHUP), whoever has that number by now.  The server's  *)
(* handler clears keepRunning and shuts down what it has for its socket,   *)
(* which is descriptor 0 as long as there is none.                         *)
Exit(p) ==
    /\ step[p] = "exit"
    /\ keepRunning' = (keepRunning /\ main = "ended")
    /\ unblocked' = (unblocked \/ main = "serves")
    /\ late' = IF main = "ended" THEN late \cup {p} ELSE late
    /\ Goto(p, "ended")
    /\ UNCHANGED <<main, listener, messages, loggedIn, typed, count, handled, file, loaded>>

-----------------------------------------------------------------------------
(* parseCommand() *)

(* The file is opened, read, hashed and closed. *)
Verify(p) ==
    /\ step[p] = "verify"
    /\ Goto(p, IF Signed(file) THEN "load" ELSE "read")
    /\ UNCHANGED <<main, keepRunning, unblocked, listener, messages, loggedIn, typed, count, handled, file,
                   loaded, late>>

(* dlopen() opens it again by its name. *)
Load(p) ==
    /\ step[p] = "load"
    /\ loaded' = loaded \cup {file}
    /\ Goto(p, "read")
    /\ UNCHANGED <<main, keepRunning, unblocked, listener, messages, loggedIn, typed, count, handled, file,
                   late>>

Replace ==
    /\ file < MaxChanges
    /\ file' = file + 1
    /\ UNCHANGED <<main, keepRunning, unblocked, listener, termVars, loaded, late>>

-----------------------------------------------------------------------------
(* The end of main() *)

(* Mutant of Shutdown: the terminal's process is forgotten. *)
ShutdownKeepsTerminal ==
    /\ main = "serves" /\ ~keepRunning
    /\ main' = "ended" /\ listener' = FALSE
    /\ UNCHANGED <<keepRunning, unblocked, termVars, file, loaded, late>>

(* The terminal's process and the listener are killed; the sessions are    *)
(* children of the listener and nobody has their numbers.                  *)
Shutdown ==
    /\ main = "serves" /\ ~keepRunning
    /\ main' = "ended"
    /\ listener' = FALSE
    /\ step' = IF WithLocal THEN [step EXCEPT ![Local] = "ended"] ELSE step
    /\ UNCHANGED <<keepRunning, unblocked, messages, loggedIn, typed, count, handled, file, loaded,
                   late>>

(* recvfrom() returns by itself, or with a datagram from whomever; what it *)
(* brings is no longer answered.                                           *)
Woken == unblocked /\ Shutdown
LastDatagram == ~unblocked /\ Shutdown

Terminal(p) == Read(p) \/ Exit(p) \/ Verify(p) \/ Load(p)

Next ==
    \/ \E s \in Sessions : Accept(s) \/ Message(s) \/ HangUp(s) \/ Close(s)
    \/ \E p \in Terminals : Type(p) \/ Terminal(p)
    \/ Replace
    \/ ForkTerminal \/ ForkListener \/ OpenSocket \/ Woken \/ LastDatagram

Spec == Init /\ [][Next]_vars
-----------------------------------------------------------------------------
(* Properties *)

(* No line of a session is handled before its user gave the password, in   *)
(* whatever order the client sends its messages.                           *)
LinesAfterLogin == \A s \in Sessions : handled[s] # <<>> => s \in loggedIn

(* Only sessions, which are not killed, can send their signal to a number  *)
(* that is no longer the server's.                                         *)
LocalIsNeverLate == Local \notin late

(* keepRunning is cleared and recvfrom() waits all the same. *)
Deaf == main = "serves" /\ ~keepRunning /\ ~unblocked

(* An `exit' that a terminal has read ends the server: at once when the    *)
(* server has its socket; one that comes before it has leaves the server   *)
(* waiting, unanswering, for a datagram that ends it.                      *)
ExitStops ==
    \A p \in Terminals :
        /\ main = "serves" /\ step[p] = "exit" ~> main = "ended"
        /\ step[p] = "exit" ~> main = "ended" \/ []Deaf
=============================================================================
