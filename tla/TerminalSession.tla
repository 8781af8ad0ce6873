---------------------------- MODULE TerminalSession ----------------------------
(***************************************************************************)
(* gtop's TerminalSession on Windows: the two settings of the console it   *)
(* changes, and the sessions, in nested scopes, that owe them back.  A     *)
(* session is constructed, moved into another or over another, and         *)
(* destroyed in the reverse order of construction.  As in main.cpp, no     *)
(* session is initialised while another owes the console.                  *)
(***************************************************************************)
EXTENDS Integers, Sequences

CONSTANT
  MaxSessions  \* a bound: how many session objects exist at once

ASSUME SessionsAssumption == MaxSessions \in Nat

Settings == {"mode", "page"}        \* the output mode, the output code page
Values == {"shell", "gtop"}         \* what the shell chose; VT processing, UTF-8

VARIABLES
  console,   \* the two settings
  original,  \* history: what the shell had chosen (it may be what gtop wants)
  settable,  \* the settings this console lets gtop change
  sessions   \* the session objects in scope, oldest first

vars == <<console, original, settable, sessions>>

Consoles == [Settings -> Values]
Sessions == [previous : Consoles, restores : SUBSET Settings]

Init ==
  /\ original \in Consoles /\ console = original
  /\ settable \in SUBSET Settings
  /\ sessions = <<>>

Changed == [s \in Settings |-> IF s \in settable THEN "gtop" ELSE console[s]]

Fresh == [previous |-> console, restores |-> settable]

\* restore(): each flagged setting is put back.
Restored(session, now) ==
  [s \in Settings |-> IF s \in session.restores THEN session.previous[s] ELSE now[s]]

\* Mutated: a moved-from session keeps its flags.
LeftAsItWas(session) == session

MovedFrom(session) == [session EXCEPT !.restores = {}]

Owed == {i \in DOMAIN sessions : sessions[i].restores # {}}

\* const TerminalSession terminal = TerminalSession::initialise();
Initialise ==
  /\ Len(sessions) < MaxSessions
  /\ Owed = {}
  /\ console' = Changed /\ sessions' = Append(sessions, Fresh)
  /\ UNCHANGED <<original, settable>>

\* TerminalSession second = std::move(first);
MoveConstruct(i) ==
  /\ Len(sessions) < MaxSessions
  /\ sessions' = Append([sessions EXCEPT ![i] = MovedFrom(@)], sessions[i])
  /\ UNCHANGED <<console, original, settable>>

\* second = std::move(first);
MoveAssign(i, j) ==
  /\ i # j
  /\ console' = Restored(sessions[i], console)
  /\ sessions' = [sessions EXCEPT ![i] = sessions[j], ![j] = MovedFrom(@)]
  /\ UNCHANGED <<original, settable>>

\* first = TerminalSession::initialise(): the new session is made before the old
\* one's restore() runs.
AssignInitialised(i) ==
  /\ Owed = {}
  /\ console' = Restored(sessions[i], Changed)
  /\ sessions' = [sessions EXCEPT ![i] = Fresh]
  /\ UNCHANGED <<original, settable>>

Destroy ==
  /\ sessions # <<>>
  /\ LET last == Len(sessions) IN
       /\ console' = Restored(sessions[last], console)
       /\ sessions' = SubSeq(sessions, 1, last - 1)
  /\ UNCHANGED <<original, settable>>

Next ==
  \/ Initialise \/ Destroy
  \/ \E i \in DOMAIN sessions :
       \/ MoveConstruct(i) \/ AssignInitialised(i)
       \/ \E j \in DOMAIN sessions : MoveAssign(i, j)

Spec == Init /\ [][Next]_vars

TypeOK ==
  /\ console \in Consoles /\ original \in Consoles
  /\ settable \in SUBSET Settings
  /\ sessions \in Seq(Sessions) /\ Len(sessions) <= MaxSessions

\* Every setting gtop has changed is owed by exactly one session, which remembers
\* the shell's value, however sessions are moved about: the state is put back
\* neither never nor twice (terminal_setup.cpp:3). And while it is owed the console is
\* in the state that session's capabilities describe: nobody's restore() has pulled it
\* away.
OneSessionOwes ==
  /\ \A s \in Settings : console[s] # original[s] =>
       \E i \in DOMAIN sessions : s \in sessions[i].restores
  /\ \A i \in Owed : sessions[i].previous = original
  /\ \A i, j \in Owed : i = j
  /\ \A i \in Owed : \A s \in sessions[i].restores : console[s] = "gtop"
================================================================================
