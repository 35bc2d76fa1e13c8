------------------------------- MODULE Sockets -------------------------------
(***************************************************************************)
(* The device's UDP sockets: how they are opened, marked and closed        *)
(* (Listeners), and what is reported about them (UdpDiagnostics).  Opening *)
(* a socket reads nothing of the reports and the reports see of a socket   *)
(* only its generation, so a behaviour takes the steps of one part and     *)
(* leaves the other where it began.                                        *)
(***************************************************************************)
EXTENDS Listeners

CONSTANTS Addrs, Family(_), Scenes, Cooldown, MaxFailures, None, MaxTime

VARIABLES
  now, next, listener, latch, untracked, conn, episode, lastWarn, lastError,
  handlers, failing, line, warned, errors, refused, scene

Reports == INSTANCE UdpDiagnostics

\* The scene in which nothing is sent, and the listeners move.
Silent == [peers |-> {}, addrs |-> {}, sites |-> {}, classes |-> {},
           last |-> 2]

ASSUME DiagnosticsAssumption ==
  /\ {Cooldown, MaxTime} \subseteq Nat /\ MaxFailures \in Nat \ {0}
  /\ None \notin Addrs \cup Nat \cup {"Warn", "Error"} /\ Scenes \subseteq Reports!Scene
  /\ \A a \in Addrs : Family(a) \in Reports!Families

reportVars ==
  <<now, next, listener, latch, untracked, conn, episode, lastWarn, lastError,
    handlers, failing, line, warned, errors, refused, scene>>

SocketsInit == Init /\ Reports!Init

SocketsNext ==
  \/ scene = Silent /\ Next /\ UNCHANGED reportVars
  \/ scene # Silent /\ Reports!Next /\ UNCHANGED vars

SocketsSpec == SocketsInit /\ [][SocketsNext]_<<vars, reportVars>>

-----------------------------------------------------------------------------
\* An episode is open only while its own socket and destination have failed
\* since they last sent, so "acceptance resumed" is never said of another.
EpisodesAreTrue == Reports!EpisodesAreTrue

\* What is said above DEBUG is worth saying: WARNings are spaced, a socket's
\* lifecycle ERROR comes once, and neither speaks of a retired socket.
LinesAreDue == Reports!LinesAreDue
==============================================================================
