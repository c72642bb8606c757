----------------------------- MODULE UserProofs -----------------------------
(***************************************************************************)
(* Proofs about what a node does for its user: plugins, the profile and    *)
(* files.  The three components share this module and nothing else: each   *)
(* part uses the definitions of its own component only.                    *)
(*                                                                         *)
(* Part 1, PluginHost: a plugin and its host, for any peers, any number of *)
(* messages, calls and restarts.  Its core is a chain: what AND counts as  *)
(* read is at most what the plugin's file has, which is at most what AND   *)
(* has received; every message, report or answer on its way is a past      *)
(* value of one link, and links only grow.                                 *)
(*                                                                         *)
(* Part 2, Profiles: the profiles of any nodes, with any texts and any     *)
(* number of publications.  Its core: a goroutine that has signed a        *)
(* profile holds the node's own stored one but for the field it changes,   *)
(* until that publication is stored or dropped as older.                   *)
(*                                                                         *)
(* Part 3, FileTransfer: a file of any length, over any streams, sent by a *)
(* user who sends again only after the attempt before.  Its core: one      *)
(* attempt is underway at a time; the .part file never has a hole, and it  *)
(* holds every chunk before the one a handler waits for, whichever attempt *)
(* the handler belongs to.                                                 *)
(***************************************************************************)
EXTENDS PluginHost, Profiles, FileTransfer, FiniteSetTheorems, SequenceTheorems, TLAPS

(***************************************************************************)
(* Part 1: PluginHost                                                      *)
(***************************************************************************)

(* The only key is the one of this start, and the user agreed to it.        *)
KeyOfThisRun ==
    /\ keys \subseteq {wants}
    /\ keys # {} => screen = "plugin"
    /\ screen = "plugin" => wants \subseteq approved

(* Calls outlive the plugin, never the manifest that permitted them.  Once   *)
(* the plugin is gone nobody waits for their answers.                        *)
CallsPermitted ==
    \A c \in served :
        /\ Permits(wants, c.op)
        /\ screen # "plugin" => c.text = None

(* A report on its way is of a peer and of marks that the file has.          *)
ReportsNoted ==
    \A c \in served : c.op = "read" => c.peer \in Peers /\ c.n <= file[c.peer]

(* Everything the plugin shows, and every answer on its way to it, is a past *)
(* value of what AND has.                                                    *)
AnswersPast ==
    \A p \in Peers :
        /\ \A h \in history : h[p] <= core[p]
        /\ ui.in[p] <= core[p]
        /\ markCall.in[p] <= marks[p]

(* Report after note after message.                                          *)
MarksOrdered ==
    \A p \in Peers :
        /\ marks[p] <= file[p] /\ file[p] <= core[p]
        /\ tell[p] <= file[p]

(* While the plugin runs its memory and its file agree; when it does not     *)
(* run there is nothing of it left in memory or on its way to it.            *)
MemoryIsFile ==
    IF screen = "plugin"
    THEN okundu = file
    ELSE /\ history = {} /\ markCall = Idle
         /\ ui = Fresh /\ okundu = Zero /\ tell = Zero

IInv ==
    /\ TypeOK
    /\ KeyOfThisRun
    /\ CallsPermitted
    /\ ReportsNoted
    /\ AnswersPast
    /\ MarksOrdered
    /\ MemoryIsFile
-----------------------------------------------------------------------------
LEMMA InitIInv == Init => IInv
<1> SUFFICES ASSUME Init PROVE IInv
  OBVIOUS
<1>1. Zero \in Counts /\ \A p \in Peers : Zero[p] = 0
  BY DEF Zero, Counts
<1>2. TypeOK
  BY <1>1 DEF Init, TypeOK, Screens, Perms, Idle, Fresh
<1> QED
  BY <1>1, <1>2 DEF Init, IInv, KeyOfThisRun, CallsPermitted, ReportsNoted, AnswersPast,
     MarksOrdered, MemoryIsFile, Idle, Fresh

-----------------------------------------------------------------------------
(* What the operators the actions share do.                                 *)

LEMMA BiggerIs ==
    ASSUME NEW m \in Nat, NEW n \in Nat
    PROVE  Bigger(m, n) \in Nat /\ m <= Bigger(m, n) /\ n <= Bigger(m, n)
           /\ \A k \in Nat : m <= k /\ n <= k => Bigger(m, n) <= k
  BY DEF Bigger

\* Only a running plugin is answered or admitted anything, and nothing but
\* what the manifest of this run asks for.
LEMMA AdmittedIs ==
    ASSUME IInv, NEW op, Admitted(op)
    PROVE  screen = "plugin" /\ Permits(wants, op)
  BY DEF IInv, KeyOfThisRun, Admitted

LEMMA AskHistoryIs ==
    ASSUME IInv, AskHistory
    PROVE  /\ history' \subseteq history \cup {core}
           /\ screen # "plugin" => history' = history
  BY AdmittedIs DEF AskHistory

\* What the plugin notes it has seen: its memory and its file stay equal, grow,
\* and hold no more than AND has; it reports no more than the file has.
LEMMA MarkShownIs ==
    ASSUME IInv, screen = "plugin",
           NEW u \in Screens,
           \A p \in Peers : u.in[p] <= core[p],
           NEW report \in Counts, \A p \in Peers : report[p] <= file[p],
           MarkShown(u, okundu, report)
    PROVE  /\ ui' = u /\ okundu' = file'
           /\ file' \in Counts /\ tell' \in Counts
           /\ \A p \in Peers : file[p] <= file'[p] /\ file'[p] <= core[p] /\ tell'[p] <= file'[p]
<1> DEFINE new == Shown(u, okundu)
<1>1. okundu = file /\ file \in Counts /\ core \in Counts
  BY DEF IInv, TypeOK, MemoryIsFile
<1>2. new \in Counts /\ \A p \in Peers : file[p] <= new[p] /\ new[p] <= core[p]
  <2>1. CASE u.focus = None
    BY <1>1, <2>1 DEF Shown, Counts, IInv, MarksOrdered
  <2>2. CASE u.focus # None
    <3>1. u.focus \in Peers
      BY <2>2 DEF Screens
    <3>2. new = [file EXCEPT ![u.focus] = Bigger(@, u.in[u.focus])]
      BY <1>1, <2>2 DEF Shown
    <3>3. u.in \in Counts /\ u.in[u.focus] \in Nat /\ file[u.focus] \in Nat
      BY <1>1, <3>1 DEF Counts, Screens
    <3> DEFINE most == Bigger(file[u.focus], u.in[u.focus])
    <3>4. core[u.focus] \in Nat /\ file[u.focus] <= core[u.focus] /\ u.in[u.focus] <= core[u.focus]
      BY <1>1, <3>1 DEF Counts, IInv, MarksOrdered
    <3>5. most \in Nat /\ file[u.focus] <= most /\ most <= core[u.focus]
      BY <3>3, <3>4, BiggerIs
    <3>6. new = [file EXCEPT ![u.focus] = most]
      BY <3>2
    <3> HIDE DEF most, new
    <3> QED
      BY <1>1, <3>1, <3>5, <3>6 DEF Counts, IInv, MarksOrdered
  <2> QED
    BY <2>1, <2>2
<1>3. ui' = u /\ okundu' = new /\ file' = new
  BY <1>1 DEF MarkShown, Saved
<1>4. tell' = [p \in Peers |-> IF new[p] > okundu[p] /\ u.coreMarks THEN new[p] ELSE report[p]]
  BY DEF MarkShown
<1>5. tell' \in Counts /\ \A p \in Peers : tell'[p] <= new[p]
  <2> HIDE DEF new
  <2> QED
    BY <1>1, <1>2, <1>4 DEF Counts
<1> QED
  BY <1>1, <1>2, <1>3, <1>5

-----------------------------------------------------------------------------
(* The interface.                                                           *)

LEMMA StartIInv ==
    ASSUME IInv, screen # "plugin", Start, wants \subseteq approved',
           approved' \subseteq Perms, UNCHANGED <<enabled, wants, serverVars, bounds, calm>>
    PROVE  IInv'
<1>1. Zero \in Counts /\ Asked.in = Zero /\ Fresh.in = Zero /\ \A p \in Peers : Zero[p] = 0
  BY DEF Zero, Counts, Asked, Fresh
<1>2. TypeOK'
  BY <1>1 DEF IInv, TypeOK, Screens, Start, Fresh, Asked, serverVars, bounds
<1>3. KeyOfThisRun'
  BY DEF IInv, KeyOfThisRun, Start
<1>4. CallsPermitted' /\ ReportsNoted'
  BY DEF IInv, CallsPermitted, ReportsNoted, Start, serverVars, Permits
<1>5. AnswersPast'
  BY <1>1 DEF IInv, TypeOK, Counts, AnswersPast, Start, serverVars
<1>6. MarksOrdered'
  BY <1>1 DEF IInv, TypeOK, Counts, MarksOrdered, Start, serverVars
<1>7. MemoryIsFile'
  BY DEF IInv, MemoryIsFile, Start
<1> QED
  BY <1>2, <1>3, <1>4, <1>5, <1>6, <1>7 DEF IInv

LEMMA ExitIInv == IInv /\ Exit => IInv'
<1> SUFFICES ASSUME IInv, Exit PROVE IInv'
  OBVIOUS
<1>1. Zero \in Counts /\ Idle.in = Zero /\ Fresh.in = Zero /\ \A p \in Peers : Zero[p] = 0
  BY DEF Zero, Counts, Idle, Fresh
<1>2. ASSUME NEW d \in served'
      PROVE  \E c \in served : /\ d.op = c.op /\ d.peer = c.peer /\ d.n = c.n /\ d.text = None
                               /\ d \in Calls
  <2>1. PICK c \in served : d = [c EXCEPT !.text = None]
    BY DEF Exit
  <2> QED
    BY <2>1 DEF IInv, TypeOK, Calls
<1>3. TypeOK'
  BY <1>1, <1>2 DEF IInv, TypeOK, Screens, Exit, KeysAfter, Idle, Fresh
<1>4. KeyOfThisRun'
  BY DEF IInv, KeyOfThisRun, Exit, KeysAfter
<1>5. CallsPermitted' /\ ReportsNoted'
  BY <1>2 DEF IInv, CallsPermitted, ReportsNoted, Exit, Permits
<1>6. AnswersPast' /\ MarksOrdered'
  BY <1>1 DEF IInv, TypeOK, Counts, AnswersPast, MarksOrdered, Exit
<1>7. MemoryIsFile'
  BY DEF MemoryIsFile, Exit
<1> QED
  BY <1>3, <1>4, <1>5, <1>6, <1>7 DEF IInv

LEMMA InterfaceIInv ==
    ASSUME IInv, Open \/ Approve \/ Decline \/ Revoke \/ Toggle \/ Exit \/ Restart \/ CalmDown
    PROVE  IInv'
<1>1. CASE Open
  <2>1. CASE Approved
    BY <1>1, <2>1, StartIInv DEF Open, Approved, IInv, TypeOK
  <2>2. CASE ~Approved
    BY <1>1, <2>2 DEF Open, IInv, TypeOK, KeyOfThisRun, CallsPermitted, ReportsNoted, AnswersPast,
       MarksOrdered, MemoryIsFile, pluginVars, serverVars, bounds, Permits
  <2> QED
    BY <2>1, <2>2
<1>2. CASE Approve
  BY <1>2, StartIInv DEF Approve, IInv, TypeOK
<1>3. CASE Decline
  BY <1>3 DEF Decline, IInv, TypeOK, KeyOfThisRun, CallsPermitted, ReportsNoted, AnswersPast,
     MarksOrdered, MemoryIsFile, pluginVars, serverVars, bounds, Permits
<1>4. CASE Revoke
  BY <1>4 DEF Revoke, IInv, TypeOK, KeyOfThisRun, CallsPermitted, ReportsNoted, AnswersPast,
     MarksOrdered, MemoryIsFile, pluginVars, serverVars, Permits
<1>5. CASE Toggle
  BY <1>5 DEF Toggle, IInv, TypeOK, KeyOfThisRun, CallsPermitted, ReportsNoted, AnswersPast,
     MarksOrdered, MemoryIsFile, pluginVars, serverVars, Permits
<1>6. CASE Exit
  BY <1>6, ExitIInv
<1>7. CASE Restart
  BY <1>7 DEF Restart, IInv, TypeOK, Perms, KeyOfThisRun, CallsPermitted, ReportsNoted, AnswersPast,
     MarksOrdered, MemoryIsFile, pluginVars, Permits
<1>8. CASE CalmDown
  BY <1>8 DEF CalmDown, IInv, TypeOK, KeyOfThisRun, CallsPermitted, ReportsNoted, AnswersPast,
     MarksOrdered, MemoryIsFile, hostVars, pluginVars, serverVars, bounds, Permits
<1> QED
  BY <1>1, <1>2, <1>3, <1>4, <1>5, <1>6, <1>7, <1>8
-----------------------------------------------------------------------------
(* The server.                                                              *)

LEMMA ReceiveIInv == ASSUME IInv, NEW p \in Peers, Receive(p) PROVE IInv'
<1>0. /\ core' = [core EXCEPT ![p] = @ + 1]
      /\ UNCHANGED <<hostVars, served, marks, pluginVars, bounds, calm>>
  BY DEF Receive
<1>1. core' \in Counts /\ \A q \in Peers : core[q] <= core'[q] /\ core[q] \in Nat /\ core'[q] \in Nat
  BY <1>0 DEF IInv, TypeOK, Counts
<1>2. TypeOK'
  BY <1>0, <1>1 DEF IInv, TypeOK, hostVars, pluginVars, bounds
<1>3. KeyOfThisRun' /\ CallsPermitted' /\ ReportsNoted' /\ MemoryIsFile'
  BY <1>0 DEF IInv, KeyOfThisRun, CallsPermitted, ReportsNoted, MemoryIsFile, hostVars,
     pluginVars, Permits
<1>4. AnswersPast'
  <2>1. \A q \in Peers : ui.in[q] \in Nat /\ \A h \in history : h[q] \in Nat
    BY DEF IInv, TypeOK, Counts, Screens
  <2> QED
    BY <1>0, <1>1, <2>1 DEF IInv, AnswersPast, pluginVars
<1>5. MarksOrdered'
  <2>1. \A q \in Peers : file[q] \in Nat
    BY DEF IInv, TypeOK, Counts
  <2> QED
    BY <1>0, <1>1, <2>1 DEF IInv, MarksOrdered, pluginVars
<1> QED
  BY <1>2, <1>3, <1>4, <1>5 DEF IInv

\* A report takes nothing back, and marks nothing the file does not have.
LEMMA MarkedIs ==
    ASSUME IInv, NEW c \in served, c.op = "read"
    PROVE  /\ Marked(c) \in Counts
           /\ \A p \in Peers : marks[p] <= Marked(c)[p] /\ Marked(c)[p] <= file[p]
<1>1. c.peer \in Peers /\ c.n \in Nat /\ c.n <= file[c.peer]
  BY DEF IInv, TypeOK, Calls, ReportsNoted
<1>2. marks \in Counts /\ file \in Counts /\ \A p \in Peers : marks[p] <= file[p]
  BY DEF IInv, TypeOK, MarksOrdered
<1> DEFINE most == Bigger(marks[c.peer], c.n)
<1>3. most \in Nat /\ marks[c.peer] <= most /\ most <= file[c.peer]
  BY <1>1, <1>2, BiggerIs DEF Counts
<1>4. Marked(c) = [marks EXCEPT ![c.peer] = most]
  BY DEF Marked
<1> HIDE DEF most
<1> QED
  BY <1>1, <1>2, <1>3, <1>4 DEF Counts

LEMMA ServeIInv == ASSUME IInv, NEW c \in served, Serve(c) PROVE IInv'
<1>1. marks' \in Counts /\ \A p \in Peers : marks[p] <= marks'[p] /\ marks'[p] <= file[p]
  <2>1. CASE c.op = "read"
    BY <2>1, MarkedIs DEF Serve
  <2>2. CASE c.op # "read"
    BY <2>2 DEF Serve, IInv, TypeOK, MarksOrdered, Counts
  <2> QED
    BY <2>1, <2>2
<1>2. history' \subseteq history \cup {core} /\ (screen # "plugin" => history' = history)
  BY AskHistoryIs DEF Serve
<1>3. TypeOK'
  BY <1>1, <1>2 DEF Serve, IInv, TypeOK, hostVars, bounds
<1>4. KeyOfThisRun' /\ CallsPermitted' /\ ReportsNoted'
  BY DEF Serve, IInv, KeyOfThisRun, CallsPermitted, ReportsNoted, hostVars, Permits
<1>5. AnswersPast'
  <2>1. \A p \in Peers : /\ markCall.in[p] \in Nat /\ marks[p] \in Nat /\ marks'[p] \in Nat
                        /\ core[p] \in Nat
    BY <1>1 DEF IInv, TypeOK, Counts
  <2> QED
    BY <1>1, <1>2, <2>1 DEF Serve, IInv, AnswersPast
<1>6. MarksOrdered'
  BY <1>1 DEF Serve, IInv, MarksOrdered
<1>7. MemoryIsFile'
  BY <1>2 DEF Serve, IInv, MemoryIsFile, hostVars
<1> QED
  BY <1>3, <1>4, <1>5, <1>6, <1>7 DEF IInv

LEMMA AnswerMarksIInv == ASSUME IInv, AnswerMarks PROVE IInv'
<1>1. screen = "plugin"
  BY AdmittedIs DEF AnswerMarks
<1>2. TypeOK'
  BY DEF AnswerMarks, IInv, TypeOK, hostVars, serverVars, bounds
<1>3. AnswersPast'
  BY DEF AnswerMarks, IInv, TypeOK, Counts, AnswersPast, serverVars
<1> QED
  BY <1>1, <1>2, <1>3 DEF AnswerMarks, IInv, KeyOfThisRun, CallsPermitted, ReportsNoted,
     MarksOrdered, MemoryIsFile, hostVars, serverVars, Permits

-----------------------------------------------------------------------------
(* The plugin.                                                              *)

LEMMA FailIInv == ASSUME IInv, NEW c \in served, Fail(c) PROVE IInv'
<1>1. /\ ui'.in = ui.in /\ (screen # "plugin" => ui' = ui)
      /\ ui' \in Screens
  BY DEF Fail, IInv, TypeOK, Screens, Calls, CallsPermitted
<1>2. TypeOK'
  BY <1>1 DEF Fail, IInv, TypeOK, hostVars, bounds
<1> QED
  BY <1>1, <1>2 DEF Fail, IInv, KeyOfThisRun, CallsPermitted, ReportsNoted, AnswersPast,
     MarksOrdered, MemoryIsFile, hostVars, Permits

LEMMA LostAnswerIInv ==
    ASSUME IInv, MarksFail \/ \E h \in history : HistoryFails(h)
    PROVE  IInv'
<1>1. Zero \in Counts /\ Idle.in = Zero /\ \A p \in Peers : Zero[p] = 0
  BY DEF Zero, Counts, Idle
<1>2. CASE MarksFail
  BY <1>1, <1>2 DEF MarksFail, IInv, TypeOK, Counts, KeyOfThisRun, CallsPermitted, ReportsNoted,
     AnswersPast, MarksOrdered, MemoryIsFile, hostVars, serverVars, bounds, Permits, Idle
<1>3. CASE \E h \in history : HistoryFails(h)
  BY <1>3 DEF HistoryFails, IInv, TypeOK, KeyOfThisRun, CallsPermitted, ReportsNoted,
     AnswersPast, MarksOrdered, MemoryIsFile, hostVars, serverVars, bounds, Permits
<1> QED
  BY <1>2, <1>3

\* What a step that shows more, and changes nothing at AND, keeps.
LEMMA ShowIInv ==
    ASSUME IInv, screen = "plugin",
           NEW u \in Screens,
           \A p \in Peers : u.in[p] <= core[p],
           NEW report \in Counts, \A p \in Peers : report[p] <= file[p],
           MarkShown(u, okundu, report),
           history' \subseteq history, markCall' \in {markCall, Idle},
           UNCHANGED <<hostVars, serverVars, bounds>>
    PROVE  IInv' /\ \A p \in Peers : file[p] <= file'[p]
<1>1. /\ ui' = u /\ okundu' = file'
      /\ file' \in Counts /\ tell' \in Counts
      /\ \A p \in Peers : file[p] <= file'[p] /\ file'[p] <= core[p] /\ tell'[p] <= file'[p]
  BY MarkShownIs
<1>2. Zero \in Counts /\ Idle.in = Zero /\ \A p \in Peers : Zero[p] = 0
  BY DEF Zero, Counts, Idle
<1>3. \A p \in Peers : marks[p] \in Nat /\ file[p] \in Nat /\ file'[p] \in Nat
  BY <1>1 DEF IInv, TypeOK, Counts
<1>4. TypeOK'
  BY <1>1, <1>2 DEF IInv, TypeOK, Idle, hostVars, serverVars, bounds
<1>5. KeyOfThisRun' /\ CallsPermitted'
  BY DEF IInv, KeyOfThisRun, CallsPermitted, hostVars, serverVars, Permits
<1>6. ReportsNoted'
  <2>1. \A c \in served : c.n \in Nat
    BY DEF IInv, TypeOK, Calls
  <2> QED
    BY <1>1, <1>3, <2>1 DEF IInv, ReportsNoted, serverVars
<1>7. AnswersPast'
  BY <1>1, <1>2, <1>3 DEF IInv, AnswersPast, serverVars
<1>8. MarksOrdered'
  BY <1>1, <1>3 DEF IInv, MarksOrdered, serverVars
<1>9. MemoryIsFile'
  BY <1>1 DEF MemoryIsFile, hostVars
<1> QED
  BY <1>1, <1>4, <1>5, <1>6, <1>7, <1>8, <1>9 DEF IInv

LEMMA ApplyHistoryIInv ==
    ASSUME IInv, NEW h \in history, ApplyHistory(h)
    PROVE  IInv' /\ \A p \in Peers : file[p] <= file'[p]
<1> DEFINE u == [ui EXCEPT !.in = h]
<1>1. screen = "plugin"
  BY DEF IInv, MemoryIsFile
<1>2. u \in Screens
      /\ u.in = h
  BY DEF IInv, TypeOK, Screens
<1>3. \A p \in Peers : u.in[p] <= core[p]
  BY <1>2 DEF IInv, AnswersPast
<1>4. tell \in Counts /\ \A p \in Peers : tell[p] <= file[p]
  BY DEF IInv, TypeOK, MarksOrdered
<1>5. /\ MarkShown(u, okundu, tell) /\ history' \subseteq history /\ markCall' = markCall
      /\ UNCHANGED <<hostVars, serverVars, bounds>>
  BY DEF ApplyHistory
<1> HIDE DEF u
<1> QED
  BY <1>1, <1>2, <1>3, <1>4, <1>5, ShowIInv

LEMMA OpenTalkIInv ==
    ASSUME IInv, NEW p \in Peers, OpenTalk(p)
    PROVE  IInv' /\ \A q \in Peers : file[q] <= file'[q]
<1> DEFINE u == [ui EXCEPT !.focus = p]
<1>1. u \in Screens
      /\ u.in = ui.in
  BY DEF IInv, TypeOK, Screens
<1>2. \A q \in Peers : u.in[q] <= core[q]
  BY <1>1 DEF IInv, AnswersPast
<1>3. tell \in Counts /\ \A q \in Peers : tell[q] <= file[q]
  BY DEF IInv, TypeOK, MarksOrdered
<1>4. /\ MarkShown(u, okundu, tell) /\ history' = history /\ markCall' = markCall
      /\ screen = "plugin" /\ UNCHANGED <<hostVars, serverVars, bounds>>
  BY DEF OpenTalk
<1> HIDE DEF u
<1> QED
  BY <1>1, <1>2, <1>3, <1>4, ShowIInv

\* AND's marks are never ahead of the file, so they add nothing to the plugin's
\* own: the answer only makes it report what AND lacks.
LEMMA ApplyMarksIInv ==
    ASSUME IInv, ApplyMarks
    PROVE  IInv' /\ \A p \in Peers : file[p] <= file'[p]
<1> DEFINE u == [ui EXCEPT !.coreMarks = TRUE]
           read == AtLeast(okundu, markCall.in)
           report == AtLeast(tell, Unreported(read, markCall.in))
<1>1. screen = "plugin"
  BY DEF ApplyMarks, Idle, IInv, MemoryIsFile
<1>2. u \in Screens
      /\ u.in = ui.in
  BY DEF IInv, TypeOK, Screens
<1>3. \A p \in Peers : u.in[p] <= core[p]
  BY <1>2 DEF IInv, AnswersPast
<1>4. \A p \in Peers : /\ okundu[p] \in Nat /\ markCall.in[p] \in Nat /\ tell[p] \in Nat
                      /\ okundu[p] = file[p]
                      /\ markCall.in[p] <= okundu[p] /\ tell[p] <= okundu[p]
  <2>1. \A p \in Peers : /\ okundu[p] \in Nat /\ markCall.in[p] \in Nat /\ tell[p] \in Nat
                        /\ marks[p] \in Nat /\ file[p] \in Nat
    BY DEF IInv, TypeOK, Counts
  <2> QED
    BY <1>1, <2>1 DEF IInv, AnswersPast, MarksOrdered, MemoryIsFile
<1>5. read = okundu
  <2>1. \A p \in Peers : read[p] = okundu[p]
    BY <1>4 DEF AtLeast, Bigger
  <2> QED
    BY <2>1 DEF AtLeast, IInv, TypeOK, Counts
<1>6. report \in Counts /\ \A p \in Peers : report[p] <= file[p]
  BY <1>4, <1>5 DEF AtLeast, Unreported, Bigger, Counts
<1>7. /\ MarkShown(u, okundu, report) /\ history' = history /\ markCall' = Idle
      /\ UNCHANGED <<hostVars, serverVars, bounds>>
  BY <1>5 DEF ApplyMarks
<1> HIDE DEF u, read, report
<1> QED
  BY <1>1, <1>2, <1>3, <1>6, <1>7, ShowIInv

LEMMA CloseTalkIInv == ASSUME IInv, CloseTalk PROVE IInv'
<1>1. ui' \in Screens
      /\ ui'.in = ui.in
  BY DEF CloseTalk, IInv, TypeOK, Screens
<1> QED
  BY <1>1 DEF CloseTalk, IInv, TypeOK, KeyOfThisRun, CallsPermitted, ReportsNoted, AnswersPast,
     MarksOrdered, MemoryIsFile, hostVars, serverVars, bounds, Permits

-----------------------------------------------------------------------------
(* Calls of the plugin.                                                     *)

\* New calls keep the invariant if the reports among them are of the file.
LEMMA AdmitIs ==
    ASSUME IInv, screen = "plugin", NEW new, Admit(new),
           new \subseteq Calls,
           \A c \in new : c.op = "read" => c.peer \in Peers /\ c.n <= file[c.peer],
           UNCHANGED <<hostVars, file>>
    PROVE  /\ served' \subseteq Calls
           /\ CallsPermitted' /\ ReportsNoted'
<1>1. \A c \in served' : c \in served \/ (c \in new /\ Permits(wants, c.op))
  BY AdmittedIs DEF Admit
<1> QED
  BY <1>1 DEF IInv, TypeOK, CallsPermitted, ReportsNoted, hostVars, Permits

LEMMA TickIInv == ASSUME IInv, Tick PROVE IInv'
<1> DEFINE new == {Call("read", p, None, tell[p]) : p \in {q \in Peers : tell[q] > 0}}
<1>1. new \subseteq Calls
      /\ \A c \in new : c.op = "read" => c.peer \in Peers /\ c.n <= file[c.peer]
  <2>1. ASSUME NEW p \in Peers, tell[p] > 0
        PROVE  /\ Call("read", p, None, tell[p]) \in
                       Calls
               /\ Call("read", p, None, tell[p]).peer = p
               /\ Call("read", p, None, tell[p]).n <= file[p]
    <3>1. tell[p] \in Nat /\ tell[p] <= file[p]
      BY DEF IInv, TypeOK, Counts, MarksOrdered
    <3> QED
      BY <3>1 DEF Call, Calls
  <2> QED
    BY <2>1
<1>2. Zero \in Counts /\ \A p \in Peers : Zero[p] = 0
  BY DEF Zero, Counts
<1>3. history' \subseteq history \cup {core}
  BY AskHistoryIs DEF Tick
<1>4. Admit(new) /\ UNCHANGED <<hostVars, file>> /\ screen = "plugin"
  BY DEF Tick
<1> HIDE DEF new
<1>5. /\ served' \subseteq Calls
      /\ CallsPermitted' /\ ReportsNoted'
  BY <1>1, <1>4, AdmitIs
<1>6. TypeOK'
  BY <1>2, <1>3, <1>5 DEF Tick, IInv, TypeOK, hostVars, bounds
<1>7. AnswersPast'
  <2>1. \A p \in Peers : core[p] \in Nat
    BY DEF IInv, TypeOK, Counts
  <2> QED
    BY <1>3, <2>1 DEF Tick, IInv, AnswersPast
<1>8. MarksOrdered'
  <2>1. \A p \in Peers : file[p] \in Nat
    BY DEF IInv, TypeOK, Counts
  <2> QED
    BY <1>2, <2>1 DEF Tick, IInv, MarksOrdered
<1>9. KeyOfThisRun' /\ MemoryIsFile'
  BY DEF Tick, IInv, KeyOfThisRun, MemoryIsFile, hostVars
<1> QED
  BY <1>5, <1>6, <1>7, <1>8, <1>9 DEF IInv

LEMMA EnterIInv == ASSUME IInv, Enter PROVE IInv'
<1> DEFINE text == IF ui.box = None THEN ui.focus ELSE ui.box
           new == {Call("send", ui.focus, text, calls)}
<1>1. screen = "plugin"
  BY DEF Enter, IInv, MemoryIsFile, Fresh
<1>2. new \subseteq Calls
      /\ \A c \in new : c.op = "read" => c.peer \in Peers /\ c.n <= file[c.peer]
  <2>1. ui.focus \in Peers \cup {None} /\ text \in Peers \cup {None} /\ calls \in Nat
    BY DEF IInv, TypeOK, Screens
  <2> HIDE DEF text
  <2> QED
    BY <2>1 DEF Call, Calls
<1>3. Admit(new) /\ UNCHANGED <<hostVars, file>>
  BY DEF Enter
<1>4. ui' \in Screens
      /\ ui'.in = ui.in
  BY DEF Enter, IInv, TypeOK, Screens
<1> HIDE DEF new
<1>5. /\ served' \subseteq Calls
      /\ CallsPermitted' /\ ReportsNoted'
  BY <1>1, <1>2, <1>3, AdmitIs
<1> QED
  BY <1>1, <1>4, <1>5 DEF Enter, IInv, TypeOK, KeyOfThisRun, AnswersPast, MarksOrdered,
     MemoryIsFile, hostVars

LEMMA CallOtherIInv == ASSUME IInv, NEW op \in Others, CallOther(op) PROVE IInv'
<1> DEFINE new == {Call(op, None, None, 0)}
<1>1. new \subseteq Calls
      /\ \A c \in new : c.op = "read" => c.peer \in Peers /\ c.n <= file[c.peer]
  <2>1. op # "read"
    BY PluginHostAssumption
  <2> QED
    BY <2>1 DEF Call, Calls
<1>2. Admit(new) /\ UNCHANGED <<hostVars, file>> /\ screen = "plugin"
  BY DEF CallOther, pluginVars
<1> HIDE DEF new
<1>3. /\ served' \subseteq Calls
      /\ CallsPermitted' /\ ReportsNoted'
  BY <1>1, <1>2, AdmitIs
<1> QED
  BY <1>2, <1>3 DEF CallOther, IInv, TypeOK, KeyOfThisRun, AnswersPast, MarksOrdered,
     MemoryIsFile, hostVars, pluginVars
-----------------------------------------------------------------------------
\* Every step keeps the invariant, and takes back neither a note nor a mark.
LEMMA NextIInv ==
    ASSUME IInv, [Next]_vars
    PROVE  IInv' /\ \A p \in Peers : file'[p] >= file[p] /\ marks'[p] >= marks[p]
<1>0. \A p \in Peers : file[p] \in Nat /\ marks[p] \in Nat /\ core[p] \in Nat
  BY DEF IInv, TypeOK, Counts
<1> DEFINE Grow == \A p \in Peers : file'[p] >= file[p] /\ marks'[p] >= marks[p]
<1>1. ASSUME UNCHANGED <<file, marks>> PROVE Grow
  BY <1>0, <1>1
<1>2. ASSUME IInv', UNCHANGED marks, \A p \in Peers : file[p] <= file'[p] PROVE Grow
  BY <1>0, <1>2 DEF IInv, TypeOK, Counts
<1>3. CASE Open \/ Approve \/ Decline \/ Revoke \/ Toggle \/ Exit \/ Restart \/ CalmDown
  <2>1. UNCHANGED <<file, marks>>
    BY <1>3 DEF Open, Approve, Start, Decline, Revoke, Toggle, Exit, Restart, CalmDown,
       serverVars, pluginVars
  <2> QED
    BY <1>1, <1>3, <2>1, InterfaceIInv
<1>4. ASSUME NEW p \in Peers, Receive(p) PROVE IInv' /\ Grow
  <2>1. UNCHANGED <<file, marks>>
    BY <1>4 DEF Receive, pluginVars
  <2> QED
    BY <1>1, <1>4, <2>1, ReceiveIInv
<1>5. ASSUME NEW p \in Peers, OpenTalk(p) PROVE IInv' /\ Grow
  BY <1>2, <1>5, OpenTalkIInv DEF OpenTalk, serverVars
<1>6. ASSUME NEW c \in served, Serve(c) PROVE IInv' /\ Grow
  <2>1. \A p \in Peers : file'[p] >= file[p]
    BY <1>0, <1>6 DEF Serve
  <2>2. \A p \in Peers : marks'[p] >= marks[p]
    <3>1. CASE c.op = "read"
      <4>1. \A p \in Peers : Marked(c)[p] \in Nat /\ marks[p] <= Marked(c)[p]
        BY <3>1, MarkedIs DEF Counts
      <4> QED
        BY <1>0, <1>6, <3>1, <4>1 DEF Serve
    <3>2. CASE c.op # "read"
      BY <1>0, <1>6, <3>2 DEF Serve
    <3> QED
      BY <3>1, <3>2
  <2> QED
    BY <1>6, <2>1, <2>2, ServeIInv
<1>7. ASSUME NEW c \in served, Fail(c) PROVE IInv' /\ Grow
  BY <1>1, <1>7, FailIInv DEF Fail
<1>8. CASE AnswerMarks
  BY <1>1, <1>8, AnswerMarksIInv DEF AnswerMarks, serverVars
<1>9. CASE ApplyMarks
  BY <1>2, <1>9, ApplyMarksIInv DEF ApplyMarks, serverVars
<1>10. CASE Tick
  BY <1>1, <1>10, TickIInv DEF Tick
<1>11. CASE CloseTalk
  BY <1>1, <1>11, CloseTalkIInv DEF CloseTalk, serverVars
<1>12. CASE Enter
  BY <1>1, <1>12, EnterIInv DEF Enter
<1>13. ASSUME NEW op \in Others, CallOther(op) PROVE IInv' /\ Grow
  BY <1>1, <1>13, CallOtherIInv DEF CallOther, pluginVars
<1>14. ASSUME NEW h \in history, ApplyHistory(h) PROVE IInv' /\ Grow
  BY <1>2, <1>14, ApplyHistoryIInv DEF ApplyHistory, serverVars
<1>15. CASE MarksFail \/ \E h \in history : HistoryFails(h)
  BY <1>1, <1>15, LostAnswerIInv DEF MarksFail, HistoryFails, serverVars
<1>16. CASE UNCHANGED vars
  <2>1. UNCHANGED <<file, marks>>
    BY <1>16 DEF vars, serverVars, pluginVars
  <2>2. IInv'
    BY <1>16 DEF vars, hostVars, serverVars, pluginVars, bounds, IInv, TypeOK, KeyOfThisRun,
       CallsPermitted, ReportsNoted, AnswersPast, MarksOrdered, MemoryIsFile, Permits
  <2> QED
    BY <1>1, <2>1, <2>2
<1> QED
  BY <1>3, <1>4, <1>5, <1>6, <1>7, <1>8, <1>9, <1>10, <1>11, <1>12, <1>13, <1>14, <1>15, <1>16
     DEF Next

\* The inductive invariant holds in every reachable state of the plugin and
\* its host (eklentiCalistir, authMiddleware, Broker.MarkRead and the plugin).
THEOREM PluginInvariant == Spec => []IInv
<1>1. Init => IInv
  BY InitIInv
<1>2. IInv /\ [Next]_vars => IInv'
  BY NextIInv
<1> QED
  BY <1>1, <1>2, PTL DEF Spec

\* No key outlives the plugin it was made for, no live key permits what the
\* user did not approve, and neither do calls left from an earlier run
\* (geriAl, IzinOnayli, yetkiler).
THEOREM AlwaysEntitled == Spec => []Entitled
<1>1. IInv => Entitled
  BY DEF IInv, TypeOK, KeyOfThisRun, CallsPermitted, Entitled, Permits
<1> QED
  BY <1>1, PluginInvariant, PTL

\* AND never counts as read what the plugin has not noted as read in its own
\* file (okunduIsaretle before bildirilecek, Broker.MarkRead).
THEOREM AlwaysNotedFirst == Spec => []NotedFirst
<1>1. IInv => NotedFirst
  BY DEF IInv, ReportsNoted, MarksOrdered, NotedFirst
<1> QED
  BY <1>1, PluginInvariant, PTL

\* What was read stays read, whatever the order in which histories and
\* reports arrive (okunduIsaretle, Broker.MarkRead).
THEOREM AlwaysStaysRead == Spec => ReadStaysRead
<1>1. IInv /\ [Next]_vars
        => [\A p \in Peers : file'[p] >= file[p] /\ marks'[p] >= marks[p]]_vars
  BY NextIInv
<1> QED
  BY <1>1, PluginInvariant, PTL DEF Spec, ReadStaysRead

-----------------------------------------------------------------------------
(***************************************************************************)
(* Part 2: Profiles                                                        *)
(***************************************************************************)

Jobs == [pc : {"idle", "wait", "poll", "sign", "persist", "upsert", "announce"},
         text : [Fields -> Texts], github : Names \cup {Empty}, at : Nat, edit : Fields \cup {"none"}]

Deliveries == [pc : {"idle", "handle", "persist", "upsert"}, author : Authors \cup {"none"}, at : Nat]

SignedTypes ==
    /\ signed \in [Authors -> Seq(Contents)]
    /\ IsFiniteSet(Published) /\ Cardinality(Published) <= MaxSigned
    /\ \A a \in Authors : Len(signed[a]) <= Cardinality(Published)

NetTypes == \A m \in net : m.author \in Authors /\ m.at \in 1..Len(signed[m.author])

StoreTypes ==
    /\ mem \in [Nodes -> [Authors -> Nat]] /\ row \in [Nodes -> [Authors -> Nat]]
    /\ \A n \in Nodes, a \in Authors : mem[n][a] <= Len(signed[a]) /\ row[n][a] <= Len(signed[a])
    /\ recent \in [Nodes -> SUBSET Authors] /\ newcomers \in [Nodes -> 0..MaxNew]

\* The topic delivers no author's profile to that author's own node.
HandlingTypes ==
    /\ handling \in [Nodes -> Deliveries]
    /\ \A n \in Nodes : handling[n].pc # "idle" =>
          /\ handling[n].author \in Authors /\ handling[n].author # Key[n]
          /\ handling[n].at \in 1..Len(signed[handling[n].author])

\* A goroutine that has signed knows its publication, one of k, and a save its
\* field.
Fits(j, t, k) ==
    /\ j \in Jobs
    /\ j.pc \in {"persist", "upsert", "announce"} => j.at \in 1..k
    /\ t \in Savers /\ j.pc \in {"sign", "persist", "upsert"} => j.edit \in Fields

JobTypes ==
    /\ job \in [Nodes -> [Threads -> Jobs]]
    /\ \A n \in Nodes, t \in Threads : Fits(job[n][t], t, Len(signed[Key[n]]))

UserTypes ==
    /\ form \in [Nodes -> [Fields -> Texts] \cup {NoForm}]
    /\ linking \in [Nodes -> BOOLEAN]
    /\ wanted \in [Nodes -> Contents \cup {Unsure}]

ProfileTypes == SignedTypes /\ NetTypes /\ StoreTypes /\ HandlingTypes /\ JobTypes /\ UserTypes

\* What a publication says: all of the stored profile but the part its author
\* has changed.
Says(n, t, c) ==
    /\ t = "start" => c = Own(n)
    /\ t \in Savers => /\ c.github = Own(n).github
                       /\ \A f \in Fields : f # job[n][t].edit => c.text[f] = Own(n).text[f]
    /\ t = "link" => c.text = Own(n).text

JobSound(n, t) ==
    LET j == job[n][t] IN
    /\ j.pc = "sign" => Says(n, t, [text |-> j.text, github |-> j.github])
    /\ j.pc = "persist" => j.at > mem[n][Key[n]] /\ Says(n, t, signed[Key[n]][j.at])
    /\ j.pc = "upsert" => j.at = mem[n][Key[n]]

Upserting(n) == \E t \in Threads : job[n][t].pc = "upsert"

\* As long as nothing can have cost an edit, one publication at a time is under
\* way, and it says what the stored profile says beside its own part.
OwnSound(n) ==
    wanted[n] # Unsure =>
       /\ Own(n) = wanted[n]
       /\ \A t, u \in Underway(n) : t = u
       /\ form[n] # NoForm => form[n] = Own(n).text /\ Savers \cap Underway(n) = {}
       /\ ~Upserting(n) => row[n][Key[n]] = mem[n][Key[n]]
       /\ \A t \in Threads : JobSound(n, t)

ProfileInv == ProfileTypes /\ \A n \in Nodes : OwnSound(n)

-----------------------------------------------------------------------------
LEMMA ProfileNumbers ==
    ASSUME ProfilesAssumption
    PROVE  /\ MaxNew \in Nat \ {0} /\ MaxSigned \in Nat \ {0}
           /\ NoText \in [Fields -> Texts] /\ Blank \in Contents
           /\ NoJob \in Jobs /\ NoJob.pc = "idle"
           /\ AtRest \in Deliveries /\ AtRest.pc = "idle"
<1>1. MaxNew \in Nat \ {0} /\ MaxSigned \in Nat \ {0}
  BY DEF ProfilesAssumption
<1>2. NoText \in [Fields -> Texts]
  BY DEF ProfilesAssumption, NoText
<1>3. Blank \in Contents
  BY <1>2 DEF Blank, Contents
<1>4. NoJob \in Jobs /\ NoJob.pc = "idle"
  BY <1>2 DEF NoJob, Jobs
<1>5. AtRest \in Deliveries /\ AtRest.pc = "idle"
  BY DEF AtRest, Deliveries
<1> QED
  BY <1>1, <1>2, <1>3, <1>4, <1>5

LEMMA LenIs ==
    ASSUME NEW f, f \in [Authors -> Seq(Contents)], NEW a \in Authors
    PROVE  f[a] \in Seq(Contents) /\ Len(f[a]) \in Nat /\ DOMAIN f[a] = 1..Len(f[a])
<1> HIDE DEF Contents
<1>1. f[a] \in Seq(Contents)
  OBVIOUS
<1> QED
  BY <1>1, LenProperties

LEMMA OwnIs ==
    ASSUME ProfilesAssumption, ProfileTypes, NEW n \in Nodes
    PROVE  /\ Key[n] \in Authors /\ mem[n][Key[n]] \in Nat
           /\ Own(n) \in Contents
           /\ Own(n).text \in [Fields -> Texts] /\ Own(n).github \in Names \cup {Empty}
<1>1. Key[n] \in Authors
  BY DEF ProfilesAssumption
<1>2. /\ mem[n][Key[n]] \in Nat /\ mem[n][Key[n]] <= Len(signed[Key[n]])
      /\ signed[Key[n]] \in Seq(Contents) /\ Len(signed[Key[n]]) \in Nat
  <2>1. mem[n][Key[n]] \in Nat /\ mem[n][Key[n]] <= Len(signed[Key[n]])
    BY <1>1 DEF ProfileTypes, StoreTypes
  <2>2. signed \in [Authors -> Seq(Contents)]
    BY DEF ProfileTypes, SignedTypes
  <2> QED
    BY <1>1, <2>1, <2>2, LenIs
<1>3. Own(n) \in Contents
  <2>1. CASE mem[n][Key[n]] = 0
    BY <2>1, ProfileNumbers DEF Own
  <2>2. CASE mem[n][Key[n]] # 0
    <3>1. mem[n][Key[n]] \in 1..Len(signed[Key[n]])
      BY <1>2, <2>2
    <3>2. signed[Key[n]][mem[n][Key[n]]] \in Contents
      BY <1>2, <3>1, ElementOfSeq
    <3> QED
      BY <2>2, <3>2 DEF Own
  <2> QED
    BY <2>1, <2>2
<1> QED
  BY <1>1, <1>2, <1>3 DEF Contents

\* Publications are only added.
Longer ==
    /\ signed' \in [Authors -> Seq(Contents)]
    /\ \A a \in Authors : /\ Len(signed[a]) <= Len(signed'[a])
                          /\ \A i \in 1..Len(signed[a]) : signed'[a][i] = signed[a][i]

LEMMA Appended ==
    ASSUME ProfilesAssumption, SignedTypes, NetTypes, MoreToSign, NEW a \in Authors, NEW c \in Contents,
           signed' = [signed EXCEPT ![a] = Append(@, c)]
    PROVE  /\ SignedTypes' /\ Longer
           /\ Len(signed'[a]) = Len(signed[a]) + 1 /\ signed'[a][Len(signed[a]) + 1] = c
           /\ \A b \in Authors : b # a => signed'[b] = signed[b]
<1> DEFINE r == Append(signed[a], c)
           k == Len(signed[a]) + 1
<1>1. MaxSigned \in Nat \ {0}
  BY ProfileNumbers
<1>2. /\ signed \in [Authors -> Seq(Contents)] /\ signed[a] \in Seq(Contents)
      /\ IsFiniteSet(Published) /\ Cardinality(Published) < MaxSigned /\ Cardinality(Published) \in Nat
      /\ \A b \in Authors : Len(signed[b]) <= Cardinality(Published) /\ Len(signed[b]) \in Nat
                            /\ DOMAIN signed[b] = 1..Len(signed[b])
  <2>1. /\ signed \in [Authors -> Seq(Contents)] /\ IsFiniteSet(Published) /\ Cardinality(Published) < MaxSigned
        /\ \A b \in Authors : Len(signed[b]) <= Cardinality(Published)
    BY DEF SignedTypes, MoreToSign
  <2>2. Cardinality(Published) \in Nat
    BY <2>1, FS_CardinalityType
  <2> QED
    BY <2>1, <2>2, LenIs
<1>3. /\ r \in Seq(Contents) /\ Len(r) = k /\ r[k] = c
      /\ \A i \in 1..Len(signed[a]) : r[i] = signed[a][i]
  <2>1. signed[a] \in Seq(Contents)
    BY <1>2
  <2> HIDE DEF Contents
  <2> QED
    BY <2>1, AppendProperties
<1>4. DOMAIN r = 1..k
  BY <1>3, LenProperties
<1> HIDE DEF r
<1>5. /\ signed' \in [Authors -> Seq(Contents)] /\ signed'[a] = r
      /\ \A b \in Authors : b # a => signed'[b] = signed[b]
  BY <1>2, <1>3 DEF r
<1>6. k \in 1..MaxSigned /\ k \in Nat
  <2>1. Len(signed[a]) \in Nat /\ Len(signed[a]) <= Cardinality(Published)
    BY <1>2
  <2> QED
    BY <1>1, <1>2, <2>1
<1>7. Published' = Published \cup {<<a, k>>} /\ <<a, k>> \notin Published
  <2>0. Len(signed[a]) \in Nat
    BY <1>2
  <2>1. \A b \in Authors : DOMAIN signed[b] = 1..Len(signed[b])
    BY <1>2
  <2>2. \A i \in 1..k : i = k \/ i \in 1..Len(signed[a])
    BY <2>0
  <2>3. \A i \in 1..Len(signed[a]) : i \in 1..k
    BY <2>0
  <2>4. k \notin 1..Len(signed[a]) /\ k \in 1..k
    BY <2>0
  <2>5. DOMAIN signed[a] = 1..Len(signed[a])
    BY <2>1
  <2>6. ASSUME NEW b \in Authors, NEW i \in 1..MaxSigned
        PROVE  i \in DOMAIN signed'[b] <=> i \in DOMAIN signed[b] \/ (b = a /\ i = k)
    <3> HIDE DEF k
    <3>1. CASE b = a
      BY <1>4, <1>5, <2>2, <2>3, <2>4, <2>5, <3>1
    <3>2. CASE b # a
      BY <1>5, <3>2
    <3> QED
      BY <3>1, <3>2
  <2>7. <<a, k>> \notin Published
    <3> HIDE DEF k
    <3> QED
      BY <2>4, <2>5 DEF Published
  <2>8. Published' = {p \in Authors \X (1..MaxSigned) : p[2] \in DOMAIN signed'[p[1]]}
    BY DEF Published
  <2> HIDE DEF k
  <2>9. ASSUME NEW b \in Authors, NEW i \in 1..MaxSigned
        PROVE  <<b, i>> \in Published' <=> <<b, i>> \in Published \cup {<<a, k>>}
    BY <2>6, <2>8 DEF Published
  <2>10. <<a, k>> \in Authors \X (1..MaxSigned)
    BY <1>6
  <2>11. Published' \subseteq Authors \X (1..MaxSigned) /\ Published \subseteq Authors \X (1..MaxSigned)
    BY <2>8 DEF Published
  <2>12. ASSUME NEW p \in Authors \X (1..MaxSigned)
         PROVE  p \in Published' <=> p \in Published \cup {<<a, k>>}
    <3>1. p = <<p[1], p[2]>> /\ p[1] \in Authors /\ p[2] \in 1..MaxSigned
      OBVIOUS
    <3>2. <<p[1], p[2]>> \in Published' <=> <<p[1], p[2]>> \in Published \cup {<<a, k>>}
      BY <2>9, <3>1
    <3> QED
      BY <3>1, <3>2
  <2>13. Published' = Published \cup {<<a, k>>}
    BY <2>10, <2>11, <2>12, Zenon
  <2> QED
    BY <2>7, <2>13
<1>8. /\ IsFiniteSet(Published') /\ Cardinality(Published') = Cardinality(Published) + 1
  BY <1>2, <1>7, FS_AddElement
<1>9. Longer
  <2>1. ASSUME NEW b \in Authors
        PROVE  Len(signed[b]) <= Len(signed'[b]) /\ \A i \in 1..Len(signed[b]) : signed'[b][i] = signed[b][i]
    <3>0. Len(signed[b]) \in Nat
      BY <1>2
    <3>1. CASE b = a
      <4>1. signed'[b] = r /\ Len(r) = Len(signed[b]) + 1
        BY <1>3, <1>5, <3>1
      <4>2. \A i \in 1..Len(signed[b]) : r[i] = signed[b][i]
        BY <1>3, <3>1
      <4> QED
        BY <3>0, <4>1, <4>2
    <3>2. CASE b # a
      <4>1. signed'[b] = signed[b]
        BY <1>5, <3>2
      <4> QED
        BY <3>0, <4>1
    <3> QED
      BY <3>1, <3>2
  <2> QED
    BY <1>5, <2>1 DEF Longer
<1>10. ASSUME NEW b \in Authors PROVE Len(signed'[b]) <= Cardinality(Published')
  <2>0. Len(signed[b]) \in Nat /\ Len(signed[b]) <= Cardinality(Published) /\ Cardinality(Published) \in Nat
    BY <1>2
  <2>1. CASE b = a
    <3>1. Len(signed'[b]) = Len(signed[b]) + 1
      BY <1>3, <1>5, <2>1
    <3> QED
      BY <1>8, <2>0, <3>1
  <2>2. CASE b # a
    <3>1. signed'[b] = signed[b]
      BY <1>5, <2>2
    <3> QED
      BY <1>8, <2>0, <3>1
  <2> QED
    BY <2>1, <2>2
<1>11. SignedTypes'
  <2>1. Cardinality(Published') <= MaxSigned
    <3> HIDE DEF Published
    <3> QED
      BY <1>1, <1>2, <1>8
  <2> HIDE DEF Published, Contents
  <2> QED
    BY <1>5, <1>8, <1>10, <2>1 DEF SignedTypes
<1> QED
  BY <1>3, <1>5, <1>9, <1>11

\* What is known of the publications stays so when more are added.
LEMMA StillTyped ==
    ASSUME ProfilesAssumption, SignedTypes, Longer
    PROVE  /\ NetTypes /\ net' = net => NetTypes'
           /\ StoreTypes /\ UNCHANGED storeVars => StoreTypes'
           /\ HandlingTypes /\ handling' = handling => HandlingTypes'
           /\ \A n \in Nodes : \A t, j : Fits(j, t, Len(signed[Key[n]])) => Fits(j, t, Len(signed'[Key[n]]))
<1>1. \A a \in Authors : Len(signed[a]) \in Nat /\ Len(signed'[a]) \in Nat /\ Len(signed[a]) <= Len(signed'[a])
  <2>1. signed \in [Authors -> Seq(Contents)] /\ signed' \in [Authors -> Seq(Contents)]
    BY DEF SignedTypes, Longer
  <2>2. \A a \in Authors : Len(signed[a]) \in Nat /\ Len(signed'[a]) \in Nat
    BY <2>1, LenIs
  <2> QED
    BY <2>2 DEF Longer
<1>2. ASSUME NEW a \in Authors, NEW i \in 1..Len(signed[a]) PROVE i \in 1..Len(signed'[a])
  <2>1. Len(signed[a]) \in Nat /\ Len(signed'[a]) \in Nat /\ Len(signed[a]) <= Len(signed'[a])
    BY <1>1
  <2> QED
    BY <2>1
<1>3. NetTypes /\ net' = net => NetTypes'
  BY <1>2 DEF NetTypes
<1>4. StoreTypes /\ UNCHANGED storeVars => StoreTypes'
  <2> SUFFICES ASSUME StoreTypes, UNCHANGED storeVars PROVE StoreTypes'
    OBVIOUS
  <2>2. ASSUME NEW n \in Nodes, NEW a \in Authors
        PROVE  mem[n][a] <= Len(signed'[a]) /\ row[n][a] <= Len(signed'[a])
    <3>1. mem[n][a] \in Nat /\ row[n][a] \in Nat /\ mem[n][a] <= Len(signed[a]) /\ row[n][a] <= Len(signed[a])
      BY DEF StoreTypes
    <3>2. Len(signed[a]) \in Nat /\ Len(signed'[a]) \in Nat /\ Len(signed[a]) <= Len(signed'[a])
      BY <1>1
    <3> QED
      BY <3>1, <3>2
  <2> QED
    BY <2>2 DEF StoreTypes, storeVars
<1>5. HandlingTypes /\ handling' = handling => HandlingTypes'
  BY <1>2 DEF HandlingTypes
<1>6. ASSUME NEW n \in Nodes, NEW t, NEW j, Fits(j, t, Len(signed[Key[n]]))
      PROVE  Fits(j, t, Len(signed'[Key[n]]))
  <2>1. Key[n] \in Authors
    BY DEF ProfilesAssumption
  <2> QED
    BY <1>2, <1>6, <2>1 DEF Fits
<1> QED
  BY <1>3, <1>4, <1>5, <1>6

-----------------------------------------------------------------------------
(* One goroutine's move.                                                    *)
Busy == {"sign", "persist", "upsert"}

LEMMA SetJobIs ==
    ASSUME JobTypes, NEW n \in Nodes, NEW t \in Threads, NEW j \in Jobs, SetJob(n, t, j)
    PROVE  /\ job' \in [Nodes -> [Threads -> Jobs]]
           /\ job'[n][t] = j
           /\ \A u \in Threads : u # t => job'[n][u] = job[n][u]
           /\ \A m \in Nodes : m # n => job'[m] = job[m]
<1>1. job \in [Nodes -> [Threads -> Jobs]] /\ job' = [job EXCEPT ![n][t] = j]
  BY DEF JobTypes, SetJob
<1> HIDE DEF Jobs, Threads
<1> QED
  BY <1>1

LEMMA JobMoved ==
    ASSUME ProfilesAssumption, JobTypes, NEW n \in Nodes, NEW t \in Threads, NEW j, SetJob(n, t, j),
           Fits(j, t, Len(signed'[Key[n]])),
           \A m \in Nodes : \A u, i : Fits(i, u, Len(signed[Key[m]])) => Fits(i, u, Len(signed'[Key[m]]))
    PROVE  JobTypes'
<1>1. j \in Jobs
  BY DEF Fits
<1>2. /\ job' \in [Nodes -> [Threads -> Jobs]]
      /\ job'[n][t] = j
      /\ \A u \in Threads : u # t => job'[n][u] = job[n][u]
      /\ \A m \in Nodes : m # n => job'[m] = job[m]
  BY <1>1, SetJobIs
<1>3. ASSUME NEW m \in Nodes, NEW u \in Threads PROVE Fits(job'[m][u], u, Len(signed'[Key[m]]))
  <2>1. CASE m = n /\ u = t
    BY <1>2, <2>1
  <2>2. CASE ~(m = n /\ u = t)
    <3>1. job'[m][u] = job[m][u] /\ Fits(job[m][u], u, Len(signed[Key[m]]))
      BY <1>2, <2>2 DEF JobTypes
    <3> QED
      BY <3>1
  <2> QED
    BY <2>1, <2>2
<1> QED
  BY <1>2, <1>3 DEF JobTypes

\* A step that touches nothing of a node's own profile.
LEMMA OwnSame ==
    ASSUME NEW n \in Nodes, OwnSound(n), wanted'[n] = wanted[n], mem'[n][Key[n]] = mem[n][Key[n]],
           row'[n][Key[n]] = row[n][Key[n]], job'[n] = job[n], form'[n] = form[n],
           signed'[Key[n]] = signed[Key[n]]
    PROVE  OwnSound(n)'
<1> SUFFICES ASSUME wanted[n] # Unsure PROVE OwnSound(n)'
  BY DEF OwnSound
<1>1. Own(n)' = Own(n) /\ Underway(n)' = Underway(n) /\ Upserting(n)' = Upserting(n)
  BY DEF Own, Underway, Upserting
<1>2. ASSUME NEW u \in Threads PROVE JobSound(n, u)'
  <2>1. JobSound(n, u) /\ job'[n][u] = job[n][u]
    BY DEF OwnSound
  <2> QED
    BY <1>1, <2>1 DEF JobSound, Says
<1> QED
  BY <1>1, <1>2 DEF OwnSound

\* A goroutine that is not at a publication stays so.
LEMMA OwnIdle ==
    ASSUME NEW n \in Nodes, NEW t \in Threads, OwnSound(n),
           wanted'[n] = wanted[n], mem'[n][Key[n]] = mem[n][Key[n]],
           row'[n][Key[n]] = row[n][Key[n]], form'[n] = form[n], signed'[Key[n]] = signed[Key[n]],
           \A u \in Threads : u # t => job'[n][u] = job[n][u],
           job[n][t].pc \notin Busy, job'[n][t].pc \notin Busy
    PROVE  OwnSound(n)'
<1> SUFFICES ASSUME wanted[n] # Unsure PROVE OwnSound(n)'
  BY DEF OwnSound
<1>1. Own(n)' = Own(n)
  BY DEF Own
<1>2. \A u \in Threads : job'[n][u].pc \in Busy => u # t /\ job'[n][u] = job[n][u]
  OBVIOUS
<1>3. Underway(n)' = Underway(n)
  BY <1>2 DEF Underway, Busy
<1>4. Upserting(n)' = Upserting(n)
  BY <1>2 DEF Upserting, Busy
<1>5. ASSUME NEW u \in Threads PROVE JobSound(n, u)'
  <2>1. CASE u = t
    BY <2>1 DEF JobSound, Busy
  <2>2. CASE u # t
    <3>1. JobSound(n, u) /\ job'[n][u] = job[n][u]
      BY <2>2 DEF OwnSound
    <3> QED
      BY <1>1, <3>1 DEF JobSound, Says
  <2> QED
    BY <2>1, <2>2
<1> QED
  BY <1>1, <1>3, <1>4, <1>5 DEF OwnSound

\* The only publication under way is at its next step.
LEMMA OwnMoved ==
    ASSUME NEW n \in Nodes, NEW t \in Threads, Own(n)' = wanted'[n],
           \A u \in Threads : u # t => job'[n][u].pc \notin Busy,
           form'[n] # NoForm => form'[n] = Own(n)'.text /\ (t \in Savers => job'[n][t].pc \notin Busy),
           job'[n][t].pc # "upsert" => row'[n][Key[n]] = mem'[n][Key[n]],
           JobSound(n, t)'
    PROVE  OwnSound(n)'
<1>1. \A u \in Underway(n)' : u = t
  BY DEF Underway, Busy
<1>2. ~Upserting(n)' => job'[n][t].pc # "upsert"
  BY DEF Upserting
<1>3. \A u \in Threads : JobSound(n, u)'
  BY DEF JobSound, Busy
<1>4. form'[n] # NoForm => Savers \cap Underway(n)' = {}
  BY <1>1 DEF Underway, Busy
<1> QED
  BY <1>1, <1>2, <1>3, <1>4 DEF OwnSound

\* A publication begins, from the profile as it is stored, or counts no more.
LEMMA OwnBegins ==
    ASSUME NEW n \in Nodes, NEW t \in Threads, OwnSound(n),
           wanted'[n] = (IF Overlap(n) THEN Unsure ELSE wanted[n]),
           mem'[n][Key[n]] = mem[n][Key[n]], row'[n][Key[n]] = row[n][Key[n]], signed'[Key[n]] = signed[Key[n]],
           form'[n] # NoForm => form'[n] = form[n] /\ t \notin Savers,
           \A u \in Threads : u # t => job'[n][u] = job[n][u],
           job'[n][t].pc = "sign",
           wanted[n] # Unsure =>
             \A c : c = [text |-> job'[n][t].text, github |-> job'[n][t].github] => Says(n, t, c)'
    PROVE  OwnSound(n)'
<1> SUFFICES ASSUME wanted'[n] # Unsure PROVE OwnSound(n)'
  BY DEF OwnSound
<1>1. wanted'[n] = wanted[n] /\ Underway(n) = {} /\ wanted[n] # Unsure
  BY DEF Overlap
<1>2. \A u \in Threads : job[n][u].pc \notin Busy
  BY <1>1 DEF Underway, Busy
<1>3. Own(n)' = Own(n)
  BY DEF Own
<1>4. Own(n) = wanted[n] /\ (form[n] # NoForm => form[n] = Own(n).text)
  BY <1>1 DEF OwnSound
<1>5. row[n][Key[n]] = mem[n][Key[n]]
  BY <1>1, <1>2 DEF OwnSound, Upserting, Busy
<1>6. JobSound(n, t)'
  <2> DEFINE c == [text |-> job'[n][t].text, github |-> job'[n][t].github]
  <2>1. \A d : d = c => Says(n, t, d)'
    BY <1>1
  <2>2. JobSound(n, t)' <=> /\ job'[n][t].pc = "sign" => Says(n, t, [text |-> job[n][t].text, github |-> job[n][t].github])'
                            /\ job'[n][t].pc = "persist" => job'[n][t].at > mem'[n][Key[n]] /\ Says(n, t, signed[Key[n]][job[n][t].at])'
                            /\ job'[n][t].pc = "upsert" => job'[n][t].at = mem'[n][Key[n]]
    BY DEF JobSound
  <2> QED
    BY <2>1, <2>2 DEF Says
<1> QED
  BY <1>1, <1>2, <1>3, <1>4, <1>5, <1>6, OwnMoved

-----------------------------------------------------------------------------
(* The steps.                                                               *)
LEMMA ProfileInitially == ASSUME ProfilesAssumption, ProfileInit PROVE ProfileInv
<1>1. /\ MaxNew \in Nat \ {0} /\ MaxSigned \in Nat \ {0}
      /\ NoText \in [Fields -> Texts] /\ Blank \in Contents
      /\ NoJob \in Jobs /\ NoJob.pc = "idle"
      /\ AtRest \in Deliveries /\ AtRest.pc = "idle"
  BY ProfileNumbers
<1>2. /\ signed = [a \in Authors |-> <<>>] /\ net = {}
      /\ mem = [n \in Nodes |-> [a \in Authors |-> 0]] /\ row = mem
      /\ recent = [n \in Nodes |-> {}] /\ newcomers = [n \in Nodes |-> 0]
      /\ handling = [n \in Nodes |-> AtRest]
      /\ job = [n \in Nodes |-> AtStart]
      /\ form = [n \in Nodes |-> NoForm] /\ linking = [n \in Nodes |-> FALSE]
      /\ wanted = [n \in Nodes |-> Blank]
  BY DEF ProfileInit
<1>3. SignedTypes /\ \A a \in Authors : Len(signed[a]) = 0
  <2>1. \A a \in Authors : signed[a] = <<>> /\ Len(signed[a]) = 0 /\ DOMAIN signed[a] = {}
    BY <1>2
  <2>2. Published = {}
    BY <2>1 DEF Published
  <2>3. IsFiniteSet(Published) /\ Cardinality(Published) = 0
    BY <2>2, FS_EmptySet
  <2>4. <<>> \in Seq(Contents)
    OBVIOUS
  <2> HIDE DEF Contents, Published
  <2>5. signed \in [Authors -> Seq(Contents)]
    BY <1>2, <2>4
  <2> QED
    BY <1>1, <2>1, <2>3, <2>5 DEF SignedTypes
<1>4. NetTypes /\ HandlingTypes
  BY <1>1, <1>2 DEF NetTypes, HandlingTypes
<1>5. StoreTypes
  BY <1>1, <1>2, <1>3 DEF StoreTypes
<1>6. \A t \in Threads : AtStart[t] \in Jobs /\ AtStart[t].pc \in {"wait", "idle"}
  BY <1>1 DEF AtStart, Jobs
<1>7. AtStart \in [Threads -> Jobs]
  BY <1>6 DEF AtStart
<1>8. JobTypes
  BY <1>2, <1>6, <1>7 DEF JobTypes, Fits
<1>9. UserTypes
  BY <1>1, <1>2 DEF UserTypes
<1>10. ASSUME NEW n \in Nodes PROVE OwnSound(n)
  <2>0. Key[n] \in Authors
    BY DEF ProfilesAssumption
  <2>1. Own(n) = Blank /\ wanted[n] = Blank /\ form[n] = NoForm /\ row[n][Key[n]] = mem[n][Key[n]]
    BY <1>2, <2>0 DEF Own
  <2>2. \A t \in Threads : job[n][t].pc \notin Busy
    BY <1>2, <1>6 DEF Busy
  <2> QED
    BY <2>1, <2>2 DEF OwnSound, JobSound, Busy, Underway
<1> QED
  BY <1>3, <1>4, <1>5, <1>8, <1>9, <1>10 DEF ProfileInv, ProfileTypes

LEMMA DeliverInv ==
    ASSUME ProfilesAssumption, ProfileInv, NEW n \in Nodes, NEW m \in net, Deliver(n, m)
    PROVE  ProfileInv'
<1>1. /\ m.author # Key[n] /\ handling' = [handling EXCEPT ![n] = [pc |-> "handle", author |-> m.author, at |-> m.at]]
      /\ UNCHANGED <<signed, net, storeVars, job, userVars>>
  BY DEF Deliver
<1>2. ProfileTypes /\ \A k \in Nodes : OwnSound(k)
  BY DEF ProfileInv
<1>3. m.author \in Authors /\ m.at \in 1..Len(signed[m.author]) /\ m.at \in Nat
  BY <1>2 DEF ProfileTypes, NetTypes
<1>4. HandlingTypes'
  BY <1>1, <1>2, <1>3 DEF ProfileTypes, HandlingTypes, Deliveries
<1>5. ProfileTypes'
  BY <1>1, <1>2, <1>4 DEF ProfileTypes, SignedTypes, NetTypes, StoreTypes, JobTypes, UserTypes, Fits, Published,
     storeVars, userVars
<1>6. \A k \in Nodes : OwnSound(k)'
  BY <1>1, <1>2, OwnSame DEF storeVars, userVars
<1> QED
  BY <1>5, <1>6 DEF ProfileInv

LEMMA HandleInv ==
    ASSUME ProfilesAssumption, ProfileInv, NEW n \in Nodes, Handle(n)
    PROVE  ProfileInv'
<1> DEFINE a == handling[n].author
<1>1. /\ handling[n].pc = "handle"
      /\ \/ /\ handling' = [handling EXCEPT ![n] = AtRest]
            /\ UNCHANGED <<recent, newcomers>>
         \/ /\ ~Refused(n)
            /\ handling' = [handling EXCEPT ![n].pc = "persist"]
            /\ recent' = [recent EXCEPT ![n] = @ \cup {a}]
            /\ newcomers' = [newcomers EXCEPT ![n] = IF a \in Known(n) THEN @ ELSE @ + 1]
      /\ UNCHANGED <<signed, net, mem, row, job, userVars>>
  BY DEF Handle
<1>2. ProfileTypes /\ \A k \in Nodes : OwnSound(k)
  BY DEF ProfileInv
<1>3. a \in Authors
  BY <1>1, <1>2 DEF ProfileTypes, HandlingTypes
<1>4. HandlingTypes'
  <2>1. handling[n] \in Deliveries /\ [handling[n] EXCEPT !.pc = "persist"] \in Deliveries
    BY <1>2 DEF ProfileTypes, HandlingTypes, Deliveries
  <2>2. CASE handling' = [handling EXCEPT ![n] = AtRest]
    BY <1>1, <1>2, <2>2, ProfileNumbers DEF ProfileTypes, HandlingTypes
  <2>3. CASE handling' = [handling EXCEPT ![n].pc = "persist"]
    BY <1>1, <1>2, <2>1, <2>3 DEF ProfileTypes, HandlingTypes
  <2> QED
    BY <1>1, <2>2, <2>3
<1>5. recent' \in [Nodes -> SUBSET Authors] /\ newcomers' \in [Nodes -> 0..MaxNew]
  <2>1. recent \in [Nodes -> SUBSET Authors] /\ newcomers \in [Nodes -> 0..MaxNew] /\ MaxNew \in Nat
    BY <1>2, ProfileNumbers DEF ProfileTypes, StoreTypes
  <2>2. ~Refused(n) /\ a \notin Known(n) => newcomers[n] + 1 \in 0..MaxNew
    BY <2>1 DEF Refused
  <2> QED
    BY <1>1, <1>3, <2>1, <2>2
<1>6. StoreTypes'
  BY <1>1, <1>2, <1>5 DEF ProfileTypes, StoreTypes
<1>7. ProfileTypes'
  BY <1>1, <1>2, <1>4, <1>6 DEF ProfileTypes, SignedTypes, NetTypes, JobTypes, UserTypes, Fits, Published, userVars
<1>8. \A k \in Nodes : OwnSound(k)'
  BY <1>1, <1>2, OwnSame DEF userVars
<1> QED
  BY <1>7, <1>8 DEF ProfileInv

LEMMA PersistReceivedInv ==
    ASSUME ProfilesAssumption, ProfileInv, NEW n \in Nodes, PersistReceived(n)
    PROVE  ProfileInv'
<1> DEFINE a == handling[n].author
           i == handling[n].at
<1>1. /\ handling[n].pc = "persist"
      /\ mem' = [mem EXCEPT ![n][a] = IF i > @ THEN i ELSE @]
      /\ handling' = [handling EXCEPT ![n] = IF i > mem[n][a] THEN [handling[n] EXCEPT !.pc = "upsert"] ELSE AtRest]
      /\ UNCHANGED <<signed, net, row, recent, newcomers, job, userVars>>
  BY DEF PersistReceived, Newest
<1>2. ProfileTypes /\ \A k \in Nodes : OwnSound(k)
  BY DEF ProfileInv
<1>3. a \in Authors /\ a # Key[n] /\ i \in 1..Len(signed[a]) /\ i \in Nat /\ i <= Len(signed[a])
  BY <1>1, <1>2 DEF ProfileTypes, HandlingTypes
<1>4. HandlingTypes'
  <2>1. handling[n] \in Deliveries /\ [handling[n] EXCEPT !.pc = "upsert"] \in Deliveries
    BY <1>2 DEF ProfileTypes, HandlingTypes, Deliveries
  <2> QED
    BY <1>1, <1>2, <1>3, <2>1, ProfileNumbers DEF ProfileTypes, HandlingTypes, Deliveries
<1>5. /\ mem' \in [Nodes -> [Authors -> Nat]]
      /\ \A k \in Nodes, b \in Authors : mem'[k][b] = IF k = n /\ b = a /\ i > mem[n][a] THEN i ELSE mem[k][b]
  <2> HIDE DEF a, i
  <2> QED
    BY <1>1, <1>2, <1>3 DEF ProfileTypes, StoreTypes
<1>6. StoreTypes'
  BY <1>1, <1>2, <1>3, <1>5 DEF ProfileTypes, StoreTypes
<1>7. ProfileTypes'
  BY <1>1, <1>2, <1>4, <1>6 DEF ProfileTypes, SignedTypes, NetTypes, JobTypes, UserTypes, Fits, Published, userVars
<1>8. \A k \in Nodes : Key[k] \in Authors /\ mem'[k][Key[k]] = mem[k][Key[k]]
  BY <1>3, <1>5 DEF ProfilesAssumption
<1>9. \A k \in Nodes : OwnSound(k)'
  BY <1>1, <1>2, <1>8, OwnSame DEF userVars
<1> QED
  BY <1>7, <1>9 DEF ProfileInv

LEMMA UpsertReceivedInv ==
    ASSUME ProfilesAssumption, ProfileInv, NEW n \in Nodes, UpsertReceived(n)
    PROVE  ProfileInv'
<1> DEFINE a == handling[n].author
           i == handling[n].at
<1>1. /\ handling[n].pc = "upsert"
      /\ row' = [row EXCEPT ![n][a] = i]
      /\ handling' = [handling EXCEPT ![n] = AtRest]
      /\ UNCHANGED <<signed, net, mem, recent, newcomers, job, userVars>>
  BY DEF UpsertReceived
<1>2. ProfileTypes /\ \A k \in Nodes : OwnSound(k)
  BY DEF ProfileInv
<1>3. a \in Authors /\ a # Key[n] /\ i \in 1..Len(signed[a]) /\ i \in Nat /\ i <= Len(signed[a])
  BY <1>1, <1>2 DEF ProfileTypes, HandlingTypes
<1>4. HandlingTypes'
  BY <1>1, <1>2, ProfileNumbers DEF ProfileTypes, HandlingTypes
<1>5. /\ row' \in [Nodes -> [Authors -> Nat]]
      /\ \A k \in Nodes, b \in Authors : row'[k][b] = IF k = n /\ b = a THEN i ELSE row[k][b]
  <2> HIDE DEF a, i
  <2> QED
    BY <1>1, <1>2, <1>3 DEF ProfileTypes, StoreTypes
<1>6. StoreTypes'
  BY <1>1, <1>2, <1>3, <1>5 DEF ProfileTypes, StoreTypes
<1>7. ProfileTypes'
  BY <1>1, <1>2, <1>4, <1>6 DEF ProfileTypes, SignedTypes, NetTypes, JobTypes, UserTypes, Fits, Published, userVars
<1>8. \A k \in Nodes : Key[k] \in Authors /\ row'[k][Key[k]] = row[k][Key[k]]
  BY <1>3, <1>5 DEF ProfilesAssumption
<1>9. \A k \in Nodes : OwnSound(k)'
  BY <1>1, <1>2, <1>8, OwnSame DEF userVars
<1> QED
  BY <1>7, <1>9 DEF ProfileInv

LEMMA TimePassesInv ==
    ASSUME ProfilesAssumption, ProfileInv, NEW n \in Nodes, TimePasses(n)
    PROVE  ProfileInv'
<1>1. /\ recent' = [recent EXCEPT ![n] = {}]
      /\ newcomers' \in {newcomers, [newcomers EXCEPT ![n] = 0]}
      /\ UNCHANGED <<signed, net, mem, row, handling, job, userVars>>
  BY DEF TimePasses
<1>2. ProfileTypes /\ \A k \in Nodes : OwnSound(k)
  BY DEF ProfileInv
<1>3. recent' \in [Nodes -> SUBSET Authors] /\ newcomers' \in [Nodes -> 0..MaxNew]
  <2>1. recent \in [Nodes -> SUBSET Authors] /\ newcomers \in [Nodes -> 0..MaxNew] /\ 0 \in 0..MaxNew
    BY <1>2, ProfileNumbers DEF ProfileTypes, StoreTypes
  <2> QED
    BY <1>1, <2>1
<1>4. StoreTypes'
  BY <1>1, <1>2, <1>3 DEF ProfileTypes, StoreTypes
<1>5. ProfileTypes'
  BY <1>1, <1>2, <1>4 DEF ProfileTypes, SignedTypes, NetTypes, HandlingTypes, JobTypes, UserTypes, Fits, Published, userVars
<1>6. \A k \in Nodes : OwnSound(k)'
  BY <1>1, <1>2, OwnSame DEF userVars
<1> QED
  BY <1>5, <1>6 DEF ProfileInv

\* The steps of a node's own publications.
LEMMA UserStep ==
    ASSUME ProfileTypes, UNCHANGED <<signed, net, storeVars, handling>>, JobTypes', UserTypes'
    PROVE  ProfileTypes'
  BY DEF ProfileTypes, SignedTypes, NetTypes, StoreTypes, HandlingTypes, Published, storeVars

LEMMA JobStep ==
    ASSUME ProfilesAssumption, JobTypes, signed' = signed, NEW n \in Nodes, NEW t \in Threads, NEW j,
           SetJob(n, t, j), Fits(j, t, Len(signed[Key[n]]))
    PROVE  /\ JobTypes'
           /\ job'[n][t] = j
           /\ \A u \in Threads : u # t => job'[n][u] = job[n][u]
           /\ \A m \in Nodes : m # n => job'[m] = job[m]
<1>1. j \in Jobs
  BY DEF Fits
<1>2. JobTypes'
  BY JobMoved
<1> QED
  BY <1>1, <1>2, SetJobIs

LEMMA NoJobFits == ASSUME ProfilesAssumption, NEW t, NEW k PROVE Fits(NoJob, t, k)
  BY ProfileNumbers DEF Fits

LEMMA SpoilIs ==
    ASSUME UserTypes, NEW n \in Nodes, NEW what, Spoil(n, what)
    PROVE  /\ wanted' \in [Nodes -> Contents \cup {Unsure}]
           /\ wanted'[n] = IF what THEN Unsure ELSE wanted[n]
           /\ \A m \in Nodes : m # n => wanted'[m] = wanted[m]
<1>1. wanted \in [Nodes -> Contents \cup {Unsure}] /\ wanted' = [wanted EXCEPT ![n] = IF what THEN Unsure ELSE @]
  BY DEF UserTypes, Spoil
<1> HIDE DEF Contents, Unsure
<1> QED
  BY <1>1

LEMMA SignInv ==
    ASSUME ProfilesAssumption, ProfileInv, NEW n \in Nodes, NEW t \in Threads, Sign(n, t)
    PROVE  ProfileInv'
<1> DEFINE j == job[n][t]
           c == [text |-> j.text, github |-> j.github]
           k == Len(signed[Key[n]]) + 1
           d == [NoJob EXCEPT !.pc = "persist", !.at = k, !.edit = j.edit]
<1>1. /\ j.pc = "sign"
      /\ \/ SetJob(n, t, NoJob) /\ UNCHANGED signed
         \/ /\ MoreToSign
            /\ signed' = [signed EXCEPT ![Key[n]] = Append(@, c)]
            /\ SetJob(n, t, d)
      /\ UNCHANGED <<net, storeVars, handling, userVars>>
  BY DEF Sign
<1>2. ProfileTypes /\ \A m \in Nodes : OwnSound(m)
  BY DEF ProfileInv
<1>3. /\ JobTypes /\ UserTypes /\ UserTypes' /\ Fits(j, t, Len(signed[Key[n]]))
  BY <1>1, <1>2 DEF ProfileTypes, JobTypes, UserTypes, userVars
<1>4. CASE SetJob(n, t, NoJob) /\ UNCHANGED signed
  <2>1. /\ JobTypes' /\ job'[n][t] = NoJob
        /\ \A u \in Threads : u # t => job'[n][u] = job[n][u]
        /\ \A m \in Nodes : m # n => job'[m] = job[m]
    BY <1>3, <1>4, JobStep, NoJobFits
  <2>2. ProfileTypes'
    BY <1>1, <1>2, <1>3, <1>4, <2>1, UserStep
  <2>3. OwnSound(n)'
    <3> SUFFICES ASSUME wanted[n] # Unsure PROVE OwnSound(n)'
      BY <1>1 DEF OwnSound, userVars
    <3>1. \A u \in Threads : u # t => job[n][u].pc \notin Busy
      BY <1>1, <1>2 DEF OwnSound, Underway, Busy
    <3>2. ~Upserting(n) /\ Own(n)' = Own(n)
      BY <1>1, <1>4, <3>1 DEF Upserting, Busy, Own, storeVars
    <3>3. NoJob.pc = "idle" /\ JobSound(n, t)'
      BY <2>1, ProfileNumbers DEF JobSound
    <3>4. Own(n) = wanted[n] /\ row[n][Key[n]] = mem[n][Key[n]] /\ (form[n] # NoForm => form[n] = Own(n).text)
      BY <1>2, <3>2 DEF OwnSound
    <3> QED
      BY <1>1, <2>1, <3>1, <3>2, <3>3, <3>4, OwnMoved DEF storeVars, userVars, Busy
  <2>4. \A m \in Nodes : m # n => OwnSound(m)'
    BY <1>1, <1>2, <1>4, <2>1, OwnSame DEF storeVars, userVars
  <2> QED
    BY <2>2, <2>3, <2>4 DEF ProfileInv
<1>5. CASE MoreToSign /\ signed' = [signed EXCEPT ![Key[n]] = Append(@, c)] /\ SetJob(n, t, d)
  <2>0. Key[n] \in Authors /\ c \in Contents
    BY <1>3 DEF ProfilesAssumption, Fits, Jobs, Contents
  <2>1. /\ SignedTypes' /\ Longer
        /\ Len(signed'[Key[n]]) = k /\ signed'[Key[n]][k] = c
        /\ \A b \in Authors : b # Key[n] => signed'[b] = signed[b]
    <3> HIDE DEF c
    <3> QED
      BY <1>2, <1>5, <2>0, Appended DEF ProfileTypes
  <2>2. /\ NetTypes' /\ StoreTypes' /\ HandlingTypes'
        /\ \A m \in Nodes : \A u, i : Fits(i, u, Len(signed[Key[m]])) => Fits(i, u, Len(signed'[Key[m]]))
    BY <1>1, <1>2, <2>1, StillTyped DEF ProfileTypes
  <2>3. Len(signed[Key[n]]) \in Nat /\ k \in Nat /\ k \in 1..k
    <3>1. signed \in [Authors -> Seq(Contents)]
      BY <1>2 DEF ProfileTypes, SignedTypes
    <3>2. Len(signed[Key[n]]) \in Nat
      BY <2>0, <3>1, LenIs
    <3> QED
      BY <3>2
  <2>4. /\ d \in Jobs /\ d.pc = "persist" /\ d.at = k /\ d.edit = j.edit
    <3>1. NoJob \in Jobs /\ j.edit \in Fields \cup {"none"}
      BY <1>3, ProfileNumbers DEF Fits, Jobs
    <3> HIDE DEF j, k
    <3>2. d.pc = "persist" /\ d.at = k /\ d.edit = j.edit
      BY DEF NoJob
    <3>3. d \in Jobs
      BY <2>3, <3>1 DEF Jobs
    <3> HIDE DEF d
    <3> QED
      BY <3>2, <3>3
  <2>5. Fits(d, t, Len(signed'[Key[n]]))
    <3>1. t \in Savers => j.edit \in Fields
      BY <1>1, <1>3 DEF Fits
    <3> HIDE DEF d, j, k
    <3> QED
      BY <2>1, <2>3, <2>4, <3>1 DEF Fits
  <2>6. /\ JobTypes' /\ job'[n][t] = d
        /\ \A u \in Threads : u # t => job'[n][u] = job[n][u]
        /\ \A m \in Nodes : m # n => job'[m] = job[m]
    <3> HIDE DEF d
    <3>1. JobTypes'
      BY <1>3, <1>5, <2>2, <2>5, JobMoved
    <3> QED
      BY <1>3, <1>5, <2>4, <3>1, SetJobIs
  <2>7. ProfileTypes'
    BY <1>3, <2>1, <2>2, <2>6 DEF ProfileTypes
  <2>8. OwnSound(n)'
    <3> SUFFICES ASSUME wanted[n] # Unsure PROVE OwnSound(n)'
      BY <1>1 DEF OwnSound, userVars
    <3>1. \A u \in Threads : u # t => job[n][u].pc \notin Busy
      BY <1>1, <1>2 DEF OwnSound, Underway, Busy
    <3>2. /\ mem[n][Key[n]] \in Nat /\ mem[n][Key[n]] <= Len(signed[Key[n]])
      BY <1>2, <2>0 DEF ProfileTypes, StoreTypes
    <3>3. Own(n)' = Own(n)
      <4>1. mem[n][Key[n]] # 0 => mem[n][Key[n]] \in 1..Len(signed[Key[n]])
        BY <2>3, <3>2
      <4>2. mem[n][Key[n]] # 0 => signed'[Key[n]][mem[n][Key[n]]] = signed[Key[n]][mem[n][Key[n]]]
        BY <2>0, <2>1, <4>1 DEF Longer
      <4> QED
        BY <1>1, <4>2 DEF Own, storeVars
    <3>4. ~Upserting(n)
      BY <1>1, <3>1 DEF Upserting, Busy
    <3>5. /\ Own(n) = wanted[n] /\ row[n][Key[n]] = mem[n][Key[n]]
          /\ form[n] # NoForm => form[n] = Own(n).text /\ Savers \cap Underway(n) = {}
          /\ Says(n, t, c)
      BY <1>1, <1>2, <3>4 DEF OwnSound, JobSound
    <3>6. JobSound(n, t)'
      <4> PICK e : e = c
        OBVIOUS
      <4>1. Says(n, t, e)'
        <5>1. Says(n, t, e)
          BY <3>5
        <5>2. job'[n][t].edit = job[n][t].edit
          BY <2>4, <2>6
        <5> HIDE DEF c, d, j
        <5> QED
          BY <3>3, <5>1, <5>2 DEF Says
      <4>2. k > mem'[n][Key[n]]
        BY <1>1, <2>3, <3>2 DEF storeVars
      <4>3. job'[n][t].pc = "persist" /\ job'[n][t].at = k
        BY <2>4, <2>6
      <4>4. Says(n, t, signed[Key[n]][job[n][t].at])'
        <5> HIDE DEF c, d, k
        <5>1. signed'[Key[n]][job'[n][t].at] = e
          BY <2>1, <4>3
        <5> QED
          BY <4>1, <5>1 DEF Says
      <4> HIDE DEF c, d, k
      <4> QED
        BY <4>2, <4>3, <4>4 DEF JobSound
    <3>7. form[n] # NoForm => t \notin Savers
      BY <1>1, <3>5 DEF Underway
    <3> HIDE DEF c, d, k
    <3>8. /\ wanted'[n] = wanted[n] /\ form'[n] = form[n] /\ row'[n][Key[n]] = mem'[n][Key[n]]
      BY <1>1, <3>5 DEF storeVars, userVars
    <3>9. \A u \in Threads : u # t => job'[n][u].pc \notin Busy
      BY <2>6, <3>1
    <3> QED
      BY <3>3, <3>5, <3>6, <3>7, <3>8, <3>9, OwnMoved
  <2>9. ASSUME NEW m \in Nodes, m # n PROVE OwnSound(m)'
    <3>1. Key[m] \in Authors /\ Key[m] # Key[n]
      BY <2>9 DEF ProfilesAssumption
    <3> HIDE DEF c, d, k
    <3> QED
      BY <1>1, <1>2, <2>1, <2>6, <2>9, <3>1, OwnSame DEF storeVars, userVars
  <2> QED
    BY <2>7, <2>8, <2>9 DEF ProfileInv
<1> QED
  BY <1>1, <1>4, <1>5

\* What the user is told is published, when the stored profile is replaced.
LEMMA ToldIs ==
    ASSUME ProfilesAssumption, UserTypes, NEW n \in Nodes, NEW t \in Threads, NEW new \in Contents,
           NEW e, t \in Savers => e \in Fields
    PROVE  /\ Told(n, t, new, e) \in Contents \cup {Unsure}
           /\ Told(n, t, new, e) # Unsure =>
                /\ wanted[n] # Unsure
                /\ t \in Savers /\ new.github = wanted[n].github
                     /\ (\A f \in Fields : f # e => new.text[f] = wanted[n].text[f]) => Told(n, t, new, e) = new
                /\ t = "link" /\ new.text = wanted[n].text => Told(n, t, new, e) = new
                /\ t = "start" => Told(n, t, new, e) = wanted[n]
<1> DEFINE w == Told(n, t, new, e)
<1>1. wanted[n] \in Contents \cup {Unsure} /\ "start" \notin Savers /\ "link" \notin Savers
  BY DEF UserTypes, ProfilesAssumption
<1>2. CASE wanted[n] = Unsure
  BY <1>2 DEF Told
<1>3. CASE wanted[n] # Unsure /\ t \in Savers
  <2> DEFINE old == wanted[n]
             x == [old.text EXCEPT ![e] = new.text[e]]
  <2>1. w = [old EXCEPT !.text[e] = new.text[e]]
    BY <1>1, <1>3 DEF Told
  <2>2. old \in Contents /\ e \in Fields
    BY <1>1, <1>3
  <2> HIDE DEF old
  <2>3. /\ old.text \in [Fields -> Texts] /\ new.text \in [Fields -> Texts]
        /\ old.github \in Names \cup {Empty} /\ new.github \in Names \cup {Empty}
        /\ old = [text |-> old.text, github |-> old.github]
        /\ new = [text |-> new.text, github |-> new.github]
    BY <2>2 DEF Contents
  <2>4. w = [text |-> x, github |-> old.github]
    BY <2>1, <2>3
  <2>5. x \in [Fields -> Texts]
    BY <2>2, <2>3
  <2>6. ASSUME \A f \in Fields : f # e => new.text[f] = old.text[f] PROVE x = new.text
    BY <2>2, <2>3, <2>6
  <2> HIDE DEF x
  <2>7. w \in Contents
    BY <2>3, <2>4, <2>5 DEF Contents
  <2>8. ASSUME new.github = old.github, \A f \in Fields : f # e => new.text[f] = old.text[f] PROVE w = new
    BY <2>3, <2>4, <2>6, <2>8
  <2> QED
    BY <1>1, <1>3, <2>7, <2>8 DEF old
<1>4. CASE wanted[n] # Unsure /\ t = "link"
  <2>1. w = IF linking[n] THEN [wanted[n] EXCEPT !.github = new.github] ELSE Unsure
    BY <1>1, <1>4 DEF Told
  <2>2. wanted[n] \in Contents
    BY <1>1, <1>4
  <2>3. [wanted[n] EXCEPT !.github = new.github] = [text |-> wanted[n].text, github |-> new.github]
    BY <2>2 DEF Contents
  <2>4. new = [text |-> new.text, github |-> new.github]
    BY DEF Contents
  <2>5. [text |-> wanted[n].text, github |-> new.github] \in Contents
    BY <2>2 DEF Contents
  <2> QED
    BY <1>1, <1>4, <2>1, <2>3, <2>4, <2>5
<1>5. CASE wanted[n] # Unsure /\ t = "start"
  BY <1>1, <1>5 DEF Told
<1> QED
  BY <1>2, <1>3, <1>4, <1>5 DEF Threads

LEMMA PersistInv ==
    ASSUME ProfilesAssumption, ProfileInv, NEW n \in Nodes, NEW t \in Threads, Persist(n, t)
    PROVE  ProfileInv'
<1> DEFINE j == job[n][t]
           a == Key[n]
           new == signed[a][j.at]
           d == [j EXCEPT !.pc = IF j.at > mem[n][a] THEN "upsert" ELSE "announce"]
           w == Told(n, t, new, j.edit)
<1>1. /\ j.pc = "persist"
      /\ mem' = [mem EXCEPT ![n][a] = IF j.at > @ THEN j.at ELSE @]
      /\ SetJob(n, t, d) /\ wanted' = [wanted EXCEPT ![n] = w]
      /\ UNCHANGED <<signed, net, row, recent, newcomers, handling, form, linking>>
  BY DEF Persist, Newest
<1>2. ProfileTypes /\ \A m \in Nodes : OwnSound(m)
  BY DEF ProfileInv
<1>3. a \in Authors /\ JobTypes /\ UserTypes /\ Fits(j, t, Len(signed[a]))
  BY <1>2 DEF ProfileTypes, JobTypes, ProfilesAssumption
<1>4. /\ signed[a] \in Seq(Contents) /\ Len(signed[a]) \in Nat
      /\ j \in Jobs /\ j.at \in 1..Len(signed[a]) /\ j.at \in Nat /\ j.at # 0 /\ j.at <= Len(signed[a])
      /\ t \in Savers => j.edit \in Fields
      /\ mem[n][a] \in Nat
  <2>1. signed \in [Authors -> Seq(Contents)] /\ mem[n][a] \in Nat
    BY <1>2, <1>3 DEF ProfileTypes, SignedTypes, StoreTypes
  <2>2. signed[a] \in Seq(Contents) /\ Len(signed[a]) \in Nat
    BY <1>3, <2>1, LenIs
  <2>3. /\ j \in Jobs /\ j.at \in 1..Len(signed[a]) /\ (t \in Savers => j.edit \in Fields)
    BY <1>1, <1>3 DEF Fits
  <2> QED
    BY <2>1, <2>2, <2>3
<1>5. new \in Contents
  <2> HIDE DEF j, Contents
  <2> QED
    BY <1>4, ElementOfSeq
<1>6. /\ d \in Jobs /\ d.at = j.at /\ d.edit = j.edit
      /\ d.pc = IF j.at > mem[n][a] THEN "upsert" ELSE "announce"
  <2>1. j \in Jobs
    BY <1>4
  <2> HIDE DEF j
  <2> QED
    BY <2>1 DEF Jobs
<1>7. Fits(d, t, Len(signed[a]))
  <2> HIDE DEF d, j
  <2> QED
    BY <1>4, <1>6 DEF Fits
<1>8. /\ JobTypes' /\ job'[n][t] = d
      /\ \A u \in Threads : u # t => job'[n][u] = job[n][u]
      /\ \A m \in Nodes : m # n => job'[m] = job[m]
  <2> HIDE DEF d, j
  <2> QED
    BY <1>1, <1>3, <1>7, JobStep
<1>9. /\ w \in Contents \cup {Unsure}
      /\ w # Unsure =>
           /\ wanted[n] # Unsure
           /\ t \in Savers /\ new.github = wanted[n].github
                /\ (\A f \in Fields : f # j.edit => new.text[f] = wanted[n].text[f]) => w = new
           /\ t = "link" /\ new.text = wanted[n].text => w = new
           /\ t = "start" => w = wanted[n]
  <2> DEFINE e == j.edit
  <2>1. w = Told(n, t, new, e) /\ (t \in Savers => e \in Fields)
    BY <1>4
  <2> HIDE DEF e, new
  <2>2. /\ Told(n, t, new, e) \in Contents \cup {Unsure}
        /\ Told(n, t, new, e) # Unsure =>
             /\ wanted[n] # Unsure
             /\ t \in Savers /\ new.github = wanted[n].github
                  /\ (\A f \in Fields : f # e => new.text[f] = wanted[n].text[f]) => Told(n, t, new, e) = new
             /\ t = "link" /\ new.text = wanted[n].text => Told(n, t, new, e) = new
             /\ t = "start" => Told(n, t, new, e) = wanted[n]
    BY <1>3, <1>5, <2>1, ToldIs
  <2> HIDE DEF w
  <2> QED
    BY <2>1, <2>2 DEF e
<1> HIDE DEF w, d
<1>10. /\ wanted' \in [Nodes -> Contents \cup {Unsure}] /\ wanted'[n] = w
       /\ \A m \in Nodes : m # n => wanted'[m] = wanted[m]
  <2>1. wanted \in [Nodes -> Contents \cup {Unsure}]
    BY <1>3 DEF UserTypes
  <2> HIDE DEF Contents
  <2> QED
    BY <1>1, <1>9, <2>1
<1>11. UserTypes'
  BY <1>1, <1>3, <1>10 DEF UserTypes
<1>12. /\ mem' \in [Nodes -> [Authors -> Nat]]
       /\ \A k \in Nodes, b \in Authors :
            mem'[k][b] = IF k = n /\ b = a /\ j.at > mem[n][a] THEN j.at ELSE mem[k][b]
  <2>1. mem \in [Nodes -> [Authors -> Nat]]
    BY <1>2 DEF ProfileTypes, StoreTypes
  <2> DEFINE x == j.at
  <2>2. x \in Nat /\ mem' = [mem EXCEPT ![n][a] = IF x > @ THEN x ELSE @]
    BY <1>1, <1>4
  <2> HIDE DEF x
  <2>3. /\ mem' \in [Nodes -> [Authors -> Nat]]
        /\ \A k \in Nodes, b \in Authors :
             mem'[k][b] = IF k = n /\ b = a /\ x > mem[n][a] THEN x ELSE mem[k][b]
    BY <1>3, <2>1, <2>2
  <2> QED
    BY <2>3 DEF x
<1>13. StoreTypes'
  <2> HIDE DEF j
  <2> QED
    BY <1>1, <1>2, <1>4, <1>12 DEF ProfileTypes, StoreTypes
<1>14. ProfileTypes'
  BY <1>1, <1>2, <1>8, <1>11, <1>13 DEF ProfileTypes, SignedTypes, NetTypes, HandlingTypes, Published
<1>15. OwnSound(n)'
  <2> SUFFICES ASSUME w # Unsure PROVE OwnSound(n)'
    BY <1>10 DEF OwnSound
  <2>1. wanted[n] # Unsure /\ Own(n) = wanted[n]
    BY <1>2, <1>9 DEF OwnSound
  <2>2. \A u \in Threads : u # t => job[n][u].pc \notin Busy
    BY <1>1, <1>2, <2>1 DEF OwnSound, Underway, Busy
  <2>3. j.at > mem[n][a] /\ Says(n, t, new)
    BY <1>1, <1>2, <2>1 DEF OwnSound, JobSound
  <2>4. mem'[n][a] = j.at /\ Own(n)' = new
    <3>1. mem'[n][a] = j.at
      BY <1>3, <1>12, <2>3
    <3> QED
      BY <1>1, <1>4, <3>1 DEF Own
  <2>5. new = w
    BY <1>9, <2>1, <2>3 DEF Says, Threads
  <2>6. JobSound(n, t)'
    BY <1>6, <1>8, <2>3, <2>4 DEF JobSound
  <2>7. form'[n] # NoForm => form'[n] = Own(n)'.text /\ t \notin Savers
    <3>1. form[n] # NoForm => form[n] = Own(n).text /\ t \notin Savers
      BY <1>1, <1>2, <2>1 DEF OwnSound, Underway
    <3>2. t \in {"start", "link"} => new.text = Own(n).text
      BY <2>3 DEF Says
    <3>3. t \notin Savers => t \in {"start", "link"}
      BY DEF Threads
    <3> QED
      BY <1>1, <2>4, <3>1, <3>2, <3>3
  <2>8. job'[n][t].pc = "upsert"
    BY <1>6, <1>8, <2>3
  <2>9. \A u \in Threads : u # t => job'[n][u].pc \notin Busy
    BY <1>8, <2>2
  <2>10. Own(n)' = wanted'[n]
    BY <1>10, <2>4, <2>5
  <2> HIDE DEF j, new
  <2> QED
    BY <2>6, <2>7, <2>8, <2>9, <2>10, OwnMoved
<1>16. ASSUME NEW m \in Nodes, m # n PROVE OwnSound(m)'
  <2>1. Key[m] \in Authors /\ mem'[m][Key[m]] = mem[m][Key[m]]
    BY <1>12, <1>16 DEF ProfilesAssumption
  <2> QED
    BY <1>1, <1>2, <1>8, <1>10, <1>16, <2>1, OwnSame
<1> QED
  BY <1>14, <1>15, <1>16 DEF ProfileInv

LEMMA UpsertInv ==
    ASSUME ProfilesAssumption, ProfileInv, NEW n \in Nodes, NEW t \in Threads, Upsert(n, t)
    PROVE  ProfileInv'
<1> DEFINE j == job[n][t]
           d == [j EXCEPT !.pc = "announce"]
<1>1. /\ j.pc = "upsert" /\ SetJob(n, t, d)
      /\ \/ row' = [row EXCEPT ![n][Key[n]] = j.at] /\ UNCHANGED wanted
         \/ Spoil(n, TRUE) /\ UNCHANGED row
      /\ UNCHANGED <<signed, net, mem, recent, newcomers, handling, form, linking>>
  BY DEF Upsert
<1>2. ProfileTypes /\ \A m \in Nodes : OwnSound(m)
  BY DEF ProfileInv
<1>3. Key[n] \in Authors /\ JobTypes /\ UserTypes /\ Fits(j, t, Len(signed[Key[n]]))
  BY <1>2 DEF ProfileTypes, JobTypes, ProfilesAssumption
<1>4. /\ Len(signed[Key[n]]) \in Nat /\ j \in Jobs /\ j.at \in 1..Len(signed[Key[n]]) /\ j.at \in Nat
      /\ j.at <= Len(signed[Key[n]])
  <2>1. Len(signed[Key[n]]) \in Nat
    BY <1>2, <1>3, LenIs DEF ProfileTypes, SignedTypes
  <2>2. j \in Jobs /\ j.at \in 1..Len(signed[Key[n]])
    BY <1>1, <1>3 DEF Fits
  <2> HIDE DEF j
  <2> QED
    BY <2>1, <2>2
<1>5. d \in Jobs /\ d.at = j.at /\ d.edit = j.edit /\ d.pc = "announce"
  <2> HIDE DEF j
  <2> QED
    BY <1>4 DEF Jobs
<1>6. Fits(d, t, Len(signed[Key[n]]))
  <2> HIDE DEF d, j
  <2> QED
    BY <1>4, <1>5 DEF Fits
<1>7. /\ JobTypes' /\ job'[n][t] = d
      /\ \A u \in Threads : u # t => job'[n][u] = job[n][u]
      /\ \A m \in Nodes : m # n => job'[m] = job[m]
  <2> HIDE DEF d
  <2> QED
    BY <1>1, <1>3, <1>6, JobStep
<1>8. /\ row' \in [Nodes -> [Authors -> Nat]]
      /\ \A m \in Nodes, b \in Authors :
            row'[m][b] = row[m][b] \/ (m = n /\ b = Key[n] /\ row'[m][b] = j.at)
      /\ row'[n][Key[n]] = j.at \/ Spoil(n, TRUE)
  <2> DEFINE x == j.at
  <2>1. row \in [Nodes -> [Authors -> Nat]] /\ x \in Nat
    BY <1>2, <1>4 DEF ProfileTypes, StoreTypes
  <2>2. row' = [row EXCEPT ![n][Key[n]] = x] \/ (Spoil(n, TRUE) /\ row' = row)
    BY <1>1
  <2> HIDE DEF x
  <2>3. /\ row' \in [Nodes -> [Authors -> Nat]]
        /\ \A m \in Nodes, b \in Authors : row'[m][b] = row[m][b] \/ (m = n /\ b = Key[n] /\ row'[m][b] = x)
        /\ row'[n][Key[n]] = x \/ Spoil(n, TRUE)
    <3>1. CASE row' = [row EXCEPT ![n][Key[n]] = x]
      BY <1>3, <2>1, <3>1
    <3>2. CASE Spoil(n, TRUE) /\ row' = row
      BY <2>1, <3>2
    <3> QED
      BY <2>2, <3>1, <3>2
  <2> QED
    BY <2>3 DEF x
<1>9. StoreTypes'
  <2> HIDE DEF j
  <2>1. \A m \in Nodes, b \in Authors : mem[m][b] <= Len(signed[b]) /\ row'[m][b] <= Len(signed[b])
    BY <1>2, <1>4, <1>8 DEF ProfileTypes, StoreTypes
  <2> QED
    BY <1>1, <1>2, <1>8, <2>1 DEF ProfileTypes, StoreTypes
<1>10. /\ wanted' \in [Nodes -> Contents \cup {Unsure}]
       /\ wanted'[n] = wanted[n] \/ wanted'[n] = Unsure
       /\ \A m \in Nodes : m # n => wanted'[m] = wanted[m]
       /\ Spoil(n, TRUE) => wanted'[n] = Unsure
  <2>1. CASE Spoil(n, TRUE)
    BY <1>3, <2>1, SpoilIs
  <2>2. CASE UNCHANGED wanted /\ ~Spoil(n, TRUE)
    BY <1>3, <2>2 DEF UserTypes
  <2> QED
    BY <1>1, <2>1, <2>2
<1>11. ProfileTypes'
  <2>1. UserTypes'
    BY <1>1, <1>3, <1>10 DEF UserTypes
  <2> QED
    BY <1>1, <1>2, <1>7, <1>9, <2>1 DEF ProfileTypes, SignedTypes, NetTypes, HandlingTypes, Published
<1>12. OwnSound(n)'
  <2> SUFFICES ASSUME wanted'[n] # Unsure PROVE OwnSound(n)'
    BY DEF OwnSound
  <2>1. wanted'[n] = wanted[n] /\ wanted[n] # Unsure /\ row'[n][Key[n]] = j.at
    BY <1>8, <1>10
  <2>2. \A u \in Threads : u # t => job'[n][u].pc \notin Busy
    BY <1>1, <1>2, <1>7, <2>1 DEF OwnSound, Underway, Busy
  <2>3. Own(n)' = Own(n) /\ Own(n) = wanted[n] /\ j.at = mem[n][Key[n]]
    BY <1>1, <1>2, <2>1 DEF OwnSound, JobSound, Own
  <2>4. form[n] # NoForm => form[n] = Own(n).text
    BY <1>2, <2>1 DEF OwnSound
  <2>5. job'[n][t].pc = "announce" /\ JobSound(n, t)'
    BY <1>5, <1>7 DEF JobSound
  <2> HIDE DEF j
  <2> QED
    BY <1>1, <2>1, <2>2, <2>3, <2>4, <2>5, OwnMoved DEF Busy
<1>13. ASSUME NEW m \in Nodes, m # n PROVE OwnSound(m)'
  <2>1. Key[m] \in Authors /\ row'[m][Key[m]] = row[m][Key[m]]
    BY <1>8, <1>13 DEF ProfilesAssumption
  <2> QED
    BY <1>1, <1>2, <1>7, <1>10, <1>13, <2>1, OwnSame
<1> QED
  BY <1>11, <1>12, <1>13 DEF ProfileInv

LEMMA AnnounceInv ==
    ASSUME ProfilesAssumption, ProfileInv, NEW n \in Nodes, NEW t \in Threads, Announce(n, t)
    PROVE  ProfileInv'
<1> DEFINE j == job[n][t]
<1>1. /\ j.pc = "announce" /\ SetJob(n, t, NoJob)
      /\ net' = net \cup {[author |-> Key[n], at |-> j.at]}
      /\ linking' = [linking EXCEPT ![n] = @ /\ t # "link"]
      /\ UNCHANGED <<signed, storeVars, handling, form, wanted>>
  BY DEF Announce
<1>2. ProfileTypes /\ \A m \in Nodes : OwnSound(m)
  BY DEF ProfileInv
<1>3. Key[n] \in Authors /\ JobTypes /\ UserTypes /\ Fits(j, t, Len(signed[Key[n]]))
  BY <1>2 DEF ProfileTypes, JobTypes, ProfilesAssumption
<1>4. /\ JobTypes' /\ job'[n][t] = NoJob
      /\ \A u \in Threads : u # t => job'[n][u] = job[n][u]
      /\ \A m \in Nodes : m # n => job'[m] = job[m]
  BY <1>1, <1>3, JobStep, NoJobFits
<1>5. NetTypes'
  BY <1>1, <1>2, <1>3 DEF ProfileTypes, NetTypes, Fits
<1>6. UserTypes'
  <2>1. linking' \in [Nodes -> BOOLEAN]
    <3>1. linking \in [Nodes -> BOOLEAN]
      BY <1>3 DEF UserTypes
    <3> QED
      BY <1>1, <3>1, Zenon
  <2> QED
    BY <1>1, <1>3, <2>1 DEF UserTypes
<1>7. ProfileTypes'
  BY <1>1, <1>2, <1>4, <1>5, <1>6 DEF ProfileTypes, SignedTypes, StoreTypes, HandlingTypes, Published, storeVars
<1>8. OwnSound(n)'
  BY <1>1, <1>2, <1>4, OwnIdle, ProfileNumbers DEF storeVars, Busy
<1>9. \A m \in Nodes : m # n => OwnSound(m)'
  BY <1>1, <1>2, <1>4, OwnSame DEF storeVars
<1> QED
  BY <1>7, <1>8, <1>9 DEF ProfileInv

LEMMA RepublishInv ==
    ASSUME ProfilesAssumption, ProfileInv, NEW n \in Nodes, Republish(n)
    PROVE  ProfileInv'
<1> DEFINE d == [NoJob EXCEPT !.pc = "sign", !.text = Own(n).text, !.github = Own(n).github]
<1>1. /\ job[n]["start"].pc = "wait"
      /\ \/ SetJob(n, "start", NoJob) /\ UNCHANGED wanted
         \/ Spoil(n, Overlap(n)) /\ SetJob(n, "start", d)
      /\ UNCHANGED <<signed, net, storeVars, handling, form, linking>>
  BY DEF Republish
<1>2. ProfileTypes /\ \A m \in Nodes : OwnSound(m)
  BY DEF ProfileInv
<1>3. "start" \in Threads /\ "start" \notin Savers /\ JobTypes /\ UserTypes
  BY <1>2 DEF ProfileTypes, ProfilesAssumption, Threads
<1>4. CASE SetJob(n, "start", NoJob) /\ UNCHANGED wanted
  <2>1. /\ JobTypes' /\ job'[n]["start"] = NoJob
        /\ \A u \in Threads : u # "start" => job'[n][u] = job[n][u]
        /\ \A m \in Nodes : m # n => job'[m] = job[m]
    BY <1>1, <1>3, <1>4, JobStep, NoJobFits
  <2>2. UserTypes'
    BY <1>1, <1>3, <1>4 DEF UserTypes
  <2>3. ProfileTypes'
    BY <1>1, <1>2, <2>1, <2>2, UserStep
  <2>4. OwnSound(n)'
    BY <1>1, <1>2, <1>3, <1>4, <2>1, OwnIdle, ProfileNumbers DEF storeVars, Busy
  <2>5. \A m \in Nodes : m # n => OwnSound(m)'
    BY <1>1, <1>2, <1>4, <2>1, OwnSame DEF storeVars
  <2> QED
    BY <2>3, <2>4, <2>5 DEF ProfileInv
<1>5. CASE Spoil(n, Overlap(n)) /\ SetJob(n, "start", d)
  <2>1. Own(n) = [text |-> Own(n).text, github |-> Own(n).github]
        /\ Own(n).text \in [Fields -> Texts] /\ Own(n).github \in Names \cup {Empty}
    BY <1>2, OwnIs DEF Contents
  <2>2. d \in Jobs /\ d.pc = "sign" /\ d.text = Own(n).text /\ d.github = Own(n).github
    <3>1. NoJob \in Jobs
      BY ProfileNumbers
    <3> HIDE DEF Own, NoJob
    <3> QED
      BY <2>1, <3>1 DEF Jobs
  <2> HIDE DEF d
  <2>3. Fits(d, "start", Len(signed[Key[n]]))
    BY <1>3, <2>2 DEF Fits
  <2>4. /\ JobTypes' /\ job'[n]["start"] = d
        /\ \A u \in Threads : u # "start" => job'[n][u] = job[n][u]
        /\ \A m \in Nodes : m # n => job'[m] = job[m]
    BY <1>1, <1>3, <1>5, <2>3, JobStep
  <2>5. /\ wanted' \in [Nodes -> Contents \cup {Unsure}]
        /\ wanted'[n] = IF Overlap(n) THEN Unsure ELSE wanted[n]
        /\ \A m \in Nodes : m # n => wanted'[m] = wanted[m]
    BY <1>3, <1>5, SpoilIs
  <2>6. ProfileTypes'
    <3>1. UserTypes'
      BY <1>1, <1>3, <2>5 DEF UserTypes
    <3> QED
      BY <1>1, <1>2, <2>4, <3>1, UserStep
  <2>7. ASSUME NEW c, c = [text |-> job'[n]["start"].text, github |-> job'[n]["start"].github]
        PROVE  Says(n, "start", c)'
    <3>1. c = Own(n) /\ Own(n)' = Own(n)
      BY <1>1, <2>1, <2>2, <2>4, <2>7 DEF Own, storeVars
    <3> QED
      BY <1>3, <3>1 DEF Says
  <2>8. OwnSound(n)'
    <3>1. /\ mem'[n][Key[n]] = mem[n][Key[n]] /\ row'[n][Key[n]] = row[n][Key[n]]
          /\ signed'[Key[n]] = signed[Key[n]] /\ form'[n] = form[n]
      BY <1>1 DEF storeVars
    <3> QED
      BY <1>2, <1>3, <2>2, <2>4, <2>5, <2>7, <3>1, OwnBegins
  <2>9. \A m \in Nodes : m # n => OwnSound(m)'
    BY <1>1, <1>2, <2>4, <2>5, OwnSame DEF storeVars
  <2> QED
    BY <2>6, <2>8, <2>9 DEF ProfileInv
<1> QED
  BY <1>1, <1>4, <1>5

LEMMA EditInv ==
    ASSUME ProfilesAssumption, ProfileInv, NEW n \in Nodes, Edit(n)
    PROVE  ProfileInv'
<1>1. /\ form' = [form EXCEPT ![n] = Own(n).text]
      /\ Spoil(n, Savers \cap Underway(n) # {})
      /\ UNCHANGED <<signed, net, storeVars, handling, job, linking>>
  BY DEF Edit
<1>2. ProfileTypes /\ (\A m \in Nodes : OwnSound(m)) /\ UserTypes /\ JobTypes
  BY DEF ProfileInv, ProfileTypes
<1>3. Own(n).text \in [Fields -> Texts]
  BY <1>2, OwnIs
<1>4. /\ form' \in [Nodes -> [Fields -> Texts] \cup {NoForm}] /\ form'[n] = Own(n).text
      /\ \A m \in Nodes : m # n => form'[m] = form[m]
  <2>1. form \in [Nodes -> [Fields -> Texts] \cup {NoForm}]
    BY <1>2 DEF UserTypes
  <2> HIDE DEF Own
  <2> QED
    BY <1>1, <1>3, <2>1
<1>5. /\ wanted' \in [Nodes -> Contents \cup {Unsure}]
      /\ wanted'[n] = IF Savers \cap Underway(n) # {} THEN Unsure ELSE wanted[n]
      /\ \A m \in Nodes : m # n => wanted'[m] = wanted[m]
  BY <1>1, <1>2, SpoilIs
<1>6. ProfileTypes'
  <2>1. UserTypes' /\ JobTypes'
    BY <1>1, <1>2, <1>4, <1>5 DEF UserTypes, JobTypes
  <2> QED
    BY <1>1, <1>2, <2>1, UserStep
<1>7. OwnSound(n)'
  <2> SUFFICES ASSUME wanted'[n] # Unsure PROVE OwnSound(n)'
    BY DEF OwnSound
  <2>1. wanted'[n] = wanted[n] /\ wanted[n] # Unsure /\ Savers \cap Underway(n) = {}
    BY <1>5
  <2>2. /\ Own(n)' = Own(n) /\ Underway(n)' = Underway(n) /\ Upserting(n)' = Upserting(n)
        /\ row'[n][Key[n]] = row[n][Key[n]] /\ mem'[n][Key[n]] = mem[n][Key[n]]
    BY <1>1 DEF Own, Underway, Upserting, storeVars
  <2>3. ASSUME NEW t \in Threads PROVE JobSound(n, t)'
    <3>1. JobSound(n, t)
      BY <1>2, <2>1 DEF OwnSound
    <3> QED
      BY <1>1, <2>2, <3>1 DEF JobSound, Says
  <2> QED
    BY <1>2, <1>4, <2>1, <2>2, <2>3 DEF OwnSound
<1>8. \A m \in Nodes : m # n => OwnSound(m)'
  BY <1>1, <1>2, <1>4, <1>5, OwnSame DEF storeVars
<1> QED
  BY <1>6, <1>7, <1>8 DEF ProfileInv

\* An input is closed.
LEMMA FormClosed ==
    ASSUME NEW n \in Nodes, OwnSound(n), wanted'[n] = wanted[n], mem'[n][Key[n]] = mem[n][Key[n]],
           row'[n][Key[n]] = row[n][Key[n]], job'[n] = job[n], form'[n] = NoForm,
           signed'[Key[n]] = signed[Key[n]]
    PROVE  OwnSound(n)'
<1> SUFFICES ASSUME wanted[n] # Unsure PROVE OwnSound(n)'
  BY DEF OwnSound
<1>1. Own(n)' = Own(n) /\ Underway(n)' = Underway(n) /\ Upserting(n)' = Upserting(n)
  BY DEF Own, Underway, Upserting
<1>2. ASSUME NEW u \in Threads PROVE JobSound(n, u)'
  <2>1. JobSound(n, u) /\ job'[n][u] = job[n][u]
    BY DEF OwnSound
  <2> QED
    BY <1>1, <2>1 DEF JobSound, Says
<1> QED
  BY <1>1, <1>2 DEF OwnSound

LEMMA LeaveInv ==
    ASSUME ProfilesAssumption, ProfileInv, NEW n \in Nodes, Leave(n)
    PROVE  ProfileInv'
<1>1. /\ form' = [form EXCEPT ![n] = NoForm]
      /\ UNCHANGED <<signed, net, storeVars, handling, job, linking, wanted>>
  BY DEF Leave
<1>2. ProfileTypes /\ (\A m \in Nodes : OwnSound(m)) /\ UserTypes /\ JobTypes
  BY DEF ProfileInv, ProfileTypes
<1>3. /\ form' \in [Nodes -> [Fields -> Texts] \cup {NoForm}] /\ form'[n] = NoForm
      /\ \A m \in Nodes : m # n => form'[m] = form[m]
  BY <1>1, <1>2 DEF UserTypes
<1>4. ProfileTypes'
  <2>1. UserTypes' /\ JobTypes'
    BY <1>1, <1>2, <1>3 DEF UserTypes, JobTypes
  <2> QED
    BY <1>1, <1>2, <2>1, UserStep
<1>5. OwnSound(n)'
  BY <1>1, <1>2, <1>3, FormClosed DEF storeVars
<1>6. \A m \in Nodes : m # n => OwnSound(m)'
  BY <1>1, <1>2, <1>3, OwnSame DEF storeVars
<1> QED
  BY <1>4, <1>5, <1>6 DEF ProfileInv

LEMMA SaveFormInv ==
    ASSUME ProfilesAssumption, ProfileInv, NEW n \in Nodes, NEW t \in Savers, NEW f \in Fields, NEW x \in Texts,
           SaveForm(n, t, f, x)
    PROVE  ProfileInv'
<1> DEFINE text == [form[n] EXCEPT ![f] = x]
           d == [pc |-> "sign", text |-> text, github |-> Own(n).github, at |-> 0, edit |-> f]
<1>1. /\ form[n] # NoForm
      /\ form' = [form EXCEPT ![n] = NoForm]
      /\ Spoil(n, Overlap(n)) /\ SetJob(n, t, d)
      /\ UNCHANGED <<signed, net, storeVars, handling, linking>>
  BY DEF SaveForm, Carried
<1>2. ProfileTypes /\ (\A m \in Nodes : OwnSound(m)) /\ UserTypes /\ JobTypes
  BY DEF ProfileInv, ProfileTypes
<1>3. t \in Threads /\ t \notin {"start", "link"}
  BY DEF Threads, ProfilesAssumption
<1>4. /\ form' \in [Nodes -> [Fields -> Texts] \cup {NoForm}] /\ form'[n] = NoForm
      /\ \A m \in Nodes : m # n => form'[m] = form[m]
      /\ form[n] \in [Fields -> Texts]
  BY <1>1, <1>2 DEF UserTypes
<1>5. /\ text \in [Fields -> Texts] /\ Own(n).github \in Names \cup {Empty}
      /\ \A g \in Fields : g # f => text[g] = form[n][g]
  BY <1>2, <1>4, OwnIs
<1> HIDE DEF text
<1>6. /\ d \in Jobs /\ d.pc = "sign" /\ d.text = text /\ d.github = Own(n).github /\ d.edit = f
  BY <1>5 DEF Jobs
<1> HIDE DEF d
<1>7. Fits(d, t, Len(signed[Key[n]]))
  BY <1>6 DEF Fits
<1>8. /\ JobTypes' /\ job'[n][t] = d
      /\ \A u \in Threads : u # t => job'[n][u] = job[n][u]
      /\ \A m \in Nodes : m # n => job'[m] = job[m]
  BY <1>1, <1>2, <1>3, <1>7, JobStep
<1>9. /\ wanted' \in [Nodes -> Contents \cup {Unsure}]
      /\ wanted'[n] = IF Overlap(n) THEN Unsure ELSE wanted[n]
      /\ \A m \in Nodes : m # n => wanted'[m] = wanted[m]
  BY <1>1, <1>2, SpoilIs
<1>10. ProfileTypes'
  <2>1. UserTypes'
    BY <1>1, <1>2, <1>4, <1>9 DEF UserTypes
  <2> QED
    BY <1>1, <1>2, <1>8, <2>1, UserStep
<1>11. ASSUME wanted[n] # Unsure, NEW c, c = [text |-> job'[n][t].text, github |-> job'[n][t].github]
       PROVE  Says(n, t, c)'
  <2>1. form[n] = Own(n).text
    BY <1>1, <1>2, <1>11 DEF OwnSound
  <2>2. c.text = text /\ c.github = Own(n).github /\ job'[n][t].edit = f /\ Own(n)' = Own(n)
    BY <1>1, <1>6, <1>8, <1>11 DEF Own, storeVars
  <2> QED
    BY <1>3, <1>5, <2>1, <2>2 DEF Says
<1>12. OwnSound(n)'
  <2>1. /\ mem'[n][Key[n]] = mem[n][Key[n]] /\ row'[n][Key[n]] = row[n][Key[n]]
        /\ signed'[Key[n]] = signed[Key[n]]
    BY <1>1 DEF storeVars
  <2>2. job'[n][t].pc = "sign"
    BY <1>6, <1>8
  <2> QED
    BY <1>2, <1>3, <1>4, <1>8, <1>9, <1>11, <2>1, <2>2, OwnBegins
<1>13. \A m \in Nodes : m # n => OwnSound(m)'
  BY <1>1, <1>2, <1>4, <1>8, <1>9, OwnSame DEF storeVars
<1> QED
  BY <1>10, <1>12, <1>13 DEF ProfileInv

\* The flow of the link begins or fails: no publication yet.
LEMMA LinkInv ==
    ASSUME ProfilesAssumption, ProfileInv, NEW n \in Nodes, Link(n) \/ LinkFails(n)
    PROVE  ProfileInv'
<1> DEFINE d == [NoJob EXCEPT !.pc = "poll"]
<1>1. /\ job[n]["link"].pc \in {"idle", "poll"}
      /\ SetJob(n, "link", d) \/ SetJob(n, "link", NoJob)
      /\ linking' = [linking EXCEPT ![n] = TRUE] \/ linking' = [linking EXCEPT ![n] = FALSE]
      /\ UNCHANGED <<signed, net, storeVars, handling, form, wanted>>
  BY DEF Link, LinkFails
<1>2. ProfileTypes /\ (\A m \in Nodes : OwnSound(m)) /\ UserTypes /\ JobTypes
  BY DEF ProfileInv, ProfileTypes
<1>3. "link" \in Threads /\ "link" \notin Savers
  BY DEF Threads, ProfilesAssumption
<1>4. d \in Jobs /\ d.pc = "poll" /\ NoJob.pc = "idle"
  <2>1. NoJob \in Jobs /\ NoJob.pc = "idle"
    BY ProfileNumbers
  <2> HIDE DEF NoJob
  <2> QED
    BY <2>1 DEF Jobs
<1> HIDE DEF d
<1>5. Fits(d, "link", Len(signed[Key[n]])) /\ Fits(NoJob, "link", Len(signed[Key[n]]))
  BY <1>3, <1>4, NoJobFits DEF Fits
<1>6. /\ JobTypes' /\ job'[n]["link"].pc \in {"idle", "poll"}
      /\ \A u \in Threads : u # "link" => job'[n][u] = job[n][u]
      /\ \A m \in Nodes : m # n => job'[m] = job[m]
  <2>1. CASE SetJob(n, "link", d)
    BY <1>1, <1>2, <1>3, <1>4, <1>5, <2>1, JobStep
  <2>2. CASE SetJob(n, "link", NoJob)
    BY <1>1, <1>2, <1>3, <1>4, <1>5, <2>2, JobStep
  <2> QED
    BY <1>1, <2>1, <2>2
<1>7. ProfileTypes'
  <2>1. UserTypes'
    BY <1>1, <1>2 DEF UserTypes
  <2> QED
    BY <1>1, <1>2, <1>6, <2>1, UserStep
<1>8. OwnSound(n)'
  <2>1. /\ mem'[n][Key[n]] = mem[n][Key[n]] /\ row'[n][Key[n]] = row[n][Key[n]]
        /\ signed'[Key[n]] = signed[Key[n]] /\ form'[n] = form[n] /\ wanted'[n] = wanted[n]
    BY <1>1 DEF storeVars
  <2>2. job[n]["link"].pc \notin Busy /\ job'[n]["link"].pc \notin Busy
    BY <1>1, <1>6 DEF Busy
  <2> QED
    BY <1>2, <1>3, <1>6, <2>1, <2>2, OwnIdle
<1>9. \A m \in Nodes : m # n => OwnSound(m)'
  BY <1>1, <1>2, <1>6, OwnSame DEF storeVars
<1> QED
  BY <1>7, <1>8, <1>9 DEF ProfileInv

LEMMA LinkedInv ==
    ASSUME ProfilesAssumption, ProfileInv, NEW n \in Nodes, NEW name \in Names, Linked(n, name)
    PROVE  ProfileInv'
<1> DEFINE d == [NoJob EXCEPT !.pc = "sign", !.text = Own(n).text, !.github = name]
<1>1. /\ Spoil(n, Overlap(n)) /\ SetJob(n, "link", d)
      /\ UNCHANGED <<signed, net, storeVars, handling, form, linking>>
  BY DEF Linked
<1>2. ProfileTypes /\ (\A m \in Nodes : OwnSound(m)) /\ UserTypes /\ JobTypes
  BY DEF ProfileInv, ProfileTypes
<1>3. "link" \in Threads /\ "link" \notin Savers
  BY DEF Threads, ProfilesAssumption
<1>4. Own(n).text \in [Fields -> Texts]
  BY <1>2, OwnIs
<1>5. d \in Jobs /\ d.pc = "sign" /\ d.text = Own(n).text
  <2>1. NoJob \in Jobs
    BY ProfileNumbers
  <2> HIDE DEF Own, NoJob
  <2> QED
    BY <1>4, <2>1 DEF Jobs
<1> HIDE DEF d
<1>6. Fits(d, "link", Len(signed[Key[n]]))
  BY <1>3, <1>5 DEF Fits
<1>7. /\ JobTypes' /\ job'[n]["link"] = d
      /\ \A u \in Threads : u # "link" => job'[n][u] = job[n][u]
      /\ \A m \in Nodes : m # n => job'[m] = job[m]
  BY <1>1, <1>2, <1>3, <1>6, JobStep
<1>8. /\ wanted' \in [Nodes -> Contents \cup {Unsure}]
      /\ wanted'[n] = IF Overlap(n) THEN Unsure ELSE wanted[n]
      /\ \A m \in Nodes : m # n => wanted'[m] = wanted[m]
  BY <1>1, <1>2, SpoilIs
<1>9. ProfileTypes'
  <2>1. UserTypes'
    BY <1>1, <1>2, <1>8 DEF UserTypes
  <2> QED
    BY <1>1, <1>2, <1>7, <2>1, UserStep
<1>10. ASSUME NEW c, c = [text |-> job'[n]["link"].text, github |-> job'[n]["link"].github]
       PROVE  Says(n, "link", c)'
  <2>1. c.text = Own(n).text /\ Own(n)' = Own(n)
    BY <1>1, <1>5, <1>7, <1>10 DEF Own, storeVars
  <2> QED
    BY <1>3, <2>1 DEF Says
<1>11. OwnSound(n)'
  <2>1. /\ mem'[n][Key[n]] = mem[n][Key[n]] /\ row'[n][Key[n]] = row[n][Key[n]]
        /\ signed'[Key[n]] = signed[Key[n]] /\ form'[n] = form[n]
    BY <1>1 DEF storeVars
  <2>2. job'[n]["link"].pc = "sign"
    BY <1>5, <1>7
  <2> QED
    BY <1>2, <1>3, <1>7, <1>8, <1>10, <2>1, <2>2, OwnBegins
<1>12. \A m \in Nodes : m # n => OwnSound(m)'
  BY <1>1, <1>2, <1>7, <1>8, OwnSame DEF storeVars
<1> QED
  BY <1>9, <1>11, <1>12 DEF ProfileInv

LEMMA CancelLinkInv ==
    ASSUME ProfilesAssumption, ProfileInv, NEW n \in Nodes, CancelLink(n)
    PROVE  ProfileInv'
<1>1. /\ linking' = [linking EXCEPT ![n] = FALSE]
      /\ Spoil(n, job[n]["link"].pc \in {"upsert", "announce"})
      /\ UNCHANGED <<signed, net, storeVars, handling, job, form>>
  BY DEF CancelLink
<1>2. ProfileTypes /\ (\A m \in Nodes : OwnSound(m)) /\ UserTypes /\ JobTypes
  BY DEF ProfileInv, ProfileTypes
<1>3. /\ wanted' \in [Nodes -> Contents \cup {Unsure}]
      /\ wanted'[n] \in {Unsure, wanted[n]}
      /\ \A m \in Nodes : m # n => wanted'[m] = wanted[m]
  BY <1>1, <1>2, SpoilIs
<1>4. ProfileTypes'
  <2>1. UserTypes' /\ JobTypes'
    BY <1>1, <1>2, <1>3 DEF UserTypes, JobTypes
  <2> QED
    BY <1>1, <1>2, <2>1, UserStep
<1>5. OwnSound(n)'
  <2>1. CASE wanted'[n] = Unsure
    BY <2>1 DEF OwnSound
  <2>2. CASE wanted'[n] = wanted[n]
    BY <1>1, <1>2, <2>2, OwnSame DEF storeVars
  <2> QED
    BY <1>3, <2>1, <2>2
<1>6. \A m \in Nodes : m # n => OwnSound(m)'
  BY <1>1, <1>2, <1>3, OwnSame DEF storeVars
<1> QED
  BY <1>4, <1>5, <1>6 DEF ProfileInv

\* A start reads the table, which says what the memory said.
LEMMA RestartNodeInv ==
    ASSUME ProfilesAssumption, ProfileInv, NEW n \in Nodes, RestartNode(n)
    PROVE  ProfileInv'
<1>1. /\ mem' = [mem EXCEPT ![n] = row[n]]
      /\ recent' = [recent EXCEPT ![n] = {}] /\ newcomers' = [newcomers EXCEPT ![n] = 0]
      /\ handling' = [handling EXCEPT ![n] = AtRest]
      /\ job' = [job EXCEPT ![n] = AtStart]
      /\ form' = [form EXCEPT ![n] = NoForm] /\ linking' = [linking EXCEPT ![n] = FALSE]
      /\ Spoil(n, Overlap(n))
      /\ UNCHANGED <<signed, net, row>>
  BY DEF RestartNode
<1>2. ProfileTypes /\ (\A m \in Nodes : OwnSound(m)) /\ UserTypes /\ JobTypes /\ StoreTypes /\ HandlingTypes
  BY DEF ProfileInv, ProfileTypes
<1>3. /\ wanted' \in [Nodes -> Contents \cup {Unsure}]
      /\ wanted'[n] = IF Overlap(n) THEN Unsure ELSE wanted[n]
      /\ \A m \in Nodes : m # n => wanted'[m] = wanted[m]
  BY <1>1, <1>2, SpoilIs
<1>4. /\ mem' \in [Nodes -> [Authors -> Nat]] /\ mem'[n] = row[n]
      /\ \A m \in Nodes : m # n => mem'[m] = mem[m]
  BY <1>1, <1>2 DEF StoreTypes
<1>5. StoreTypes'
  <2>1. \A m \in Nodes, a \in Authors : mem'[m][a] <= Len(signed[a]) /\ row[m][a] <= Len(signed[a])
    BY <1>2, <1>4 DEF StoreTypes
  <2>2. recent' \in [Nodes -> SUBSET Authors] /\ newcomers' \in [Nodes -> 0..MaxNew]
    <3>1. recent \in [Nodes -> SUBSET Authors] /\ newcomers \in [Nodes -> 0..MaxNew] /\ 0 \in 0..MaxNew
      BY <1>2, ProfileNumbers DEF StoreTypes
    <3> QED
      BY <1>1, <3>1
  <2> QED
    BY <1>1, <1>2, <1>4, <2>1, <2>2 DEF StoreTypes
<1>6. HandlingTypes'
  BY <1>1, <1>2, ProfileNumbers DEF HandlingTypes
<1>7. /\ AtStart \in [Threads -> Jobs] /\ \A t \in Threads : AtStart[t].pc \in {"wait", "idle"}
  <2>1. NoJob \in Jobs /\ NoJob.pc = "idle"
    BY ProfileNumbers
  <2>2. [NoJob EXCEPT !.pc = "wait"] \in Jobs /\ [NoJob EXCEPT !.pc = "wait"].pc = "wait"
    <3> HIDE DEF NoJob
    <3> QED
      BY <2>1 DEF Jobs
  <2> HIDE DEF Jobs, NoJob
  <2> QED
    BY <2>1, <2>2 DEF AtStart
<1>8. /\ job' \in [Nodes -> [Threads -> Jobs]] /\ job'[n] = AtStart
      /\ \A m \in Nodes : m # n => job'[m] = job[m]
  <2>1. job \in [Nodes -> [Threads -> Jobs]]
    BY <1>2 DEF JobTypes
  <2> HIDE DEF AtStart, Jobs, Threads
  <2> QED
    BY <1>1, <1>7, <2>1
<1>9. JobTypes'
  <2>1. ASSUME NEW m \in Nodes, NEW t \in Threads PROVE Fits(job'[m][t], t, Len(signed[Key[m]]))
    <3>1. CASE m = n
      <4>1. job'[m][t] \in Jobs /\ job'[m][t].pc \in {"wait", "idle"}
        BY <1>7, <1>8, <3>1
      <4> QED
        BY <4>1 DEF Fits
    <3>2. CASE m # n
      BY <1>2, <1>8, <3>2 DEF JobTypes
    <3> QED
      BY <3>1, <3>2
  <2> QED
    BY <1>1, <1>8, <2>1 DEF JobTypes
<1>10. /\ form' \in [Nodes -> [Fields -> Texts] \cup {NoForm}] /\ form'[n] = NoForm
       /\ \A m \in Nodes : m # n => form'[m] = form[m]
       /\ linking' \in [Nodes -> BOOLEAN]
  BY <1>1, <1>2 DEF UserTypes
<1>11. UserTypes'
  BY <1>3, <1>10 DEF UserTypes
<1>12. ProfileTypes'
  BY <1>1, <1>2, <1>5, <1>6, <1>9, <1>11 DEF ProfileTypes, SignedTypes, NetTypes, Published
<1>13. OwnSound(n)'
  <2> SUFFICES ASSUME wanted'[n] # Unsure PROVE OwnSound(n)'
    BY DEF OwnSound
  <2>1. wanted'[n] = wanted[n] /\ wanted[n] # Unsure /\ Underway(n) = {}
    BY <1>3 DEF Overlap
  <2>2. ~Upserting(n)
    BY <2>1 DEF Upserting, Underway
  <2>3. Own(n) = wanted[n] /\ row[n][Key[n]] = mem[n][Key[n]]
    BY <1>2, <2>1, <2>2 DEF OwnSound
  <2>4. mem'[n][Key[n]] = mem[n][Key[n]] /\ row'[n][Key[n]] = mem'[n][Key[n]] /\ Own(n)' = Own(n)
    BY <1>1, <1>4, <2>3 DEF Own
  <2>5. \A t \in Threads : job'[n][t].pc \notin Busy
    BY <1>7, <1>8 DEF Busy
  <2>6. \A t \in Threads : JobSound(n, t)'
    BY <2>5 DEF JobSound, Busy
  <2>7. Underway(n)' = {}
    BY <2>5 DEF Underway, Busy
  <2> QED
    BY <1>10, <2>1, <2>3, <2>4, <2>6, <2>7 DEF OwnSound
<1>14. \A m \in Nodes : m # n => OwnSound(m)'
  BY <1>1, <1>2, <1>3, <1>4, <1>8, <1>10, OwnSame
<1> QED
  BY <1>12, <1>13, <1>14 DEF ProfileInv

LEMMA OutsiderInv ==
    ASSUME ProfilesAssumption, ProfileInv, NEW a \in Authors, Outsider(a)
    PROVE  ProfileInv'
<1> DEFINE k == Len(signed[a]) + 1
<1>1. /\ \A n \in Nodes : Key[n] # a
      /\ MoreToSign /\ signed' = [signed EXCEPT ![a] = Append(@, Blank)]
      /\ net' = net \cup {[author |-> a, at |-> k]}
      /\ UNCHANGED <<storeVars, handling, job, userVars>>
  BY DEF Outsider
<1>2. ProfileTypes /\ (\A m \in Nodes : OwnSound(m)) /\ UserTypes /\ JobTypes
  BY DEF ProfileInv, ProfileTypes
<1>3. /\ SignedTypes' /\ Longer /\ Len(signed'[a]) = k
      /\ \A b \in Authors : b # a => signed'[b] = signed[b]
  BY <1>1, <1>2, Appended, ProfileNumbers DEF ProfileTypes
<1>4. /\ NetTypes /\ StoreTypes' /\ HandlingTypes'
      /\ \A m \in Nodes : \A u, i : Fits(i, u, Len(signed[Key[m]])) => Fits(i, u, Len(signed'[Key[m]]))
  BY <1>1, <1>2, <1>3, StillTyped DEF ProfileTypes
<1>5. Len(signed[a]) \in Nat /\ \A b \in Authors : Len(signed[b]) \in Nat
  <2>1. signed \in [Authors -> Seq(Contents)]
    BY <1>2 DEF ProfileTypes, SignedTypes
  <2> QED
    BY <2>1, LenIs
<1>6. NetTypes'
  <2>1. ASSUME NEW m \in net PROVE m.author \in Authors /\ m.at \in 1..Len(signed'[m.author])
    <3>1. m.author \in Authors /\ m.at \in 1..Len(signed[m.author])
      BY <1>4 DEF NetTypes
    <3>2. CASE m.author = a
      BY <1>3, <1>5, <3>1, <3>2
    <3>3. CASE m.author # a
      BY <1>3, <3>1, <3>3
    <3> QED
      BY <3>2, <3>3
  <2>2. k \in 1..Len(signed'[a])
    BY <1>3, <1>5
  <2> HIDE DEF k
  <2> QED
    BY <1>1, <2>1, <2>2 DEF NetTypes
<1>7. JobTypes' /\ UserTypes'
  <2>1. \A n \in Nodes : Key[n] \in Authors /\ signed'[Key[n]] = signed[Key[n]]
    BY <1>1, <1>3 DEF ProfilesAssumption
  <2> QED
    BY <1>1, <1>2, <2>1 DEF JobTypes, UserTypes, userVars
<1>8. \A n \in Nodes : OwnSound(n)'
  <2>1. \A n \in Nodes : Key[n] \in Authors /\ signed'[Key[n]] = signed[Key[n]]
    BY <1>1, <1>3 DEF ProfilesAssumption
  <2> QED
    BY <1>1, <1>2, <2>1, OwnSame DEF storeVars, userVars
<1> QED
  BY <1>3, <1>4, <1>6, <1>7, <1>8 DEF ProfileInv, ProfileTypes

-----------------------------------------------------------------------------
LEMMA ProfileStep ==
    ASSUME ProfilesAssumption, ProfileInv, [ProfileNext]_profileVars
    PROVE  ProfileInv'
<1>1. CASE UNCHANGED profileVars
  <2>1. /\ UNCHANGED <<signed, net, storeVars, handling, job, userVars>>
    BY <1>1 DEF profileVars
  <2>2. ProfileTypes /\ \A n \in Nodes : OwnSound(n)
    BY DEF ProfileInv
  <2>3. ProfileTypes'
    BY <2>1, <2>2, UserStep DEF ProfileTypes, JobTypes, UserTypes, userVars
  <2>4. \A n \in Nodes : OwnSound(n)'
    BY <2>1, <2>2, OwnSame DEF storeVars, userVars
  <2> QED
    BY <2>3, <2>4 DEF ProfileInv
<1>2. ASSUME NEW n \in Nodes, TakeProfiles(n) PROVE ProfileInv'
  BY <1>2, DeliverInv, HandleInv, PersistReceivedInv, UpsertReceivedInv, TimePassesInv DEF TakeProfiles
<1>3. ASSUME NEW n \in Nodes, User(n) PROVE ProfileInv'
  BY <1>3, EditInv, LeaveInv, SaveFormInv, LinkInv, LinkedInv, CancelLinkInv DEF User
<1>4. ASSUME NEW n \in Nodes, NEW t \in Threads, PublishOwn(n, t) PROVE ProfileInv'
  BY <1>4, SignInv, PersistInv, UpsertInv, AnnounceInv DEF PublishOwn
<1>5. CASE ProfileNext
  BY <1>2, <1>3, <1>4, <1>5, RepublishInv, RestartNodeInv, OutsiderInv DEF ProfileNext
<1> QED
  BY <1>1, <1>5

LEMMA ProfileShown == ASSUME ProfilesAssumption, ProfileInv PROVE OwnKept
<1>1. ProfileTypes /\ \A n \in Nodes : OwnSound(n)
  BY DEF ProfileInv
<1>2. \A a \in Authors : /\ signed[a] \in Seq(Contents) /\ DOMAIN signed[a] = 1..Len(signed[a]) /\ Len(signed[a]) \in Nat
                         /\ Len(signed[a]) <= MaxSigned /\ MaxSigned \in Nat
  <2>1. signed \in [Authors -> Seq(Contents)] /\ IsFiniteSet(Published) /\ Cardinality(Published) <= MaxSigned
        /\ \A a \in Authors : Len(signed[a]) <= Cardinality(Published)
    BY <1>1 DEF ProfileTypes, SignedTypes
  <2>2. Cardinality(Published) \in Nat /\ MaxSigned \in Nat
    BY <2>1, FS_CardinalityType, ProfileNumbers
  <2> HIDE DEF Published, Contents
  <2>3. ASSUME NEW a \in Authors
        PROVE  /\ signed[a] \in Seq(Contents) /\ DOMAIN signed[a] = 1..Len(signed[a]) /\ Len(signed[a]) \in Nat
               /\ Len(signed[a]) <= MaxSigned
    <3>1. signed[a] \in Seq(Contents) /\ DOMAIN signed[a] = 1..Len(signed[a]) /\ Len(signed[a]) \in Nat
      BY <2>1, LenIs
    <3>2. Len(signed[a]) <= Cardinality(Published)
      BY <2>1
    <3> QED
      BY <2>1, <2>2, <3>1, <3>2
  <2> QED
    BY <2>2, <2>3
<1>3. \A a \in Authors : \A i \in DOMAIN signed[a] : signed[a][i] \in Contents
  BY <1>2, ElementOfSeq
<1>4. \A m \in net : m.at \in DOMAIN signed[m.author]
  BY <1>1, <1>2 DEF ProfileTypes, NetTypes
<1>5. mem \in Copies /\ row \in Copies /\ \A n \in Nodes, a \in Authors : mem[n][a] <= Len(signed[a])
  <2>1. StoreTypes
    BY <1>1 DEF ProfileTypes
  <2>2. ASSUME NEW n \in Nodes, NEW a \in Authors PROVE mem[n][a] \in 0..MaxSigned /\ row[n][a] \in 0..MaxSigned
    <3>1. mem[n][a] \in Nat /\ row[n][a] \in Nat /\ mem[n][a] <= Len(signed[a]) /\ row[n][a] <= Len(signed[a])
      BY <2>1 DEF StoreTypes
    <3>2. Len(signed[a]) \in Nat /\ Len(signed[a]) <= MaxSigned /\ MaxSigned \in Nat
      BY <1>2
    <3> QED
      BY <3>1, <3>2
  <2>3. mem \in [Nodes -> [Authors -> Nat]] /\ row \in [Nodes -> [Authors -> Nat]]
    BY <2>1 DEF StoreTypes
  <2> QED
    BY <2>1, <2>2, <2>3 DEF Copies, StoreTypes
<1>6. \A n \in Nodes : handling[n].pc \in {"idle", "handle", "persist", "upsert"}
  BY <1>1 DEF ProfileTypes, HandlingTypes, Deliveries
<1>7. \A n \in Nodes, t \in Threads :
         job[n][t].pc \in {"idle", "wait", "poll", "sign", "persist", "upsert", "announce"}
  BY <1>1 DEF ProfileTypes, JobTypes, Jobs
<1>8. ProfileTypeOK
  BY <1>1, <1>3, <1>4, <1>5, <1>6, <1>7 DEF ProfileTypeOK, ProfileTypes, StoreTypes, UserTypes
<1>9. ASSUME NEW n \in Nodes, wanted[n] # Unsure, Underway(n) = {}
      PROVE  Own(n) = wanted[n] /\ row[n][Key[n]] = mem[n][Key[n]]
  BY <1>1, <1>9 DEF OwnSound, Upserting, Underway
<1> QED
  BY <1>8, <1>9 DEF OwnKept

LEMMA NewestStep ==
    ASSUME ProfilesAssumption, ProfileInv, restarts \in Nat, [ProfileNext]_profileVars
    PROVE  \A n \in Nodes, a \in Authors : mem'[n][a] >= mem[n][a] \/ restarts' # restarts
<1>1. mem \in [Nodes -> [Authors -> Nat]]
  BY DEF ProfileInv, ProfileTypes, StoreTypes
<1>2. CASE mem' = mem
  BY <1>1, <1>2
<1>3. CASE \E n \in Nodes : RestartNode(n)
  BY <1>3 DEF RestartNode
<1>4. ASSUME NEW n \in Nodes, NEW a \in Authors, NEW at \in Nat, Newest(n, a, at)
      PROVE  \A m \in Nodes, b \in Authors : mem'[m][b] >= mem[m][b]
  BY <1>1, <1>4 DEF Newest
<1>5. CASE \E n \in Nodes : PersistReceived(n)
  <2>1. PICK n \in Nodes : PersistReceived(n)
    BY <1>5
  <2>2. handling[n].author \in Authors /\ handling[n].at \in Nat
    BY <2>1 DEF PersistReceived, ProfileInv, ProfileTypes, HandlingTypes, Deliveries
  <2> QED
    BY <1>4, <2>1, <2>2 DEF PersistReceived
<1>6. CASE \E n \in Nodes, t \in Threads : Persist(n, t)
  <2>1. PICK n \in Nodes, t \in Threads : Persist(n, t)
    BY <1>6
  <2>2. Key[n] \in Authors /\ job[n][t].at \in Nat
    BY DEF ProfileInv, ProfileTypes, JobTypes, Jobs, ProfilesAssumption
  <2> QED
    BY <1>4, <2>1, <2>2 DEF Persist
<1>7. CASE UNCHANGED profileVars
  BY <1>2, <1>7 DEF profileVars, storeVars
<1>8. CASE ProfileNext /\ ~(\E n \in Nodes : RestartNode(n) \/ PersistReceived(n))
                       /\ ~(\E n \in Nodes, t \in Threads : Persist(n, t))
  <2>1. ASSUME NEW n \in Nodes, TakeProfiles(n), ~PersistReceived(n) PROVE mem' = mem
    BY <2>1 DEF TakeProfiles, Deliver, Handle, UpsertReceived, TimePasses, storeVars
  <2>2. ASSUME NEW n \in Nodes, User(n) PROVE mem' = mem
    BY <2>2 DEF User, Edit, Leave, SaveForm, Link, LinkFails, Linked, CancelLink, storeVars
  <2>3. ASSUME NEW n \in Nodes, NEW t \in Threads, PublishOwn(n, t), ~Persist(n, t) PROVE mem' = mem
    BY <2>3 DEF PublishOwn, Sign, Upsert, Announce, storeVars
  <2>4. ASSUME NEW n \in Nodes, Republish(n) PROVE mem' = mem
    BY <2>4 DEF Republish, storeVars
  <2>5. ASSUME NEW a \in Authors, Outsider(a) PROVE mem' = mem
    BY <2>5 DEF Outsider, storeVars
  <2>6. mem' = mem
    BY <1>8, <2>1, <2>2, <2>3, <2>4, <2>5 DEF ProfileNext
  <2> QED
    BY <1>2, <2>6
<1> QED
  BY <1>3, <1>5, <1>6, <1>7, <1>8

LEMMA RestartsCounted ==
    ASSUME restarts \in Nat, [ProfileNext]_profileVars
    PROVE  restarts' \in Nat
<1>1. ASSUME NEW n \in Nodes, TakeProfiles(n) PROVE restarts' = restarts
  BY <1>1 DEF TakeProfiles, Deliver, Handle, PersistReceived, UpsertReceived, TimePasses
<1>2. ASSUME NEW n \in Nodes, User(n) PROVE restarts' = restarts
  BY <1>2 DEF User, Edit, Leave, SaveForm, Link, LinkFails, Linked, CancelLink
<1>3. ASSUME NEW n \in Nodes, NEW t \in Threads, PublishOwn(n, t) PROVE restarts' = restarts
  BY <1>3 DEF PublishOwn, Sign, Persist, Upsert, Announce
<1>4. ASSUME NEW n \in Nodes, Republish(n) \/ RestartNode(n) PROVE restarts' \in Nat
  BY <1>4 DEF Republish, RestartNode
<1>5. ASSUME NEW a \in Authors, Outsider(a) PROVE restarts' = restarts
  BY <1>5 DEF Outsider
<1> QED
  BY <1>1, <1>2, <1>3, <1>4, <1>5 DEF ProfileNext, profileVars

\* The inductive invariant of the profiles, for any nodes, authors, goroutines
\* and limits.
THEOREM ProfileInvariance == ProfileSpec => []ProfileInv
<1>1. ProfileInit => ProfileInv
  BY ProfileInitially, ProfilesAssumption
<1>2. ProfileInv /\ [ProfileNext]_profileVars => ProfileInv'
  BY ProfileStep, ProfilesAssumption
<1> QED
  BY <1>1, <1>2, PTL DEF ProfileSpec

\* No edit of the node's own profile is lost to a republication, another save
\* or the link, nor to a restart, outside the named exceptions.
THEOREM AlwaysOwnKept == ProfileSpec => []OwnKept
<1>1. ProfileInv => OwnKept
  BY ProfileShown, ProfilesAssumption
<1> QED
  BY <1>1, ProfileInvariance, PTL

\* A running node's copies only get newer (persist, profile.go).
THEOREM AlwaysNewest == ProfileSpec => NewestKept
<1>1. ProfileInit => restarts \in Nat
  BY DEF ProfileInit
<1>2. restarts \in Nat /\ [ProfileNext]_profileVars => (restarts \in Nat)'
  BY RestartsCounted
<1>3. ProfileInv /\ restarts \in Nat /\ [ProfileNext]_profileVars
        => [\A n \in Nodes, a \in Authors : mem'[n][a] >= mem[n][a] \/ restarts' # restarts]_profileVars
  BY NewestStep, ProfilesAssumption
<1> QED
  BY <1>1, <1>2, <1>3, ProfileInvariance, PTL DEF ProfileSpec, NewestKept

-----------------------------------------------------------------------------
(***************************************************************************)
(* Part 3: FileTransfer                                                    *)
(***************************************************************************)

SenderPlaces  == {"idle", "resume", "ack"}
HandlerPlaces == {"idle", "init", "tell", "consent", "open", "read", "save", "rename", "forget"}
MessageTypes  == {"none", "INIT", "RESUME", "CHUNK", "ACK", "DONE"}

Senders  == [at : SenderPlaces, i : 0..Total]
Handlers == [at : HandlerPlaces, next : 0..Total, file : Inodes \cup {NoFile}]
Messages == [type : MessageTypes, n : 0..Total]

StreamTypes ==
    /\ sender \in [Streams -> Senders]
    /\ wire \in [Streams -> Messages]
    /\ handler \in [Streams -> Handlers]
    /\ answer \in [Streams -> {"none", "yes", "no"}]
    /\ \A s \in Streams : Holds(s, "CHUNK") \/ Holds(s, "ACK") => wire[s].n < Total
    /\ \A s \in Streams : SendAt(s, "ack") => sender[s].i < Total

DiskTypes ==
    /\ pend \in SUBSET Streams
    /\ part \in Inodes \cup {NoFile} /\ state \in 0..Total
    /\ data \in [Inodes -> SUBSET Chunks] /\ final \in SUBSET Inodes
    /\ settled \in BOOLEAN

\* SendFile runs on a stream, or has sent the DONE that the handler is at.
Engaged(s) == ~SendAt(s, "idle") \/ Finishing(s)

\* The user sends again only after the attempt before: one stream is engaged, and
\* it is engaged either at its sender or at its handler.
OneEngaged ==
    /\ \A s, t \in Streams : Engaged(s) /\ Engaged(t) => s = t
    /\ \A s \in Streams : Holds(s, "DONE") => SendAt(s, "idle")
    /\ \A s \in Streams : HandleAt(s, "rename") => SendAt(s, "idle") /\ wire[s] = Silence

\* The user answered it, and it has not opened the .part file yet.
Entering(s) == answer[s] # "none" \/ HandleAt(s, "open")

OneAsked ==
    /\ \A s, t \in pend : s = t
    /\ \A s, t \in Streams : Entering(s) /\ Entering(t) => s = t

\* RESUME was sent for the attempt that is underway.
InProgress(s) ==
    \/ SendAt(s, "resume") /\ Holds(s, "RESUME")
    \/ SendAt(s, "ack")
    \/ Finishing(s)

\* Nobody else is underway while a stream opens the .part file.
OpensAlone == \A s, t \in Streams : HandleAt(s, "open") /\ InProgress(t) => s = t

\* No file has holes.
NoHoles == \A i \in Inodes : \A c \in data[i] : 0..c \subseteq data[i]

\* A handler's file has the chunks before its next one.
Written(s) ==
    /\ handler[s].at \in {"read", "save", "rename"} => handler[s].file \in Inodes
    /\ handler[s].at \in {"read", "save"} => 0..(handler[s].next - 1) \subseteq data[handler[s].file]
    /\ HandleAt(s, "save") => handler[s].next \in data[handler[s].file]
    /\ HandleAt(s, "rename") => Whole(handler[s].file)

\* The .part file has the chunks that a handler will go on after.
Opening(s) ==
    HandleAt(s, "open") =>
        /\ part = NoFile => handler[s].next = 0
        /\ part # NoFile => 0..(handler[s].next - 1) \subseteq data[part]

\* The attempt underway writes the .part file, if that has not been removed.
Holding(s) ==
    InProgress(s) /\ handler[s].at \in {"read", "save", "rename"} => part \in {NoFile, handler[s].file}

\* One file was given the name, it is whole, and nothing is underway since.
Arrived ==
    /\ \A i \in final : Whole(i)
    /\ \A i, j \in final : i = j
    /\ final # {} => \A s \in Streams : ~Engaged(s)

TransferInv ==
    /\ StreamTypes /\ DiskTypes /\ OneEngaged /\ OneAsked /\ OpensAlone /\ NoHoles /\ Arrived
    /\ \A s \in Streams : Written(s) /\ Opening(s) /\ Holding(s)

-----------------------------------------------------------------------------
\* The inodes are numbered, two more than the streams.
LEMMA InodesFinite ==
    /\ Cardinality(Streams) \in Nat
    /\ Inodes \subseteq Nat \ {0}
    /\ IsFiniteSet(Inodes) /\ Cardinality(Inodes) = Cardinality(Streams) + 2
<1>1. Cardinality(Streams) \in Nat
    BY FS_CardinalityType, TransferAssumption
<1>2. IsFiniteSet(1..(Cardinality(Streams) + 2)) /\ Cardinality(1..(Cardinality(Streams) + 2)) = Cardinality(Streams) + 2
    BY <1>1, FS_Interval
<1> QED  BY <1>1, <1>2 DEF Inodes

\* There are more inodes than handlers and the arrived file hold.
LEMMA InodeFree ==
    ASSUME handler \in [Streams -> Handlers], final \in SUBSET Inodes,
           \A i, j \in final : i = j, part = NoFile
    PROVE  LET new == CHOOSE i \in Inodes : i \notin InUse IN new \in Inodes /\ new \notin InUse
<1> DEFINE files == {handler[s].file : s \in Streams}
           f     == [s \in Streams |-> handler[s].file]
<1>1. IsFiniteSet(files) /\ Cardinality(files) <= Cardinality(Streams)
  <2>1. f \in Surjection(Streams, files)
      BY DEF Surjection
  <2> QED  BY <2>1, FS_Surjection, TransferAssumption
<1>2. IsFiniteSet(final) /\ Cardinality(final) <= 1
  <2>1. CASE final = {}
      BY <2>1, FS_EmptySet
  <2>2. CASE final # {}
    <3>1. PICK i : final = {i}
        BY <2>2
    <3> QED  BY <3>1, FS_Singleton
  <2> QED  BY <2>1, <2>2
<1> HIDE DEF files, f
<1>3. IsFiniteSet(files \cup final) /\ Cardinality(files \cup final) <= Cardinality(Streams) + 1
  <2>1. /\ IsFiniteSet(files \cup final)
        /\ Cardinality(files \cup final)
              = Cardinality(files) + Cardinality(final) - Cardinality(files \cap final)
      BY <1>1, <1>2, FS_Union
  <2>2. IsFiniteSet(files \cap final)
      BY <1>2, FS_Subset
  <2>3. /\ Cardinality(files) \in Nat /\ Cardinality(final) \in Nat
        /\ Cardinality(files \cap final) \in Nat /\ Cardinality(Streams) \in Nat
      BY <1>1, <1>2, <2>2, FS_CardinalityType, TransferAssumption
  <2> QED  BY <2>1, <2>3, <1>1, <1>2
<1>4. ~(Inodes \subseteq files \cup final)
  <2> SUFFICES ASSUME Inodes \subseteq files \cup final  PROVE FALSE
      OBVIOUS
  <2>1. Cardinality(Inodes) <= Cardinality(files \cup final)
      BY <1>3, FS_Subset
  <2>2. Cardinality(files \cup final) \in Nat
      BY <1>3, FS_CardinalityType
  <2> QED  BY <2>1, <2>2, <1>3, InodesFinite
<1>5. PICK i \in Inodes : i \notin files \cup final
    BY <1>4
<1>6. i \notin InUse
    BY <1>5, InodesFinite DEF InUse, NoFile, files
<1> QED  BY <1>6

\* A file as long as the state file says has every chunk before it.
LEMMA LongIsWhole ==
    ASSUME NEW i \in Inodes, NEW n \in 0..Total, DiskTypes, NoHoles, LongEnough(i, n)
    PROVE  0..(n - 1) \subseteq data[i]
<1>1. PICK c \in data[i] : c + 1 >= n
    BY TransferAssumption DEF LongEnough, DiskTypes, Chunks
<1>2. c \in Nat /\ 0..c \subseteq data[i]
    BY <1>1, TransferAssumption DEF DiskTypes, Chunks, NoHoles
<1> QED  BY <1>1, <1>2

\* The invariant says what DeliveredWhole promises.
LEMMA TransferInvSafe == TransferInv => DeliveredWhole
<1> SUFFICES ASSUME TransferInv  PROVE DeliveredWhole
    OBVIOUS
<1>1. TransferTypeOK
    BY DEF TransferInv, StreamTypes, DiskTypes, TransferTypeOK, Senders, Handlers, SenderPlaces
<1>2. \A i \in final : Whole(i)
    BY DEF TransferInv, Arrived
<1>3. Resumable => part # NoFile /\ 0..(state - 1) \subseteq data[part]
    BY LongIsWhole DEF TransferInv, DiskTypes, Resumable
<1> QED  BY <1>1, <1>2, <1>3 DEF DeliveredWhole

\* A handler goes somewhere, keeps its chunk and file, and no other moves.
LEMMA GoesOnly ==
    ASSUME StreamTypes, NEW s \in Streams, NEW place \in HandlerPlaces, Goes(s, place)
    PROVE  /\ handler' \in [Streams -> Handlers]
           /\ handler'[s].at = place /\ handler'[s].next = handler[s].next /\ handler'[s].file = handler[s].file
           /\ \A t \in Streams : t # s => handler'[t] = handler[t]
BY DEF StreamTypes, Goes, Handlers

\* A handler returns, and no other moves.
LEMMA ReturnOnly ==
    ASSUME StreamTypes, NEW s \in Streams, Return(s)
    PROVE  /\ handler' \in [Streams -> Handlers]
           /\ handler'[s].at = "idle"
           /\ \A t \in Streams : t # s => handler'[t] = handler[t]
BY TransferAssumption DEF StreamTypes, Return, Free, Handlers, HandlerPlaces

\* A handler goes somewhere with a new next chunk, and no other moves.
LEMMA NextOnly ==
    ASSUME StreamTypes, NEW s \in Streams, NEW place \in HandlerPlaces, NEW n \in 0..Total,
           handler' = [handler EXCEPT ![s].at = place, ![s].next = n]
    PROVE  /\ handler' \in [Streams -> Handlers]
           /\ handler'[s].at = place /\ handler'[s].next = n /\ handler'[s].file = handler[s].file
           /\ \A t \in Streams : t # s => handler'[t] = handler[t]
BY DEF StreamTypes, Handlers

\* One message is put on the wire of one stream.
LEMMA SayOnly ==
    ASSUME StreamTypes, NEW s \in Streams, NEW type \in MessageTypes, NEW n \in 0..Total,
           wire' = [wire EXCEPT ![s] = Msg(type, n)]
    PROVE  /\ wire' \in [Streams -> Messages]
           /\ wire'[s].type = type /\ wire'[s].n = n
           /\ \A t \in Streams : t # s => wire'[t] = wire[t]
BY DEF StreamTypes, Messages, Msg

\* The message of one stream is taken.
LEMMA SilentOnly ==
    ASSUME StreamTypes, NEW s \in Streams, wire' = [wire EXCEPT ![s] = Silence]
    PROVE  /\ wire' \in [Streams -> Messages]
           /\ wire'[s] = Silence /\ wire'[s].type = "none"
           /\ \A t \in Streams : t # s => wire'[t] = wire[t]
BY TransferAssumption DEF StreamTypes, Messages, MessageTypes, Msg, Silence

\* What SendFile writes next: a chunk, or DONE after the last one.
LEMMA Writes ==
    ASSUME StreamTypes, NEW s \in Streams, NEW i \in 0..Total, Write(s, i)
    PROVE  /\ sender' \in [Streams -> Senders] /\ wire' \in [Streams -> Messages]
           /\ \A t \in Streams : t # s => sender'[t] = sender[t] /\ wire'[t] = wire[t]
           /\ \/ /\ sender'[s].at = "ack" /\ sender'[s].i < Total
                 /\ wire'[s].type = "CHUNK" /\ wire'[s].n < Total
              \/ sender'[s].at = "idle" /\ wire'[s].type = "DONE"
<1>1. sender \in [Streams -> Senders]
    BY DEF StreamTypes
<1>2. CASE i < Total
  <2>1. wire' = [wire EXCEPT ![s] = Msg("CHUNK", i)] /\ sender' = [sender EXCEPT ![s] = [at |-> "ack", i |-> i]]
      BY <1>2 DEF Write
  <2>2. sender'[s] = [at |-> "ack", i |-> i] /\ sender' \in [Streams -> Senders]
        /\ \A t \in Streams : t # s => sender'[t] = sender[t]
      BY <2>1, <1>1 DEF Senders, SenderPlaces
  <2>3. /\ wire' \in [Streams -> Messages]
        /\ wire'[s].type = "CHUNK" /\ wire'[s].n = i
        /\ \A t \in Streams : t # s => wire'[t] = wire[t]
      BY <2>1, SayOnly DEF MessageTypes
  <2> QED  BY <2>2, <2>3, <1>2
<1>3. CASE ~(i < Total)
  <2>1. wire' = [wire EXCEPT ![s] = Msg("DONE", 0)] /\ sender' = [sender EXCEPT ![s] = [at |-> "idle", i |-> 0]]
      BY <1>3 DEF Write
  <2>2. sender'[s] = [at |-> "idle", i |-> 0] /\ sender' \in [Streams -> Senders]
        /\ \A t \in Streams : t # s => sender'[t] = sender[t]
      BY <2>1, <1>1, TransferAssumption DEF Senders, SenderPlaces
  <2>3. 0 \in 0..Total
      BY TransferAssumption
  <2>4. /\ wire' \in [Streams -> Messages]
        /\ wire'[s].type = "DONE"
        /\ \A t \in Streams : t # s => wire'[t] = wire[t]
      BY <2>1, <2>3, SayOnly DEF MessageTypes
  <2> QED  BY <2>2, <2>4
<1> QED  BY <1>2, <1>3

\* SendFile goes on, on the stream of the attempt that is underway.
LEMMA SendingKeeps ==
    ASSUME TransferInv, NEW s \in Streams, InProgress(s), ~SendAt(s, "idle"),
           UNCHANGED <<handler, consent, disk, settled>>,
           sender' \in [Streams -> Senders], wire' \in [Streams -> Messages],
           \A t \in Streams : t # s => sender'[t] = sender[t] /\ wire'[t] = wire[t],
           \/ /\ sender'[s].at = "ack" /\ sender'[s].i < Total
              /\ wire'[s].type = "CHUNK" /\ wire'[s].n < Total
           \/ sender'[s].at = "idle" /\ wire'[s].type \in {"DONE", "none"}
    PROVE  TransferInv'
<1> USE DEF SendAt, Holds, HandleAt
<1>1. StreamTypes'
    BY DEF TransferInv, StreamTypes, consent, disk
<1>2. DiskTypes'
    BY DEF TransferInv, DiskTypes, consent, disk
<1>3. /\ \A t \in Streams : Engaged(t)' => Engaged(t)
      /\ \A t \in Streams : InProgress(t)' => InProgress(t)
    BY DEF Engaged, Finishing, InProgress
<1>4. OneEngaged'
  <2>1. ~HandleAt(s, "rename")
      BY DEF TransferInv, OneEngaged
  <2> QED  BY <1>3, <2>1 DEF TransferInv, OneEngaged
<1>5. OneAsked' /\ OpensAlone' /\ NoHoles'
    BY <1>3 DEF TransferInv, OneAsked, OpensAlone, NoHoles, Entering, consent, disk
<1>6. Arrived'
    BY <1>3 DEF TransferInv, Arrived, Whole, disk
<1>7. \A t \in Streams : Written(t)' /\ Opening(t)' /\ Holding(t)'
    BY <1>3 DEF TransferInv, Written, Opening, Holding, Whole, disk
<1> QED  BY <1>1, <1>2, <1>4, <1>5, <1>6, <1>7 DEF TransferInv

\* Resume and Acked go on with the attempt that is in progress.
LEMMA ResumeKeeps ==
    ASSUME TransferInv, NEW s \in Streams, Resume(s)
    PROVE  TransferInv'
<1>1. StreamTypes
    BY DEF TransferInv
<1>2. InProgress(s) /\ ~SendAt(s, "idle")
    BY DEF Resume, InProgress, SendAt
<1>3. UNCHANGED <<handler, consent, disk, settled>>
    BY DEF Resume
<1>4. CASE wire[s].n >= Total
  <2>1. wire' = [wire EXCEPT ![s] = Silence] /\ sender' = [sender EXCEPT ![s].at = "idle"]
      BY <1>4 DEF Resume
  <2>2. sender' \in [Streams -> Senders] /\ sender'[s].at = "idle"
        /\ \A t \in Streams : t # s => sender'[t] = sender[t]
      BY <2>1, <1>1 DEF StreamTypes, Senders, SenderPlaces
  <2> QED  BY <1>1, <1>2, <1>3, <2>1, <2>2, SilentOnly, SendingKeeps
<1>5. CASE ~(wire[s].n >= Total)
  <2>1. Write(s, wire[s].n) /\ wire[s].n \in 0..Total
      BY <1>1, <1>5 DEF Resume, StreamTypes, Messages
  <2> QED  BY <1>1, <1>2, <1>3, <2>1, Writes, SendingKeeps
<1> QED  BY <1>4, <1>5

LEMMA AckedKeeps ==
    ASSUME TransferInv, NEW s \in Streams, Acked(s)
    PROVE  TransferInv'
<1>1. StreamTypes
    BY DEF TransferInv
<1>2. InProgress(s) /\ ~SendAt(s, "idle")
    BY DEF Acked, InProgress, SendAt
<1>3. UNCHANGED <<handler, consent, disk, settled>>
    BY DEF Acked
<1>4. Write(s, sender[s].i + 1) /\ sender[s].i + 1 \in 0..Total
    BY <1>1, TransferAssumption DEF Acked, StreamTypes, Senders
<1> QED  BY <1>1, <1>2, <1>3, <1>4, Writes, SendingKeeps

\* Nothing is written or moved: messages, answers and attempts only go away,
\* and a handler goes no further than to its user's answer.
LEMMA BackingOff ==
    ASSUME TransferInv, StreamTypes', DiskTypes', part' = part, data' = data, final' = final,
           \A t \in Streams : sender'[t] = sender[t] \/ sender'[t].at = "idle",
           \A t \in Streams : wire'[t] = wire[t] \/ wire'[t] = Silence,
           \A t \in Streams : handler'[t] = handler[t] \/ handler'[t].at \in {"idle", "tell", "consent"},
           \A t \in Streams : answer'[t] = answer[t] \/ answer'[t] = "none",
           \A t, u \in pend' : t = u
    PROVE  TransferInv'
<1> USE DEF SendAt, Holds, HandleAt
<1>1. \A t \in Streams : wire'[t] = wire[t] \/ wire'[t].type = "none"
    BY DEF Silence, Msg
<1>2. /\ \A t \in Streams : Engaged(t)' => Engaged(t)
      /\ \A t \in Streams : InProgress(t)' => InProgress(t)
      /\ \A t \in Streams : Entering(t)' => Entering(t)
    BY <1>1 DEF Engaged, Finishing, InProgress, Entering
<1>3. OneEngaged'
    BY <1>1, <1>2 DEF TransferInv, OneEngaged
<1>4. OneAsked' /\ OpensAlone' /\ NoHoles' /\ Arrived'
    BY <1>2 DEF TransferInv, OneAsked, OpensAlone, NoHoles, Arrived, Whole
<1>5. \A t \in Streams : Written(t)' /\ Opening(t)' /\ Holding(t)'
    BY <1>2 DEF TransferInv, Written, Opening, Holding, Whole
<1> QED  BY <1>3, <1>4, <1>5 DEF TransferInv

\* The steps that only back off.
LEMMA SendFailsKeeps ==
    ASSUME TransferInv, NEW s \in Streams, SendFails(s)
    PROVE  TransferInv'
<1>1. StreamTypes /\ DiskTypes
    BY DEF TransferInv
<1>2. /\ sender' \in [Streams -> Senders]
      /\ \A t \in Streams : sender'[t] = sender[t] \/ sender'[t].at = "idle"
    BY <1>1, TransferAssumption DEF SendFails, StreamTypes, Senders, SenderPlaces
<1>3. /\ wire' \in [Streams -> Messages]
      /\ \A t \in Streams : wire'[t] = wire[t] \/ (wire'[t] = Silence /\ wire'[t].type = "none")
  <2>1. CASE wire[s].type \in {"RESUME", "ACK"}
    <3>1. wire' = [wire EXCEPT ![s] = Silence]
        BY <2>1 DEF SendFails
    <3> QED  BY <1>1, <3>1, SilentOnly
  <2>2. CASE wire[s].type \notin {"RESUME", "ACK"}
      BY <1>1, <2>2 DEF SendFails, StreamTypes
  <2> QED  BY <2>1, <2>2
<1>4. StreamTypes' /\ DiskTypes'
    BY <1>1, <1>2, <1>3 DEF StreamTypes, DiskTypes, SendFails, SendAt, Holds, consent, disk
<1> QED  BY <1>2, <1>3, <1>4, BackingOff DEF TransferInv, OneAsked, SendFails, consent, disk

LEMMA RefuseKeeps ==
    ASSUME TransferInv, NEW s \in Streams, Refuse(s)
    PROVE  TransferInv'
<1>1. StreamTypes /\ DiskTypes
    BY DEF TransferInv
<1>2. /\ handler' \in [Streams -> Handlers] /\ handler'[s].at = "idle"
      /\ \A t \in Streams : t # s => handler'[t] = handler[t]
    BY <1>1, ReturnOnly DEF Refuse
<1>3. /\ wire' \in [Streams -> Messages] /\ wire'[s] = Silence /\ wire'[s].type = "none"
      /\ \A t \in Streams : t # s => wire'[t] = wire[t]
    BY <1>1, SilentOnly DEF Refuse
<1>4. StreamTypes' /\ DiskTypes'
    BY <1>1, <1>2, <1>3 DEF StreamTypes, DiskTypes, Refuse, SendAt, Holds, consent, disk
<1> QED  BY <1>2, <1>3, <1>4, BackingOff DEF TransferInv, OneAsked, Refuse, consent, disk

LEMMA AskKeeps ==
    ASSUME TransferInv, NEW s \in Streams, Ask(s)
    PROVE  TransferInv'
<1>1. StreamTypes /\ DiskTypes
    BY DEF TransferInv
<1>2. /\ handler' \in [Streams -> Handlers] /\ handler'[s].at = "tell"
      /\ \A t \in Streams : t # s => handler'[t] = handler[t]
    BY <1>1, GoesOnly DEF Ask, HandlerPlaces
<1>3. /\ wire' \in [Streams -> Messages] /\ wire'[s] = Silence /\ wire'[s].type = "none"
      /\ \A t \in Streams : t # s => wire'[t] = wire[t]
    BY <1>1, SilentOnly DEF Ask
<1>4. StreamTypes' /\ DiskTypes'
    BY <1>1, <1>2, <1>3 DEF StreamTypes, DiskTypes, Ask, SendAt, Holds, disk
<1> QED  BY <1>2, <1>3, <1>4, BackingOff DEF Ask, disk

LEMMA TellKeeps ==
    ASSUME TransferInv, NEW s \in Streams, Tell(s)
    PROVE  TransferInv'
<1>1. StreamTypes /\ DiskTypes
    BY DEF TransferInv
<1>2. /\ handler' \in [Streams -> Handlers] /\ handler'[s].at = "consent"
      /\ \A t \in Streams : t # s => handler'[t] = handler[t]
    BY <1>1, GoesOnly DEF Tell, HandlerPlaces
<1>3. StreamTypes' /\ DiskTypes'
    BY <1>1, <1>2 DEF StreamTypes, DiskTypes, Tell, SendAt, Holds, disk
<1> QED  BY <1>2, <1>3, BackingOff DEF TransferInv, OneAsked, Tell, disk

LEMMA NotAcceptedKeeps ==
    ASSUME TransferInv, NEW s \in Streams, NotAccepted(s)
    PROVE  TransferInv'
<1>1. StreamTypes /\ DiskTypes
    BY DEF TransferInv
<1>2. /\ handler' \in [Streams -> Handlers] /\ handler'[s].at = "idle"
      /\ \A t \in Streams : t # s => handler'[t] = handler[t]
    BY <1>1, ReturnOnly DEF NotAccepted
<1>3. StreamTypes' /\ DiskTypes'
    BY <1>1, <1>2 DEF StreamTypes, DiskTypes, NotAccepted, SendAt, Holds, disk
<1>4. \A t \in Streams : answer'[t] = answer[t] \/ answer'[t] = "none"
    BY <1>1 DEF StreamTypes, NotAccepted
<1> QED  BY <1>2, <1>3, <1>4, BackingOff DEF NotAccepted, disk

LEMMA ReadFailsKeeps ==
    ASSUME TransferInv, NEW s \in Streams, ReadFails(s)
    PROVE  TransferInv'
<1>1. StreamTypes /\ DiskTypes
    BY DEF TransferInv
<1>2. /\ handler' \in [Streams -> Handlers] /\ handler'[s].at = "idle"
      /\ \A t \in Streams : t # s => handler'[t] = handler[t]
    BY <1>1, ReturnOnly DEF ReadFails
<1>3. /\ wire' \in [Streams -> Messages] /\ wire'[s] = Silence /\ wire'[s].type = "none"
      /\ \A t \in Streams : t # s => wire'[t] = wire[t]
    BY <1>1, SilentOnly DEF ReadFails
<1>4. StreamTypes' /\ DiskTypes'
    BY <1>1, <1>2, <1>3 DEF StreamTypes, DiskTypes, ReadFails, SendAt, Holds, consent, disk
<1> QED  BY <1>2, <1>3, <1>4, BackingOff DEF TransferInv, OneAsked, ReadFails, consent, disk

LEMMA ForgetKeeps ==
    ASSUME TransferInv, NEW s \in Streams, Forget(s)
    PROVE  TransferInv'
<1>1. StreamTypes /\ DiskTypes
    BY DEF TransferInv
<1>2. /\ handler' \in [Streams -> Handlers] /\ handler'[s].at = "idle"
      /\ \A t \in Streams : t # s => handler'[t] = handler[t]
    BY <1>1, ReturnOnly DEF Forget
<1>3. StreamTypes' /\ DiskTypes'
    BY <1>1, <1>2, TransferAssumption DEF StreamTypes, DiskTypes, Forget, SendAt, Holds, consent
<1> QED  BY <1>2, <1>3, BackingOff DEF TransferInv, OneAsked, Forget, consent

LEMMA CrashKeeps ==
    ASSUME TransferInv, Crash
    PROVE  TransferInv'
<1>1. StreamTypes /\ DiskTypes
    BY DEF TransferInv
<1>2. Free \in Handlers /\ Free.at = "idle" /\ Silence \in Messages /\ Silence.type = "none"
    BY TransferAssumption DEF Free, Silence, Msg, Handlers, HandlerPlaces, Messages, MessageTypes
<1>3. StreamTypes' /\ DiskTypes'
    BY <1>1, <1>2 DEF StreamTypes, DiskTypes, Crash, SendAt, Holds, disk
<1> QED  BY <1>2, <1>3, BackingOff DEF Crash, disk

LEMMA PollKeeps ==
    ASSUME TransferInv, Poll \/ Settle
    PROVE  TransferInv'
<1>1. StreamTypes' /\ DiskTypes'
    BY DEF TransferInv, StreamTypes, DiskTypes, Poll, Settle, SendAt, Holds, consent, disk
<1> QED  BY <1>1, BackingOff DEF TransferInv, OneAsked, Poll, Settle, consent, disk

\* A new attempt finds no other.
LEMMA SendKeeps ==
    ASSUME TransferInv, Patient, NEW s \in Streams, Send(s)
    PROVE  TransferInv'
<1> USE DEF SendAt, Holds, HandleAt
<1>1. StreamTypes /\ DiskTypes
    BY DEF TransferInv
<1>2. /\ handler' \in [Streams -> Handlers] /\ handler'[s].at = "init"
      /\ \A t \in Streams : t # s => handler'[t] = handler[t]
    BY <1>1, GoesOnly DEF Send, HandlerPlaces
<1>3. /\ wire' \in [Streams -> Messages] /\ wire'[s].type = "INIT"
      /\ \A t \in Streams : t # s => wire'[t] = wire[t]
  <2>1. 0 \in 0..Total
      BY TransferAssumption
  <2> QED  BY <1>1, <2>1, SayOnly DEF Send, MessageTypes
<1>4. /\ sender' \in [Streams -> Senders] /\ sender'[s].at = "resume"
      /\ \A t \in Streams : t # s => sender'[t] = sender[t]
    BY <1>1, TransferAssumption DEF StreamTypes, Send, Senders, SenderPlaces
<1>5. StreamTypes' /\ DiskTypes'
    BY <1>1, <1>2, <1>3, <1>4 DEF StreamTypes, DiskTypes, Send, disk
<1>6. \A t \in Streams : ~Engaged(t)
    BY DEF Send, Engaged, Waiting
<1>7. /\ \A t \in Streams : Engaged(t)' => t = s
      /\ \A t \in Streams : ~InProgress(t)'
    BY <1>2, <1>3, <1>4, <1>6 DEF Engaged, InProgress, Finishing
<1>8. \A t \in Streams : Entering(t)' => Entering(t)
    BY <1>1, <1>2 DEF Entering, Send, StreamTypes
<1>9. OneEngaged'
    BY <1>2, <1>3, <1>4, <1>7 DEF TransferInv, OneEngaged
<1>10. OneAsked' /\ OpensAlone' /\ NoHoles' /\ Arrived'
    BY <1>7, <1>8 DEF TransferInv, OneAsked, OpensAlone, NoHoles, Arrived, Whole, Send, disk
<1>11. \A t \in Streams : Written(t)' /\ Opening(t)' /\ Holding(t)'
    BY <1>2, <1>7 DEF TransferInv, Written, Opening, Holding, Whole, Send, disk
<1> QED  BY <1>5, <1>9, <1>10, <1>11 DEF TransferInv

\* An answer goes to one stream at most.
LEMMA RespondKeeps ==
    ASSUME TransferInv, NEW yes \in {"yes", "no"}, Respond(yes)
    PROVE  TransferInv'
<1> USE DEF SendAt, Holds, HandleAt
<1>1. StreamTypes /\ DiskTypes
    BY DEF TransferInv
<1>2. answer' \in [Streams -> {"none", "yes", "no"}]
    BY <1>1 DEF StreamTypes, Respond
<1>3. StreamTypes' /\ DiskTypes'
    BY <1>1, <1>2 DEF StreamTypes, DiskTypes, Respond, disk
<1>4. \A t \in Streams : Entering(t)' => t \in pend
    BY DEF Entering, Respond, Working
<1>5. OneEngaged' /\ OneAsked' /\ OpensAlone' /\ NoHoles' /\ Arrived'
    BY <1>4 DEF TransferInv, OneEngaged, OneAsked, OpensAlone, NoHoles, Arrived, Engaged, InProgress, Finishing,
                Whole, Respond, disk
<1>6. \A t \in Streams : Written(t)' /\ Opening(t)' /\ Holding(t)'
    BY DEF TransferInv, Written, Opening, Holding, InProgress, Finishing, Whole, Respond, disk
<1> QED  BY <1>3, <1>5, <1>6 DEF TransferInv

\* A handler resumes after the chunks of the .part file, or from the start
\* without one.
LEMMA LoadKeeps ==
    ASSUME TransferInv, NEW s \in Streams, Load(s)
    PROVE  TransferInv'
<1> USE DEF SendAt, Holds, HandleAt
<1>1. StreamTypes /\ DiskTypes
    BY DEF TransferInv
<1>2. /\ part' \in {part, NoFile} /\ state' \in 0..Total
      /\ part' # NoFile => 0..(state' - 1) \subseteq data[part']
      /\ part' = NoFile => state' = 0
  <2>1. CASE Resumable
    <3>1. part \in Inodes /\ 0..(state - 1) \subseteq data[part]
        BY <1>1, <2>1, LongIsWhole DEF TransferInv, DiskTypes, Resumable
    <3> QED  BY <1>1, <2>1, <3>1 DEF Load, Resumable, DiskTypes
  <2>2. CASE ~Resumable
      BY <2>2, TransferAssumption DEF Load
  <2> QED  BY <2>1, <2>2
<1>3. /\ handler' \in [Streams -> Handlers] /\ wire' \in [Streams -> Messages]
      /\ \A t \in Streams : t # s => handler'[t] = handler[t] /\ wire'[t] = wire[t]
      /\ \/ sender[s].at = "resume" /\ handler'[s].at = "open" /\ handler'[s].next = state' /\ wire'[s].type = "RESUME"
         \/ handler'[s].at = "idle" /\ wire'[s] = wire[s]
  <2>1. CASE SendAt(s, "resume")
    <3>1. /\ handler' = [handler EXCEPT ![s].at = "open", ![s].next = state']
          /\ wire' = [wire EXCEPT ![s] = Msg("RESUME", state')]
        BY <2>1 DEF Load
    <3>2. "open" \in HandlerPlaces
        BY DEF HandlerPlaces
    <3>5. PICK n \in 0..Total : n = state'
        BY <1>2
    <3>3. /\ handler' \in [Streams -> Handlers]
          /\ handler'[s].at = "open" /\ handler'[s].next = n
          /\ \A t \in Streams : t # s => handler'[t] = handler[t]
      <4>1. handler' = [handler EXCEPT ![s].at = "open", ![s].next = n]
          BY <3>1, <3>5
      <4>2. handler \in [Streams -> Handlers]
          BY <1>1 DEF StreamTypes
      <4> QED  BY <3>2, <4>1, <4>2 DEF Handlers
    <3>4. /\ wire' \in [Streams -> Messages] /\ wire'[s].type = "RESUME"
          /\ \A t \in Streams : t # s => wire'[t] = wire[t]
        BY <1>1, <1>2, <3>1, SayOnly DEF MessageTypes
    <3> QED  BY <2>1, <3>3, <3>4, <3>5
  <2>2. CASE ~SendAt(s, "resume")
      BY <1>1, <2>2, ReturnOnly DEF Load, StreamTypes
  <2> QED  BY <2>1, <2>2
<1>4. /\ answer' \in [Streams -> {"none", "yes", "no"}] /\ answer'[s] = "none" /\ Entering(s)
      /\ \A t \in Streams : t # s => answer'[t] = answer[t]
    BY <1>1 DEF Load, StreamTypes, Entering
<1>5. StreamTypes' /\ DiskTypes'
    BY <1>1, <1>2, <1>3, <1>4 DEF StreamTypes, DiskTypes, Load
<1>6. /\ \A t \in Streams : Engaged(t)' => Engaged(t)
      /\ \A t \in Streams : Entering(t)' => Entering(t)
      /\ \A t \in Streams : t # s => (InProgress(t)' => InProgress(t))
      /\ \A t \in Streams : HandleAt(t, "open")' => t = s /\ SendAt(s, "resume")
    BY <1>3, <1>4 DEF TransferInv, OneAsked, Engaged, Entering, InProgress, Finishing, Load
<1>7. OneEngaged' /\ OneAsked'
    BY <1>3, <1>6 DEF TransferInv, OneEngaged, OneAsked, Load
<1>8. OpensAlone'
    BY <1>6 DEF TransferInv, OpensAlone, OneEngaged, Engaged, InProgress
<1>9. NoHoles' /\ Arrived'
    BY <1>6 DEF TransferInv, NoHoles, Arrived, Whole, Load
<1>10. \A t \in Streams : Written(t)' /\ Holding(t)'
    BY <1>2, <1>3, <1>6 DEF TransferInv, Written, Holding, Whole, Load
<1>11. \A t \in Streams : Opening(t)'
    BY <1>2, <1>3, <1>6 DEF Opening, Load
<1> QED  BY <1>5, <1>7, <1>8, <1>9, <1>10, <1>11 DEF TransferInv

\* A handler opens the .part file it resumes, or a new one.
LEMMA OpenPartKeeps ==
    ASSUME TransferInv, NEW s \in Streams, OpenPart(s)
    PROVE  TransferInv'
<1> USE DEF SendAt, Holds, HandleAt
<1> DEFINE new == CHOOSE i \in Inodes : i \notin InUse
           i   == IF part = NoFile THEN new ELSE part
<1>1. StreamTypes /\ DiskTypes
    BY DEF TransferInv
<1>2. part = NoFile => new \in Inodes /\ new \notin InUse
    BY <1>1, InodeFree DEF TransferInv, Arrived, StreamTypes, DiskTypes
<1>3. i \in Inodes /\ i # NoFile /\ part' = i
    BY <1>1, <1>2, InodesFinite DEF DiskTypes, OpenPart, NoFile
<1>4. /\ data' \in [Inodes -> SUBSET Chunks]
      /\ \A j \in Inodes : data'[j] = data[j] \/ data'[j] = {}
      /\ \A j \in Inodes \cap InUse : data'[j] = data[j]
  <2>1. CASE part = NoFile
    <3>1. data' = [data EXCEPT ![new] = {}]
        BY <2>1 DEF OpenPart
    <3> HIDE DEF new
    <3> QED  BY <1>1, <1>2, <2>1, <3>1 DEF DiskTypes
  <2>2. CASE part # NoFile
      BY <1>1, <2>2 DEF OpenPart, DiskTypes
  <2> QED  BY <2>1, <2>2
<1>5. handler' = [handler EXCEPT ![s].at = "read", ![s].file = i]
    BY DEF OpenPart
<1>6. UNCHANGED <<sender, wire, consent, state, final, settled>> /\ handler[s].at = "open"
    BY DEF OpenPart
<1> HIDE DEF new, i
<1>7. /\ handler' \in [Streams -> Handlers]
      /\ handler'[s].at = "read" /\ handler'[s].next = handler[s].next /\ handler'[s].file = i
      /\ \A t \in Streams : t # s => handler'[t] = handler[t]
  <2>1. "read" \in HandlerPlaces
      BY DEF HandlerPlaces
  <2>3. PICK j \in Inodes \cup {NoFile} : j = i
      BY <1>3
  <2>2. handler' = [handler EXCEPT ![s].at = "read", ![s].file = j]
      BY <1>5, <2>3
  <2>4. handler \in [Streams -> Handlers]
      BY <1>1 DEF StreamTypes
  <2> QED  BY <2>1, <2>2, <2>3, <2>4 DEF Handlers
<1>8. StreamTypes' /\ DiskTypes'
    BY <1>1, <1>3, <1>4, <1>6, <1>7 DEF StreamTypes, DiskTypes, consent
<1>9. /\ \A t \in Streams : Engaged(t)' => Engaged(t)
      /\ \A t \in Streams : InProgress(t)' => InProgress(t)
      /\ \A t \in Streams : Entering(t)' => Entering(t)
      /\ \A t \in Streams : handler'[t].at # "open"
    BY <1>6, <1>7 DEF TransferInv, OneAsked, Engaged, InProgress, Finishing, Entering, consent
<1>10. OneEngaged' /\ OneAsked' /\ OpensAlone'
    BY <1>6, <1>7, <1>9 DEF TransferInv, OneEngaged, OneAsked, OpensAlone, consent
<1>11. NoHoles'
    BY <1>4 DEF TransferInv, NoHoles
<1>12. Arrived'
  <2>1. \A j \in final : data'[j] = data[j]
      BY <1>1, <1>4 DEF DiskTypes, InUse
  <2> QED  BY <1>6, <1>9, <2>1 DEF TransferInv, Arrived, Whole
<1>13. \A t \in Streams : Written(t)'
  <2>1. Written(s)'
    <3>1. 0..(handler[s].next - 1) \subseteq data'[i]
      <4>1. CASE part = NoFile
          BY <1>6, <4>1 DEF TransferInv, Opening
      <4>2. CASE part # NoFile
        <5>1. i = part /\ data'[i] = data[part]
            BY <1>3, <1>4, <4>2 DEF i, InUse
        <5> QED  BY <1>6, <4>2, <5>1 DEF TransferInv, Opening
      <4> QED  BY <4>1, <4>2
    <3> QED  BY <1>3, <1>7, <3>1 DEF Written
  <2>2. ASSUME NEW t \in Streams, t # s
        PROVE  Written(t)'
    <3>1. handler[t].at \in {"read", "save", "rename"} => data'[handler[t].file] = data[handler[t].file]
        BY <1>4 DEF TransferInv, Written, InUse
    <3> QED  BY <1>7, <2>2, <3>1 DEF TransferInv, Written, Whole
  <2> QED  BY <2>1, <2>2
<1>14. \A t \in Streams : Opening(t)' /\ Holding(t)'
    BY <1>3, <1>6, <1>7, <1>9 DEF TransferInv, OpensAlone, Opening, Holding
<1> QED  BY <1>8, <1>10, <1>11, <1>12, <1>13, <1>14 DEF TransferInv

\* A chunk goes right after those before it, into the handler's own file.
LEMMA TakeChunkKeeps ==
    ASSUME TransferInv, NEW s \in Streams, TakeChunk(s)
    PROVE  TransferInv'
<1> USE DEF SendAt, Holds, HandleAt
<1> DEFINE n == handler[s].next
           i == handler[s].file
<1>1. StreamTypes /\ DiskTypes
    BY DEF TransferInv
<1>2. n \in 0..(Total - 1) /\ i \in Inodes /\ 0..(n - 1) \subseteq data[i]
    BY <1>1, TransferAssumption DEF TransferInv, Written, StreamTypes, Handlers, TakeChunk
<1>3. /\ handler' \in [Streams -> Handlers]
      /\ handler'[s].at = "save" /\ handler'[s].next = n /\ handler'[s].file = i
      /\ \A t \in Streams : t # s => handler'[t] = handler[t]
    BY <1>1, GoesOnly DEF TakeChunk, HandlerPlaces
<1>4. data' = [data EXCEPT ![i] = @ \cup {n}] /\ handler[s].at = "read"
    BY DEF TakeChunk
<1> HIDE DEF n, i
<1>5. /\ data' \in [Inodes -> SUBSET Chunks]
      /\ data'[i] = data[i] \cup {n}
      /\ \A j \in Inodes : j # i => data'[j] = data[j]
    BY <1>1, <1>2, <1>4 DEF DiskTypes, Chunks
<1>6. \A j \in Inodes : data[j] \subseteq data'[j]
    BY <1>5
<1>7. StreamTypes' /\ DiskTypes'
    BY <1>1, <1>3, <1>5 DEF StreamTypes, DiskTypes, TakeChunk, consent
<1>8. /\ \A t \in Streams : Engaged(t)' => Engaged(t)
      /\ \A t \in Streams : InProgress(t)' => InProgress(t)
      /\ \A t \in Streams : Entering(t)' => Entering(t)
    BY <1>3 DEF Engaged, InProgress, Finishing, Entering, TakeChunk, consent
<1>9. OneEngaged' /\ OneAsked' /\ OpensAlone'
    BY <1>3, <1>8 DEF TransferInv, OneEngaged, OneAsked, OpensAlone, TakeChunk, consent
<1>10. NoHoles'
  <2> SUFFICES ASSUME NEW j \in Inodes, NEW c \in data'[j]
               PROVE  0..c \subseteq data'[j]
      BY DEF NoHoles
  <2>1. CASE c \in data[j]
      BY <1>6, <2>1 DEF TransferInv, NoHoles
  <2>2. CASE c \notin data[j]
    <3>1. j = i /\ c = n
        BY <1>5, <2>2
    <3> QED  BY <1>2, <1>5, <3>1, TransferAssumption
  <2> QED  BY <2>1, <2>2
<1>11. Arrived'
  <2>1. \A j \in final : j \in Inodes
      BY <1>1 DEF DiskTypes
  <2> QED  BY <1>6, <1>8, <2>1 DEF TransferInv, Arrived, Whole, TakeChunk
<1>12. \A t \in Streams : Written(t)'
  <2>1. Written(s)'
      BY <1>2, <1>3, <1>5 DEF Written
  <2>2. ASSUME NEW t \in Streams, t # s
        PROVE  Written(t)'
    <3>1. handler[t].at \in {"read", "save", "rename"} => data[handler[t].file] \subseteq data'[handler[t].file]
        BY <1>6 DEF TransferInv, Written
    <3> QED  BY <1>3, <2>2, <3>1 DEF TransferInv, Written, Whole
  <2> QED  BY <2>1, <2>2
<1>13. \A t \in Streams : Opening(t)'
  <2>1. part # NoFile => data[part] \subseteq data'[part]
      BY <1>1, <1>6 DEF DiskTypes
  <2> QED  BY <1>3, <2>1 DEF TransferInv, Opening, TakeChunk
<1>14. \A t \in Streams : Holding(t)'
    BY <1>3, <1>4, <1>8 DEF TransferInv, Holding, TakeChunk, i
<1> QED  BY <1>7, <1>9, <1>10, <1>11, <1>12, <1>13, <1>14 DEF TransferInv

\* The state file may then count another .part file's chunks; the length check
\* of Resumable is made against the .part file itself.
LEMMA SaveKeeps ==
    ASSUME TransferInv, NEW s \in Streams, Save(s)
    PROVE  TransferInv'
<1> USE DEF SendAt, Holds, HandleAt
<1> DEFINE n == handler[s].next + 1
<1>1. StreamTypes /\ DiskTypes
    BY DEF TransferInv
<1>2. n \in 1..Total /\ handler[s].at = "save" /\ 0..(n - 1) \subseteq data[handler[s].file]
  <2>1. /\ handler[s].at = "save" /\ handler[s].file \in Inodes
        /\ handler[s].next \in data[handler[s].file]
        /\ 0..(handler[s].next - 1) \subseteq data[handler[s].file]
      BY DEF TransferInv, Written, Save
  <2>2. handler[s].next \in 0..(Total - 1)
      BY <1>1, <2>1 DEF DiskTypes, Chunks
  <2> QED  BY <2>1, <2>2, TransferAssumption
<1>3. state' = n /\ UNCHANGED <<sender, consent, part, data, final, settled>>
    BY DEF Save
<1>4. /\ handler' \in [Streams -> Handlers] /\ wire' \in [Streams -> Messages]
      /\ \A t \in Streams : t # s => handler'[t] = handler[t] /\ wire'[t] = wire[t]
      /\ \/ /\ handler'[s].at = "read" /\ handler'[s].next = n /\ handler'[s].file = handler[s].file
            /\ wire'[s].type = "ACK" /\ wire'[s].n < Total
         \/ handler'[s].at = "idle" /\ wire'[s].type = "none"
  <2>1. CASE SendAt(s, "ack")
    <3>1. handler' = [handler EXCEPT ![s].at = "read", ![s].next = n] /\ wire' = [wire EXCEPT ![s] = Msg("ACK", n - 1)]
        BY <2>1 DEF Save
    <3> HIDE DEF n
    <3>2. "read" \in HandlerPlaces /\ n \in 0..Total /\ "ACK" \in MessageTypes /\ n - 1 \in 0..Total /\ n - 1 < Total
        BY <1>2, TransferAssumption DEF HandlerPlaces, MessageTypes
    <3>3. /\ handler' \in [Streams -> Handlers]
          /\ handler'[s].at = "read" /\ handler'[s].next = n /\ handler'[s].file = handler[s].file
          /\ \A t \in Streams : t # s => handler'[t] = handler[t]
        BY <1>1, <3>1, <3>2, NextOnly
    <3>4. /\ wire' \in [Streams -> Messages] /\ wire'[s].type = "ACK" /\ wire'[s].n = n - 1
          /\ \A t \in Streams : t # s => wire'[t] = wire[t]
        BY <1>1, <3>1, <3>2, SayOnly
    <3> QED  BY <3>2, <3>3, <3>4
  <2>2. CASE ~SendAt(s, "ack")
      BY <1>1, <2>2, ReturnOnly, SilentOnly DEF Save
  <2> QED  BY <2>1, <2>2
<1> HIDE DEF n
<1>5. StreamTypes' /\ DiskTypes'
    BY <1>1, <1>2, <1>3, <1>4 DEF StreamTypes, DiskTypes, consent
<1>6. /\ \A t \in Streams : Engaged(t)' => Engaged(t)
      /\ \A t \in Streams : InProgress(t)' => InProgress(t)
      /\ \A t \in Streams : Entering(t)' => Entering(t)
      /\ \A t \in Streams : handler'[t].at = "open" => handler'[t] = handler[t]
    BY <1>3, <1>4 DEF Engaged, InProgress, Finishing, Entering, consent
<1>7. OneEngaged' /\ OneAsked' /\ OpensAlone' /\ NoHoles' /\ Arrived'
    BY <1>3, <1>4, <1>6 DEF TransferInv, OneEngaged, OneAsked, OpensAlone, NoHoles, Arrived, Whole, consent
<1>8. \A t \in Streams : Written(t)'
  <2>1. Written(s)'
      BY <1>2, <1>3, <1>4 DEF TransferInv, Written
  <2> QED  BY <1>3, <1>4, <2>1 DEF TransferInv, Written, Whole
<1>9. \A t \in Streams : Opening(t)'
    BY <1>3, <1>6 DEF TransferInv, Opening
<1>10. \A t \in Streams : Holding(t)'
    BY <1>2, <1>3, <1>4, <1>6 DEF TransferInv, Holding
<1> QED  BY <1>5, <1>7, <1>8, <1>9, <1>10 DEF TransferInv

\* After DONE a handler that has every chunk goes on to the rename.
LEMMA DoneKeeps ==
    ASSUME TransferInv, NEW s \in Streams, Done(s)
    PROVE  TransferInv'
<1> USE DEF SendAt, Holds, HandleAt
<1>1. StreamTypes /\ DiskTypes
    BY DEF TransferInv
<1>2. UNCHANGED <<sender, consent, disk, settled>> /\ handler[s].at = "read" /\ wire[s].type = "DONE"
    BY DEF Done
<1>3. /\ wire' \in [Streams -> Messages] /\ wire'[s] = Silence /\ wire'[s].type = "none"
      /\ \A t \in Streams : t # s => wire'[t] = wire[t]
    BY <1>1, SilentOnly DEF Done
<1>4. CASE handler[s].next = Total /\ FullLength(handler[s].file)
  <2>1. /\ handler' \in [Streams -> Handlers]
        /\ handler'[s].at = "rename" /\ handler'[s].file = handler[s].file
        /\ \A t \in Streams : t # s => handler'[t] = handler[t]
      BY <1>1, <1>4, GoesOnly DEF Done, HandlerPlaces
  <2>2. Whole(handler[s].file)
      BY <1>2, <1>4 DEF TransferInv, Written, Whole, Chunks
  <2>3. StreamTypes' /\ DiskTypes'
      BY <1>1, <1>2, <1>3, <2>1 DEF StreamTypes, DiskTypes, consent, disk
  <2>4. /\ \A t \in Streams : Engaged(t)' => Engaged(t)
        /\ \A t \in Streams : InProgress(t)' => InProgress(t)
        /\ \A t \in Streams : Entering(t)' => Entering(t)
        /\ InProgress(s)
      BY <1>2, <1>3, <2>1 DEF Engaged, InProgress, Finishing, Entering, consent
  <2>5. OneEngaged' /\ OneAsked' /\ OpensAlone' /\ NoHoles' /\ Arrived'
      BY <1>2, <1>3, <2>1, <2>4 DEF TransferInv, OneEngaged, OneAsked, OpensAlone, NoHoles, Arrived, Whole, consent, disk
  <2>6. \A t \in Streams : Written(t)' /\ Opening(t)'
      BY <1>2, <2>1, <2>2 DEF TransferInv, Written, Opening, Whole, disk
  <2>7. \A t \in Streams : Holding(t)'
      BY <1>2, <2>1, <2>4 DEF TransferInv, Holding, disk
  <2> QED  BY <2>3, <2>5, <2>6, <2>7 DEF TransferInv
<1>5. CASE ~(handler[s].next = Total /\ FullLength(handler[s].file))
  <2>1. /\ handler' \in [Streams -> Handlers] /\ handler'[s].at = "idle"
        /\ \A t \in Streams : t # s => handler'[t] = handler[t]
      BY <1>1, <1>5, ReturnOnly DEF Done
  <2>2. StreamTypes' /\ DiskTypes'
      BY <1>1, <1>2, <1>3, <2>1 DEF StreamTypes, DiskTypes, consent, disk
  <2> QED  BY <1>2, <1>3, <2>1, <2>2, BackingOff DEF TransferInv, OneAsked, consent, disk
<1> QED  BY <1>4, <1>5

\* What is called .part at the rename is the handler's own file, which is whole.
LEMMA RenameKeeps ==
    ASSUME TransferInv, NEW s \in Streams, Rename(s)
    PROVE  TransferInv'
<1> USE DEF SendAt, Holds, HandleAt
<1>1. StreamTypes /\ DiskTypes
    BY DEF TransferInv
<1>2. /\ UNCHANGED <<sender, wire, consent, state, data, settled>> /\ part' = NoFile
      /\ handler[s].at = "rename" /\ sender[s].at = "idle" /\ wire[s] = Silence /\ wire[s].type = "none"
    BY DEF Rename, TransferInv, OneEngaged, Silence, Msg
<1>3. /\ handler' \in [Streams -> Handlers] /\ handler'[s].at \in {"idle", "forget"}
      /\ \A t \in Streams : t # s => handler'[t] = handler[t]
    BY <1>1, GoesOnly, ReturnOnly DEF Rename, HandlerPlaces
<1>4. final' = final \/ (part \in Inodes /\ final' = final \cup {part})
    BY <1>1 DEF Rename, DiskTypes
<1>5. StreamTypes' /\ DiskTypes'
    BY <1>1, <1>2, <1>3, <1>4 DEF StreamTypes, DiskTypes, consent
<1>6. /\ Engaged(s) /\ InProgress(s)
      /\ \A t \in Streams : ~Engaged(t)'
      /\ \A t \in Streams : ~InProgress(t)'
      /\ \A t \in Streams : Entering(t)' => Entering(t)
      /\ \A t \in Streams : handler'[t].at # "open"
    BY <1>2, <1>3 DEF TransferInv, OneEngaged, OpensAlone, Engaged, InProgress, Finishing, Entering, consent
<1>7. OneEngaged' /\ OneAsked' /\ OpensAlone' /\ NoHoles'
    BY <1>2, <1>3, <1>6 DEF TransferInv, OneEngaged, OneAsked, OpensAlone, NoHoles, consent
<1>8. Arrived'
  <2>1. final = {}
      BY <1>6 DEF TransferInv, Arrived
  <2>2. part # NoFile => Whole(part)
      BY <1>2, <1>6 DEF TransferInv, Written, Holding
  <2>3. part \in Inodes => part # NoFile
      BY InodesFinite DEF NoFile
  <2> QED  BY <1>2, <1>4, <1>6, <2>1, <2>2, <2>3 DEF Arrived, Whole
<1>9. \A t \in Streams : Written(t)' /\ Opening(t)' /\ Holding(t)'
    BY <1>2, <1>3, <1>6 DEF TransferInv, Written, Opening, Holding, Whole
<1> QED  BY <1>5, <1>7, <1>8, <1>9 DEF TransferInv

-----------------------------------------------------------------------------
(* What DeliveredWhole needs holds of every reachable state, whatever fails, *)
(* of a user who sends again only after the attempt before.                 *)
THEOREM TransferInvariance ==
    ASSUME Patient
    PROVE  TransferSpec => []TransferInv
<1>1. TransferInit => TransferInv
  <2> SUFFICES ASSUME TransferInit  PROVE TransferInv
      OBVIOUS
  <2> USE DEF SendAt, Holds, HandleAt
  <2>1. Free \in Handlers /\ Free.at = "idle" /\ Silence \in Messages /\ Silence.type = "none"
      BY TransferAssumption DEF Free, Silence, Msg, Handlers, HandlerPlaces, Messages, MessageTypes
  <2>2. [at |-> "idle", i |-> 0] \in Senders
      BY TransferAssumption DEF Senders, SenderPlaces
  <2>3. StreamTypes /\ DiskTypes
    <3>1. StreamTypes
        BY <2>1, <2>2 DEF TransferInit, StreamTypes
    <3>2. part = NoFile
        BY DEF TransferInit
    <3>5. state \in 0..Total
        BY TransferAssumption DEF TransferInit
    <3>6. settled \in BOOLEAN
        BY DEF TransferInit
    <3>3. data \in [Inodes -> SUBSET Chunks]
        BY DEF TransferInit
    <3>4. DiskTypes
        BY <3>2, <3>3, <3>5, <3>6 DEF TransferInit, DiskTypes
    <3> QED  BY <3>1, <3>4
  <2>4. \A t \in Streams : ~Engaged(t) /\ ~InProgress(t) /\ ~Entering(t) /\ handler[t].at = "idle"
      BY <2>1 DEF TransferInit, Engaged, InProgress, Finishing, Entering
  <2>5. OneEngaged /\ OneAsked /\ OpensAlone /\ NoHoles /\ Arrived
      BY <2>1, <2>4 DEF TransferInit, OneEngaged, OneAsked, OpensAlone, NoHoles, Arrived
  <2>6. \A t \in Streams : Written(t) /\ Opening(t) /\ Holding(t)
      BY <2>4 DEF Written, Opening, Holding
  <2> QED  BY <2>3, <2>5, <2>6 DEF TransferInv
<1>2. TransferInv /\ [TransferNext]_transferVars => TransferInv'
  <2> SUFFICES ASSUME TransferInv, [TransferNext]_transferVars  PROVE TransferInv'
      OBVIOUS
  <2>1. ASSUME NEW s \in Streams, Send(s) \/ Sending(s) \/ SendFails(s) \/ Ask(s)
        PROVE  TransferInv'
      BY <2>1, SendKeeps, ResumeKeeps, AckedKeeps, SendFailsKeeps, AskKeeps DEF Sending
  <2>2. ASSUME NEW s \in Streams, Handling(s)
        PROVE  TransferInv'
      BY <2>2, RefuseKeeps, TellKeeps, NotAcceptedKeeps, LoadKeeps, OpenPartKeeps, TakeChunkKeeps,
         SaveKeeps, DoneKeeps, RenameKeeps, ForgetKeeps, ReadFailsKeeps DEF Handling
  <2>3. CASE Poll \/ Settle
      BY <2>3, PollKeeps
  <2>4. ASSUME NEW yes \in {"yes", "no"}, Respond(yes)
        PROVE  TransferInv'
      BY <2>4, RespondKeeps
  <2>5. CASE Crash
      BY <2>5, CrashKeeps
  <2>6. CASE UNCHANGED transferVars
    <3>1. StreamTypes' /\ DiskTypes'
        BY <2>6 DEF TransferInv, StreamTypes, DiskTypes, SendAt, Holds, transferVars, consent, disk
    <3> QED  BY <2>6, <3>1, BackingOff DEF TransferInv, OneAsked, transferVars, consent, disk
  <2> QED  BY <2>1, <2>2, <2>3, <2>4, <2>5, <2>6 DEF TransferNext
<1> QED  BY <1>1, <1>2, PTL DEF TransferSpec

(* A file that was given its name has every chunk, whichever of overlapping *)
(* attempts wrote them, and a transfer is resumed after the chunks the .part *)
(* file has, for any number of streams and chunks.                          *)
THEOREM AlwaysWhole ==
    ASSUME Patient
    PROVE  TransferSpec => []DeliveredWhole
<1>1. TransferInv => DeliveredWhole
    BY TransferInvSafe
<1> QED  BY <1>1, TransferInvariance, PTL
=============================================================================
