--------------------------- MODULE AgentCheckpoint ---------------------------
(***************************************************************************)
(* One-click undo of an agent turn (agentCheckpoint.ts, agentRunner.ts and  *)
(* the command codesetu.revertLastAgentEdits of extension.ts).  Every turn  *)
(* has a checkpoint; the file writes of its tools go through it; the        *)
(* checkpoint of the last turn that resolved with edits is kept for the     *)
(* command, which asks the user and then restores file after file.          *)
(*                                                                         *)
(* A panel runs one turn at a time, but the turn of a closed panel goes on  *)
(* beside that of the next one.  The command awaits the user and the disk,  *)
(* so turns, the user's own edits and a second invocation of the command    *)
(* may come in between.                                                    *)
(***************************************************************************)
EXTENDS Integers, Sequences

CONSTANTS
  Files,        \* files the agent may write
  Commands,     \* invocations of the revert command
  Created,      \* files that do not exist at the start
  NonUtf8,      \* files whose text is not valid UTF-8
  ReadsFail,    \* may a file that exists be unreadable (locked, no permission)?
  TurnsFail,    \* may a turn end with an error (the provider's)?
  UserEdits,    \* may the user edit files meanwhile?
  MaxAgentTurns, \* bound: turns
  MaxWrites     \* bound: tool writes of all turns

ASSUME CheckpointAssumption ==
  /\ Created \subseteq Files
  /\ NonUtf8 \subseteq Files
  /\ {ReadsFail, TurnsFail, UserEdits} \subseteq BOOLEAN
  /\ {MaxAgentTurns, MaxWrites} \subseteq Nat

VARIABLES
  disk,      \* what each file holds
  running,   \* the turns in flight
  agentTurns, \* turns begun
  writes,    \* tool writes begun
  pending,   \* per turn: the file captured and about to be written, or NoFile
  snaps,     \* per turn: the checkpoint's snapshots, in the order taken
  last,      \* lastAgentCheckpoint: a turn, 0 for undefined
  command,   \* per invocation of the revert command: where it is
  before,    \* history: the disk when the turn began
  mixed,     \* history: turns since whose beginning others wrote too
  edited,    \* history: turns that changed a file
  unread     \* history: <<turn, file>> where the file was there, but could not be read

checkpointVars ==
  <<disk, running, agentTurns, writes, pending, snaps, last, command, before, mixed, edited,
    unread>>

-----------------------------------------------------------------------------
(* File contents, by who wrote them: turn 0 is everyone else.               *)

Content(turn, nth) == [by |-> turn, nth |-> nth]
Absent == Content(0, 0)
Original == Content(0, 1)
Garbled == Content(0, 2)    \* Original, decoded as UTF-8 and encoded again
Edited == Content(0, 3)     \* the user's edit

NoFile == "no file"
Turn == 1 .. MaxAgentTurns

Captured(t) == {snaps[t][i].file : i \in DOMAIN snaps[t]}

\* What of a file's text survives decoding.
Decoded(f, text) == IF text = Original /\ f \in NonUtf8 THEN Garbled ELSE text

\* fs.readFile(path, "utf8") in capture: what cannot be read counts as absent.
Reads(f) == {Decoded(f, disk[f])} \union {t \in {Absent} : ReadsFail}

Others(t) == {u \in 1 .. agentTurns : u # t}

Idle == [at |-> "off", shown |-> 0, turn |-> 0, todo |-> << >>, failed |-> FALSE]

-----------------------------------------------------------------------------
CheckpointInit ==
  /\ disk = [f \in Files |-> IF f \in Created THEN Absent ELSE Original]
  /\ running = {}
  /\ agentTurns = 0
  /\ writes = 0
  /\ pending = [t \in Turn |-> NoFile]
  /\ snaps = [t \in Turn |-> << >>]
  /\ last = 0
  /\ command = [c \in Commands |-> Idle]
  /\ before = [t \in Turn |-> disk]
  /\ mixed = {}
  /\ edited = {}
  /\ unread = {}

\* runAgentTurn creates the checkpoint with the turn.
BeginTurn ==
  /\ agentTurns < MaxAgentTurns
  /\ running' = running \union {agentTurns + 1}
  /\ agentTurns' = agentTurns + 1
  /\ before' = [before EXCEPT ![agentTurns + 1] = disk]
  /\ UNCHANGED <<disk, writes, pending, snaps, last, command, mixed, edited, unread>>

\* A turn is about to write the file.
Writes(t, f) ==
  /\ t \in running
  /\ pending[t] = NoFile
  /\ writes < MaxWrites
  /\ writes' = writes + 1
  /\ pending' = [pending EXCEPT ![t] = f]
  /\ UNCHANGED <<disk, running, agentTurns, last, command, before, mixed, edited>>

Snap(f, text) == [file |-> f, original |-> text]

\* A plausible slip: every write takes a new snapshot.
CaptureAgain(t, f) ==
  /\ Writes(t, f)
  /\ snaps' = [snaps EXCEPT ![t] = Append(SelectSeq(@, LAMBDA s : s.file # f),
                                         Snap(f, Decoded(f, disk[f])))]
  /\ UNCHANGED unread

\* A plausible slip: a file that does not exist is not captured.
CaptureExisting(t, f) ==
  /\ Writes(t, f)
  /\ snaps' = IF f \in Captured(t) \/ disk[f] = Absent THEN snaps
              ELSE [snaps EXCEPT ![t] = Append(@, Snap(f, Decoded(f, disk[f])))]
  /\ UNCHANGED unread

\* A plausible slip: the snapshot holds the file's name where its text belongs.
CapturePath(t, f) ==
  /\ Writes(t, f)
  /\ snaps' = IF f \in Captured(t) THEN snaps
              ELSE [snaps EXCEPT ![t] = Append(@, Snap(f, f))]
  /\ UNCHANGED unread

\* The checkpointing host's writeFile, first half: WorkspaceCheckpoint.capture,
\* which keeps the first snapshot of a file.
Capture(t, f) ==
  /\ Writes(t, f)
  /\ IF f \in Captured(t)
       THEN UNCHANGED <<snaps, unread>>
       ELSE \E text \in Reads(f) :
              /\ snaps' = [snaps EXCEPT ![t] = Append(@, Snap(f, text))]
              /\ unread' = IF text = Absent /\ disk[f] # Absent
                             THEN unread \union {<<t, f>>} ELSE unread

\* Second half: the wrapped host writes the file, or throws (outside the root,
\* no permission), which the tool loop turns into an error result.
Write(t) ==
  /\ pending[t] # NoFile
  /\ \/ /\ disk' = [disk EXCEPT ![pending[t]] = Content(t, writes)]
        /\ mixed' = mixed \union Others(t)
        /\ edited' = edited \union {t}
     \/ UNCHANGED <<disk, mixed, edited>>
  /\ pending' = [pending EXCEPT ![t] = NoFile]
  /\ UNCHANGED <<running, agentTurns, writes, snaps, last, command, before, unread>>

\* The loop resolved: a checkpoint that is not empty becomes the last one.
EndTurn(t) ==
  /\ t \in running
  /\ pending[t] = NoFile
  /\ last' = IF snaps[t] = << >> THEN last ELSE t
  /\ running' = running \ {t}
  /\ UNCHANGED <<disk, agentTurns, writes, pending, snaps, command, before, mixed, edited,
                 unread>>

\* The loop threw: runAgentTurn does not get to onCheckpoint.
FailTurn(t) ==
  /\ TurnsFail
  /\ t \in running
  /\ pending[t] = NoFile
  /\ running' = running \ {t}
  /\ UNCHANGED <<disk, agentTurns, writes, pending, snaps, last, command, before,
                 mixed, edited, unread>>

UserEdit(f) ==
  /\ UserEdits
  /\ disk[f] # Edited
  /\ disk' = [disk EXCEPT ![f] = Edited]
  /\ mixed' = mixed \union (1 .. agentTurns)
  /\ UNCHANGED <<running, agentTurns, writes, pending, snaps, last, command,
                 before, edited, unread>>

-----------------------------------------------------------------------------
(* The command.                                                            *)

Become(c, state) == command' = [command EXCEPT ![c] = state]

\* There is something to revert: show its files in a modal dialog (one at a time).
RevertAsk(c) ==
  /\ command[c].at = "off"
  /\ last # 0
  /\ \A d \in Commands : command[d].at # "confirm"
  /\ Become(c, [Idle EXCEPT !.at = "confirm", !.shown = last])
  /\ UNCHANGED <<disk, running, agentTurns, writes, pending, snaps, last, before,
                 mixed, edited, unread>>

RevertDismissed(c) ==
  /\ command[c].at = "confirm"
  /\ Become(c, Idle)
  /\ UNCHANGED <<disk, running, agentTurns, writes, pending, snaps, last, before,
                 mixed, edited, unread>>

\* The user confirmed: the variable is read again; if it is undefined by now, the
\* command throws.
RevertConfirmed(c) ==
  /\ command[c].at = "confirm"
  /\ IF last = 0
       THEN Become(c, Idle)
       ELSE Become(c, [command[c] EXCEPT !.at = "reverting", !.turn = last,
                                         !.todo = snaps[last]])
  /\ UNCHANGED <<disk, running, agentTurns, writes, pending, snaps, last, before,
                 mixed, edited, unread>>

\* A plausible slip: a file the turn created is left behind.
RestoreExistingOnly(c) ==
  /\ command[c].at = "reverting"
  /\ command[c].todo # << >>
  /\ LET s == Head(command[c].todo)
     IN disk' = IF s.original = Absent THEN disk
                ELSE [disk EXCEPT ![s.file] = s.original]
  /\ mixed' = mixed \union Others(command[c].turn)
  /\ Become(c, [command[c] EXCEPT !.todo = Tail(@)])
  /\ UNCHANGED <<running, agentTurns, writes, pending, snaps, last, before, edited,
                 unread>>

\* WorkspaceCheckpoint.revert, one file: rewritten or removed.
Restore(c) ==
  /\ command[c].at = "reverting"
  /\ command[c].todo # << >>
  /\ LET s == Head(command[c].todo)
     IN disk' = [disk EXCEPT ![s.file] = s.original]
  /\ mixed' = mixed \union Others(command[c].turn)
  /\ Become(c, [command[c] EXCEPT !.todo = Tail(@)])
  /\ UNCHANGED <<running, agentTurns, writes, pending, snaps, last, before, edited,
                 unread>>

\* ... or the disk refuses: counted, and the next file is tried.
RestoreFails(c) ==
  /\ command[c].at = "reverting"
  /\ command[c].todo # << >>
  /\ Become(c, [command[c] EXCEPT !.todo = Tail(@), !.failed = TRUE])
  /\ UNCHANGED <<disk, running, agentTurns, writes, pending, snaps, last, before,
                 mixed, edited, unread>>

\* All files done: the variable is cleared, whatever it holds by now.
RevertDone(c) ==
  /\ command[c].at = "reverting"
  /\ command[c].todo = << >>
  /\ last' = 0
  /\ Become(c, Idle)
  /\ UNCHANGED <<disk, running, agentTurns, writes, pending, snaps, before, mixed, edited,
                 unread>>

CheckpointNext ==
  \/ BeginTurn
  \/ \E f \in Files : UserEdit(f) \/ \E t \in Turn : Capture(t, f)
  \/ \E t \in Turn : Write(t) \/ EndTurn(t) \/ FailTurn(t)
  \/ \E c \in Commands :
       \/ RevertAsk(c)
       \/ RevertDismissed(c)
       \/ RevertConfirmed(c)
       \/ Restore(c)
       \/ RestoreFails(c)
       \/ RevertDone(c)

CheckpointSpec == CheckpointInit /\ [][CheckpointNext]_checkpointVars

-----------------------------------------------------------------------------
(* Properties.                                                              *)

Contents == [by : 0 .. MaxAgentTurns, nth : 0 .. MaxWrites + 3]
Snapshot == [file : Files, original : Contents]

CheckpointTypeOK ==
  /\ disk \in [Files -> Contents]
  /\ running \subseteq 1 .. agentTurns
  /\ agentTurns \in 0 .. MaxAgentTurns
  /\ writes \in 0 .. MaxWrites
  /\ pending \in [Turn -> Files \union {NoFile}]
  /\ snaps \in [Turn -> Seq(Snapshot)]
  /\ last \in 0 .. agentTurns
  /\ command \in [Commands -> [at : {"off", "confirm", "reverting"},
                               shown : 0 .. MaxAgentTurns, turn : 0 .. MaxAgentTurns,
                               todo : Seq(Snapshot), failed : BOOLEAN]]
  /\ before \in [Turn -> [Files -> Contents]]
  /\ mixed \subseteq Turn
  /\ edited \subseteq Turn
  /\ unread \subseteq Turn \X Files

\* A snapshot holds what the file held before the turn first wrote it, never one
\* of the turn's own versions: reverting cannot restore half a turn.
SnapshotsPredateTurn ==
  \A t \in Turn : \A i \in DOMAIN snaps[t] : snaps[t][i].original.by # t

\* Whatever a turn left on disk it can undo: the file is in its checkpoint, also
\* if the turn is still running or ended in an error.
EveryWriteCaptured ==
  \A f \in Files : disk[f].by # 0 => f \in Captured(disk[f].by)

\* What the turn's checkpoint can give back of a file: nothing, if it could not be
\* read, and else its text as far as it is UTF-8.
Kept(t, f) == IF <<t, f>> \in unread THEN Absent ELSE Decoded(f, before[t][f])

Ends(c) == command[c].at = "reverting" /\ command'[c].at = "off" /\ ~command[c].failed

\* After a revert that met no error, every file the turn was about to write holds
\* what it was read as before the turn -- it is deleted if it was not there, or
\* could not be read -- and every other file what it held, unless someone else
\* wrote in between (agentCheckpoint.ts:31-33, 52).
RevertUndoes ==
  [][\A c \in Commands : Ends(c) /\ command[c].turn \notin mixed =>
       LET t == command[c].turn
       IN \A f \in Files :
            disk[f] = IF f \in Captured(t) THEN Kept(t, f) ELSE before[t][f]]_checkpointVars

-----------------------------------------------------------------------------
(* What the documentation says, and the code does not do: TLC refutes each   *)
(* when a cfg names it (README.md).                                          *)

\* agentCheckpoint.ts:66: "Restore every captured file to its pre-turn state" -- a
\* revert that met no error puts the workspace back where it was before the turn.
RevertRestores ==
  [][\A c \in Commands : Ends(c) /\ command[c].turn \notin mixed =>
       disk = before[command[c].turn]]_checkpointVars

\* agentCheckpoint.ts:31: "so the whole turn's file changes can be undone in one
\* click" -- the last turn whose edits are on disk is the one the command has.
LastEditsUndoable ==
  (running = {} /\ \A c \in Commands : command[c].at = "off") =>
    \A f \in Files :
      disk[f].by # 0 /\ (\A g \in Files : disk[g].by <= disk[f].by)
        => last = disk[f].by

\* agentRunner.ts:73: the caller receives "the turn's file checkpoint when it
\* edited at least one file".
CheckpointMeansEdits == last # 0 => last \in edited

\* extension.ts:132: the variable holds "the most recent agent turn's file
\* checkpoint" -- a revert clears the one it reverted, not a later turn's.
ClearsOwnCheckpoint ==
  [][\A c \in Commands :
       (command[c].at = "reverting" /\ command'[c].at = "off")
         => last \in {0, command[c].turn}]_checkpointVars

\* extension.ts:372: the user is shown the files that will be restored.
ConfirmedIsReverted ==
  \A c \in Commands : command[c].at = "reverting" => command[c].turn = command[c].shown

=============================================================================
