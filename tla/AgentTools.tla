----------------------------- MODULE AgentTools -----------------------------
(***************************************************************************)
(* The agent's tools (core/src/agent/tools.ts) on the workspace of the host  *)
(* (vscode/src/agentHost.ts), beside the user, who types and saves, and the  *)
(* edit command (vscode/src/editCommand.ts), which rewrites a part of the    *)
(* document on screen.  Each await is a step of its own: in between, the     *)
(* others go on.  A text is a sequence of lines.                             *)
(***************************************************************************)
EXTENDS LineDiff, ShellExec, Scans, FiniteSets, TLC

CONSTANTS
  Words,         \* the lines there are
  Files,         \* the files of the workspace, in the order of their names
  Opened,        \* the one that is open in the editor
  Disks,         \* what the workspace may hold at first
  Texts,         \* texts the user and the model write
  Olds, News,    \* arguments of edit_file
  Pattern,       \* line that grep looks for
  Binary,        \* line of a file that is not text
  MaxDiffLines, MaxGrepFiles, MaxGrepMatches, MaxGlobFiles, MaxHits,  \* the code's caps, scaled down
  MaxCalls, MaxEdits  \* bounds: calls of the agent; edits of the user and of the command

VARIABLES
  disk,     \* the files' texts; << >> also stands for a file that is not there
  doc,      \* the document of the opened file
  call,     \* the agent's call
  command,  \* the edit command
  calls, edits

vars == <<disk, doc, call, command, calls, edits, shell, stopped>>
fileVars == <<disk, doc>>

FileSet == ToSet(Files)

ASSUME ToolsAssumption ==
  /\ Files \in Seq(FileSet) /\ Opened \in FileSet
  /\ Disks \subseteq [FileSet -> Seq(Words)]
  /\ Texts \subseteq Seq(Words) /\ Olds \subseteq Seq(Words) /\ News \subseteq Seq(Words)
  /\ Fence \in Words
  /\ {MaxGrepFiles, MaxGrepMatches, MaxHits} \subseteq Nat

\* The places where a line of a text is that word.
Places(text, word) == Filter([i \in DOMAIN text |-> i], {i \in DOMAIN text : text[i] = word})

NoCall == [phase |-> "none", tool |-> "none", file |-> Opened, old |-> << >>, new |-> << >>,
           all |-> FALSE, shown |-> << >>, seen |-> << >>, moved |-> FALSE,
           matches |-> << >>, files |-> << >>, next |-> 1, touched |-> {}, unread |-> {},
           result |-> [error |-> FALSE]]

NoCommand == [phase |-> "none", start |-> 0, end |-> 0, target |-> << >>, new |-> << >>,
              proposed |-> << >>, moved |-> FALSE]

Init ==
  /\ disk \in Disks
  /\ doc = [text |-> disk[Opened], dirty |-> FALSE]
  /\ call = NoCall /\ command = NoCommand
  /\ calls = 0 /\ edits = 0
  /\ ShellInit

\* A file is written: what was learnt of it before is out of date.
WriteDisk(f, text) ==
  disk' = [disk EXCEPT ![f] = text]

Outdated(f) ==
  call' = IF call.phase = "none" THEN call
          ELSE [call EXCEPT !.moved = @ \/ f = call.file,
                            !.touched = IF call.tool = "grep" THEN @ \cup {f} ELSE @]

-----------------------------------------------------------------------------
(* The user and the editor.                                                  *)

\* What was learnt of the document before, too.
DocChanges(text, dirty, cmd) ==
  /\ doc' = [text |-> text, dirty |-> dirty]
  /\ command' = IF cmd.phase = "none" THEN cmd ELSE [cmd EXCEPT !.moved = TRUE]
  /\ call' = IF call.phase = "refs" THEN [call EXCEPT !.moved = TRUE] ELSE call

Types ==
  /\ edits < MaxEdits /\ edits' = edits + 1
  /\ \E text \in Texts \ {doc.text} : DocChanges(text, TRUE, command)
  /\ UNCHANGED <<disk, calls, shell, stopped>>

SavesDocument ==
  /\ doc.dirty
  /\ doc' = [doc EXCEPT !.dirty = FALSE]
  /\ WriteDisk(Opened, doc.text)
  /\ Outdated(Opened)
  /\ UNCHANGED <<command, calls, edits, shell, stopped>>

\* A document that was not changed follows its file.
Reloads ==
  /\ ~doc.dirty /\ doc.text # disk[Opened]
  /\ DocChanges(disk[Opened], FALSE, command)
  /\ UNCHANGED <<disk, calls, edits, shell, stopped>>

-----------------------------------------------------------------------------
(* A call of the agent, from its preview to its result.                      *)

Asks(c) ==
  /\ call.phase \in {"none", "done"} /\ calls < MaxCalls /\ ~stopped
  /\ calls' = calls + 1
  /\ call' = c
  /\ UNCHANGED <<disk, doc, command, edits, shell, stopped>>

AsksWrite ==
  \E f \in FileSet, text \in Texts :
    Asks([NoCall EXCEPT !.phase = "preview", !.tool = "write_file", !.file = f, !.new = text])

AsksEdit ==
  \E f \in FileSet, old \in Olds, new \in News, all \in BOOLEAN :
    Asks([NoCall EXCEPT !.phase = "preview", !.tool = "edit_file", !.file = f,
                        !.old = old, !.new = new, !.all = all])

AsksBash == Asks([NoCall EXCEPT !.phase = "ask", !.tool = "bash"])

AsksSafe ==
  \E tool \in {"read_file", "grep", "glob", "list_dir", "todo_write",
               "find_symbol", "find_references"} :
    \E f \in IF tool = "read_file" THEN FileSet ELSE {Opened} :
      Asks([NoCall EXCEPT !.phase = "run", !.tool = tool, !.file = f])

\* preview: write_file reads the file, edit_file only its arguments.  A file that
\* cannot be read is shown as one that is created.
Preview ==
  /\ call.phase = "preview"
  /\ \E unread \in IF call.tool = "write_file" THEN {{}, {call.file}} ELSE {{}} :
       call' = [call EXCEPT !.phase = "ask", !.moved = FALSE, !.unread = unread,
                  !.shown = DiffLines(IF unread # {} THEN << >>
                                      ELSE IF call.tool = "write_file" THEN disk[call.file]
                                      ELSE call.old, call.new, MaxDiffLines)]
  /\ UNCHANGED <<disk, doc, command, calls, edits, shell, stopped>>

Approves ==
  /\ call.phase = "ask"
  /\ call' = [call EXCEPT !.phase = "run"]
  /\ UNCHANGED <<disk, doc, command, calls, edits, shell, stopped>>

Denies ==
  /\ call.phase = "ask"
  /\ call' = NoCall
  /\ UNCHANGED <<disk, doc, command, calls, edits, shell, stopped>>

Answer(result, matches) ==
  [NoCall EXCEPT !.phase = "done", !.tool = call.tool, !.result = result, !.matches = matches,
     !.files = call.files, !.touched = call.touched, !.unread = call.unread]
Done(result) == call' = Answer(result, call.matches)
Fail == [error |-> TRUE]
Ok == [error |-> FALSE]

\* A write that fails leaves the file; the result says so.
WriteFails ==
  /\ (call.tool = "write_file" /\ call.phase = "run") \/ call.phase = "write"
  /\ Done(Fail)
  /\ UNCHANGED <<disk, doc, command, calls, edits, shell, stopped>>

ExecuteWrite ==
  /\ call.phase = "run" /\ call.tool = "write_file"
  /\ WriteDisk(call.file, call.new)
  /\ Done(Ok)
  /\ UNCHANGED <<doc, command, calls, edits, shell, stopped>>

\* edit_file reads, and gives up if it cannot, or the text is not there, or not
\* just once.
ReadsForEdit ==
  /\ call.phase = "run" /\ call.tool = "edit_file"
  /\ LET places == Occurrences(disk[call.file], call.old)
     IN \/ Done(Fail)
        \/ /\ call.old # call.new /\ places # << >> /\ (Len(places) = 1 \/ call.all)
           /\ call' = [call EXCEPT !.phase = "write", !.seen = disk[call.file], !.moved = FALSE]
  /\ UNCHANGED <<disk, doc, command, calls, edits, shell, stopped>>

\* It writes what it made of the text it read.
ExecuteEdit ==
  /\ call.phase = "write"
  /\ WriteDisk(call.file, IF call.all THEN ReplaceEvery(call.seen, call.old, call.new)
                          ELSE ReplaceFirst(call.seen, call.old, call.new))
  /\ Done(Ok)
  /\ UNCHANGED <<doc, command, calls, edits, shell, stopped>>

ExecuteRead ==
  /\ call.phase = "run" /\ call.tool = "read_file"
  /\ \/ Done(Fail)
     \/ \E offset, limit \in 1 .. 2 :
          LET text == disk[call.file]
              end == IF offset - 1 + limit > Len(text) THEN Len(text) ELSE offset - 1 + limit
          IN Done([error |-> FALSE, lines |-> [i \in offset .. end |-> text[i]]])
  /\ UNCHANGED <<disk, doc, command, calls, edits, shell, stopped>>

\* The host's glob: what some pattern matches, or so many of it.
Globbed == {found \in SUBSET FileSet : Cardinality(found) <= MaxGlobFiles}

ExecuteGlob ==
  /\ call.phase = "run" /\ call.tool = "glob"
  /\ \/ Done(Fail)
     \/ \E found \in Globbed : Done([error |-> FALSE, files |-> Filter(Files, found)])
  /\ UNCHANGED <<disk, doc, command, calls, edits, shell, stopped>>

\* The root's entries, or an error.
ExecuteList ==
  /\ call.phase = "run" /\ call.tool = "list_dir"
  /\ Done(Fail) \/ Done([error |-> FALSE, files |-> Files])
  /\ UNCHANGED <<disk, doc, command, calls, edits, shell, stopped>>

\* The task list is nothing but its own result.
ExecuteTodo ==
  /\ call.phase = "run" /\ call.tool = "todo_write"
  /\ Done(Ok)
  /\ UNCHANGED <<disk, doc, command, calls, edits, shell, stopped>>

-----------------------------------------------------------------------------
(* The language server, which knows the document on screen, saved or not.    *)

Lines(word) == Places(doc.text, word)

\* So many places, and how many more there are.
Capped(places) ==
  LET kept == IF Len(places) <= MaxHits THEN Len(places) ELSE MaxHits
  IN [error |-> FALSE, lines |-> SubSeq(places, 1, kept), more |-> Len(places) - kept]

FindsSymbol ==
  /\ call.phase = "run" /\ call.tool = "find_symbol"
  /\ Done(Capped(Lines(Pattern)))
  /\ UNCHANGED <<disk, doc, command, calls, edits, shell, stopped>>

\* find_references asks where the symbol is, and then what refers to that place.
ResolvesSymbol ==
  /\ call.phase = "run" /\ call.tool = "find_references"
  /\ IF Lines(Pattern) = << >> THEN Done(Capped(<< >>))
     ELSE call' = [call EXCEPT !.phase = "refs", !.next = Lines(Pattern)[1], !.moved = FALSE]
  /\ UNCHANGED <<disk, doc, command, calls, edits, shell, stopped>>

FindsReferences ==
  /\ call.phase = "refs"
  /\ Done(Capped(IF call.next \in DOMAIN doc.text THEN Lines(doc.text[call.next]) ELSE << >>))
  /\ UNCHANGED <<disk, doc, command, calls, edits, shell, stopped>>

-----------------------------------------------------------------------------
(* grep: the files of a glob are read one after the other.                   *)

GrepStarts ==
  /\ call.phase = "run" /\ call.tool = "grep"
  /\ \/ Done(Fail)
     \/ \E found \in Globbed :
          call' = [call EXCEPT !.phase = "grep", !.next = 1, !.touched = {},
                          !.files = Filter(Files, found)]
  /\ UNCHANGED <<disk, doc, command, calls, edits, shell, stopped>>

GrepGoesOn ==
  /\ call.next <= Len(call.files)
  /\ call.next <= MaxGrepFiles
  /\ Len(call.matches) < MaxGrepMatches

\* A plausible slip: the cap is compared before the match is counted.
MatchesOneLess(f, text, room) ==
  LET lines == Places(text, Pattern)
      kept == IF Len(lines) < room THEN Len(lines) ELSE room - 1
  IN [k \in 1 .. kept |-> <<f, lines[k]>>]

\* The matches of a text, as many as there is room for.
Matches(f, text, room) ==
  LET lines == Places(text, Pattern)
      kept == IF Len(lines) <= room THEN Len(lines) ELSE room
  IN [k \in 1 .. kept |-> <<f, lines[k]>>]

\* A file that cannot be read is passed over like one that is not text.
GrepFile ==
  /\ call.phase = "grep" /\ GrepGoesOn
  /\ LET f == call.files[call.next]
     IN \/ call' = [call EXCEPT !.next = @ + 1, !.unread = @ \cup {f}]
        \/ call' = [call EXCEPT !.next = @ + 1,
             !.matches = IF Binary \in ToSet(disk[f]) THEN @
                         ELSE @ \o Matches(f, disk[f], MaxGrepMatches - Len(@))]
  /\ UNCHANGED <<disk, doc, command, calls, edits, shell, stopped>>

\* The note is about the matches alone: files that were not looked at, or could not
\* be read, go unsaid.  An output that is too long is cut anywhere, with another
\* note, and loses its end, the first note included.
GrepEnds ==
  /\ call.phase = "grep" /\ ~GrepGoesOn
  /\ \/ Done([error |-> FALSE, stopped |-> Len(call.matches) >= MaxGrepMatches, truncated |-> FALSE])
     \/ /\ call.matches # << >>
        /\ \E left \in 0 .. Len(call.matches) :
             call' = Answer([error |-> FALSE, stopped |-> FALSE, truncated |-> TRUE],
                            SubSeq(call.matches, 1, left))
  /\ UNCHANGED <<disk, doc, command, calls, edits, shell, stopped>>

-----------------------------------------------------------------------------
(* bash.                                                                     *)

SpawnFails ==
  /\ call.phase = "run" /\ call.tool = "bash"
  /\ Done([error |-> TRUE, code |-> "null", timedOut |-> FALSE])
  /\ UNCHANGED <<disk, doc, command, calls, edits, shell, stopped>>

StartsShell ==
  /\ call.phase = "run" /\ call.tool = "bash"
  /\ shell' = Spawned
  /\ call' = [call EXCEPT !.phase = "shell"]
  /\ UNCHANGED <<disk, doc, command, calls, edits, stopped>>

ShellStep ==
  /\ Forks \/ Exits \/ HeirExits \/ TimerFires \/ Stop
  /\ UNCHANGED <<disk, doc, call, command, calls, edits>>

Finished ==
  /\ Closed
  /\ shell' = NoShell
  /\ Done(ShellResult)
  /\ UNCHANGED <<disk, doc, command, calls, edits, stopped>>

-----------------------------------------------------------------------------
(* The edit command.  The range it was started on is kept as it is until the *)
(* edit is applied, whatever happens to the document.                        *)

CommandStarts ==
  /\ command.phase = "none" /\ edits < MaxEdits /\ edits' = edits + 1
  /\ \E start, end \in 0 .. Len(doc.text) :
       /\ start < end
       /\ command' = [NoCommand EXCEPT !.phase = "asked", !.start = start, !.end = end,
                        !.target = SubSeq(doc.text, start + 1, end)]
  /\ UNCHANGED <<disk, doc, call, calls, shell, stopped>>

Within(i) == IF i <= Len(doc.text) THEN i ELSE Len(doc.text)

\* The present document with the range replaced: what the review shows.
Replaced(text) == Splice(doc.text, Within(command.start), Within(command.end), text)

\* The model answers, with or without fences; no text, no edit.
CommandAnswered ==
  /\ command.phase = "asked"
  /\ \E code \in Texts, fenced \in BOOLEAN :
       LET new == StripCodeFences(IF fenced THEN <<Fence>> \o code \o <<Fence>> ELSE code)
       IN command' = IF new = << >> THEN NoCommand
                     ELSE [command EXCEPT !.phase = "review", !.new = new,
                                          !.proposed = Replaced(new)]
  /\ UNCHANGED <<disk, doc, call, calls, edits, shell, stopped>>

\* The user gives no instruction, the request fails, or the edit is discarded.
CommandEnds ==
  /\ command.phase # "none"
  /\ command' = NoCommand
  /\ UNCHANGED <<disk, doc, call, calls, edits, shell, stopped>>

\* Apply, or some of the hunks if there are several.
CommandApplies(accepted) ==
  LET hunks == ComputeHunks(command.target, command.new)
  IN /\ command.phase = "review"
     /\ \/ accepted = DOMAIN hunks
        \/ Len(hunks) > 1 /\ accepted # {} /\ accepted \subseteq DOMAIN hunks
     /\ DocChanges(Replaced(IF accepted = DOMAIN hunks THEN command.new
                            ELSE ApplyHunks(command.target, hunks, accepted)), TRUE, NoCommand)
     /\ UNCHANGED <<disk, calls, edits, shell, stopped>>

Next ==
  \/ Types \/ SavesDocument \/ Reloads
  \/ AsksWrite \/ AsksEdit \/ AsksBash \/ AsksSafe
  \/ Preview \/ Approves \/ Denies
  \/ WriteFails \/ ExecuteWrite \/ ReadsForEdit \/ ExecuteEdit \/ ExecuteRead \/ ExecuteGlob
  \/ ExecuteList \/ ExecuteTodo \/ FindsSymbol \/ ResolvesSymbol \/ FindsReferences
  \/ GrepStarts \/ GrepFile \/ GrepEnds
  \/ SpawnFails \/ StartsShell \/ ShellStep \/ Finished
  \/ CommandStarts \/ CommandAnswered \/ CommandEnds
  \/ \E accepted \in SUBSET DOMAIN ComputeHunks(command.target, command.new) :
       CommandApplies(accepted)

\* The timer fires and the end of the pipes is noticed; that a command ends by
\* itself, or what it left behind ever does, is not promised.
Fairness ==
  /\ WF_vars(TimerFires /\ UNCHANGED <<disk, doc, call, command, calls, edits>>)
  /\ WF_vars(Finished)

Spec == Init /\ [][Next]_vars /\ Fairness

-----------------------------------------------------------------------------
(* Properties.                                                               *)

\* The lines of a reviewed change with some of its hunks accepted, told from the
\* lines of the diff: hunks are numbered by the changes that begin.
KeptStep(script, accepted, s, n) ==
  LET op == script[n].op
      begins == op # "=" /\ (n = 1 \/ script[n - 1].op = "=")
      hunk == s.hunk + (IF begins THEN 1 ELSE 0)
      stays == op = "=" \/ (op = "+" /\ hunk \in accepted) \/ (op = "-" /\ hunk \notin accepted)
  IN [hunk |-> hunk, out |-> IF stays THEN Append(s.out, script[n].text) ELSE s.out]

KeptScan(script, accepted) ==
  LET kept[n \in 0 .. Len(script)] ==
        IF n = 0 THEN [hunk |-> 0, out |-> << >>]
        ELSE KeptStep(script, accepted, kept[n - 1], n)
  IN kept

Kept(a, b, accepted) == KeptScan(Script(a, b), accepted)[Len(Script(a, b))].out

WritesNow(tool) ==
  /\ call.tool = tool /\ call.phase \in {"run", "write"}
  /\ call'.phase = "done" /\ ~call'.result.error

\* What the user agreed to is what is done.  An approved write_file changes the
\* file by the diff in the approval prompt -- the one from the empty text if the
\* file could not be read for it -- unless the file was changed since;
\* an approved edit_file replaces the old lines of the diff by the new ones and
\* leaves the rest, unless the file was changed between its read and its write or
\* the new text holds a replacement pattern; an applied edit is the document
\* under review, or of it the accepted hunks and no other, unless the document
\* was changed since the command began (tools.ts, diff.ts, editCommand.ts).
AcceptedIsDoneStep ==
  LET before == disk[call.file]
      after == disk'[call.file]
  IN /\ WritesNow("write_file") /\ ~call.moved =>
          call.shown = DiffLines(IF call.file \in call.unread THEN << >> ELSE before, after,
                                 MaxDiffLines)
     /\ WritesNow("edit_file") /\ ~call.moved /\ ~call.all /\ "$&" \notin ToSet(call.new) =>
          \E i \in 0 .. Len(before) :
            /\ At(before, i + 1, call.old)
            /\ after = Splice(before, i, i + Len(call.old), call.new)
     /\ WritesNow("edit_file") /\ ~call.moved /\ call.all =>
          Len(after) = Len(before) + Len(Occurrences(before, call.old)) * (Len(call.new) - Len(call.old))
     /\ call.phase = "refs" /\ call'.phase = "done" /\ ~call.moved =>
          /\ ToSet(call'.result.lines) \subseteq ToSet(Lines(Pattern))
          /\ Len(call'.result.lines) + call'.result.more = Len(Lines(Pattern))
     /\ command.phase = "review" /\ command'.phase = "none" =>
        \A accepted \in SUBSET DOMAIN ComputeHunks(command.target, command.new) :
          CommandApplies(accepted) /\ ~command.moved =>
            /\ doc'.text = Splice(doc.text, command.start, command.end,
                                  Kept(command.target, command.new, accepted))
            /\ accepted = DOMAIN ComputeHunks(command.target, command.new) =>
                 doc'.text = command.proposed

AcceptedIsDone == [][AcceptedIsDoneStep]_vars

\* A grep that says neither that it stopped nor that it was truncated has, of
\* every file of its glob that it could read and nobody wrote meanwhile, every
\* match if it is text, as long as the glob gave no more files than are read; and
\* it never has a match that is not there.  What is beyond those files, or could
\* not be read, goes unsaid (tools.ts).
GrepComplete ==
  call.tool = "grep" /\ call.phase = "done" /\ ~call.result.error =>
    /\ Len(call.matches) <= MaxGrepMatches
    /\ \A f \in ToSet(call.files) \ call.touched :
         LET found == {call.matches[k][2] : k \in {j \in DOMAIN call.matches : call.matches[j][1] = f}}
             there == {i \in DOMAIN disk[f] : disk[f][i] = Pattern}
             whole == ~call.result.stopped /\ ~call.result.truncated /\ f \notin call.unread
         IN IF Binary \in ToSet(disk[f]) THEN found = {}
            ELSE /\ found \subseteq there
                 /\ whole /\ Len(call.files) <= MaxGrepFiles => found = there

\* A command ends, by itself, by its timeout or by Stop, unless some process it
\* left behind holds its pipes for ever.
CommandsSettle ==
  <>[](shell.heir) \/ (call.phase = "shell" ~> call.phase # "shell")
=============================================================================
