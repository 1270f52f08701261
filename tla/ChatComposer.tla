---------------------------- MODULE ChatComposer ----------------------------
(***************************************************************************)
(* The composer of the chat panel: the script of chatPanelHtml.ts.  The      *)
(* slash menu is filled at once; the files of a mention are searched by the  *)
(* host, whose answers come back in any order.  A text is the sequence of    *)
(* the words between its spaces, so that << Blank >> is the empty text; the  *)
(* caret is behind one of the words.                                         *)
(***************************************************************************)
EXTENDS Integers, Sequences, SequencesExt, Scans

CONSTANTS
  Commands,         \* the slash commands, in the order of the menu
  SlashBegins,      \* <<w, c>>: command c begins with w
  Found,            \* the files of a mention, by its token
  WorkspaceTokens   \* the tokens "workspace" begins with

VARIABLES
  box,       \* the text area
  menu,      \* the menus above it, and the mention that is being searched
  pins,      \* the pinned files
  searches   \* the queries the host has not answered

\* No file has the name of the entry for the workspace.
ASSUME ComposerAssumption ==
  /\ Commands \in Seq(STRING)
  /\ \A token \in DOMAIN Found : Found[token] \in Seq(STRING \ {"@workspace"})

composerVars == <<box, menu, pins, searches>>

WordSet == [kind : {"word", "at", "slash"}, id : STRING]
Word(kind, id) == [kind |-> kind, id |-> id]
Blank == Word("word", "")
AtWorkspace == Word("at", "workspace")
Empty == [text |-> << Blank >>, caret |-> 1]

NoRange == [on |-> FALSE, token |-> "", at |-> 1]

\* A menu is hidden when its list is empty.  stale: a message was sent while a
\* menu was open, or its files were on their way, and nothing was typed since.
Menus == [slash |-> << >>, slashAt |-> 1, items |-> << >>, itemAt |-> 1,
          range |-> NoRange, seq |-> 0, plus |-> FALSE, stale |-> FALSE]

ComposerInit ==
  /\ box = Empty
  /\ menu = Menus
  /\ pins = << >>
  /\ searches = {}

CloseSlashMenu(m) == [m EXCEPT !.slash = << >>]
CloseMentionMenu(m) == [m EXCEPT !.items = << >>, !.range = NoRange]

\* maybeOpenSlashMenu: for a text that is the beginning of a command, and no more.
MaybeOpenSlashMenu(m, text) ==
  IF Len(text) = 1 /\ text[1].kind = "slash"
    THEN [m EXCEPT !.plus = FALSE, !.slashAt = 1,
                   !.slash = Filter(Commands, {c \in ToSet(Commands) : <<text[1].id, c>> \in SlashBegins})]
    ELSE CloseSlashMenu(m)

\* maybeOpenMentionMenu: the list of the query before stays until the new one is
\* answered.
MaybeOpenMentionMenu(m, text, caret) ==
  IF text[caret].kind = "at"
    THEN [CloseSlashMenu(m) EXCEPT !.plus = FALSE, !.seq = @ + 1,
                                   !.range = [on |-> TRUE, token |-> text[caret].id, at |-> caret]]
    ELSE CloseMentionMenu(m)

Types(text, caret) ==
  /\ box' = [text |-> text, caret |-> caret]
  /\ menu' = [MaybeOpenMentionMenu(MaybeOpenSlashMenu(menu, text), text, caret)
                EXCEPT !.stale = FALSE]
  /\ searches' = IF menu'.seq = menu.seq THEN searches
                 ELSE searches \cup {[seq |-> menu'.seq, token |-> menu'.range.token]}
  /\ UNCHANGED pins

\* renderMentionMenu.
RenderMentionMenu(m, files) ==
  LET list == (IF m.range.token \in WorkspaceTokens THEN << "@workspace" >> ELSE << >>) \o files
  IN IF list = << >> THEN CloseMentionMenu(m) ELSE [m EXCEPT !.items = list, !.itemAt = 1]

\* A plausible slip: an answer is shown whatever it answers.
ShowAnyResults(m, q) ==
  IF m.range.on THEN RenderMentionMenu(m, Found[q.token]) ELSE m

\* fileResults: only the latest query's, and only while its mention is there.
ShowFileResults(m, q) ==
  IF q.seq = m.seq /\ m.range.on THEN RenderMentionMenu(m, Found[q.token]) ELSE m

FileResults ==
  \E q \in searches :
    /\ searches' = searches \ {q}
    /\ menu' = ShowFileResults(menu, q)
    /\ UNCHANGED <<box, pins>>

\* The word at the caret of the mention gives way to some others.
Replaced(words) ==
  LET at == IF menu.range.at <= Len(box.text) THEN menu.range.at ELSE Len(box.text)
  IN (SubSeq(box.text, 1, at - 1) \o words) \o SubSeq(box.text, at + 1, Len(box.text))

\* applyMentionSelection: a file is pinned, @workspace is written out.
ApplyMentionSelection(k) ==
  /\ k \in DOMAIN menu.items
  /\ IF menu.items[k] = "@workspace"
       THEN /\ box' = [text |-> Replaced(<<AtWorkspace, Blank>>), caret |-> menu.range.at + 1]
            /\ UNCHANGED pins
       ELSE /\ box' = [text |-> Replaced(<<Blank>>), caret |-> menu.range.at]
            /\ pins' = IF menu.items[k] \in ToSet(pins) THEN pins ELSE Append(pins, menu.items[k])
  /\ menu' = CloseMentionMenu(menu)
  /\ UNCHANGED searches

\* applySlashSelection: what follows the first word stays.
ApplySlashSelection(k) ==
  /\ k \in DOMAIN menu.slash
  /\ box' = [text |-> <<Word("slash", menu.slash[k])>>
                      \o (IF Len(box.text) = 1 THEN <<Blank>> ELSE Tail(box.text)), caret |-> 2]
  /\ menu' = CloseSlashMenu(menu)
  /\ UNCHANGED <<pins, searches>>

Turned(at, step, n) == ((at - 1 + step + n) % n) + 1

\* The arrows, in the menu that is open.
UpdateSelection ==
  /\ \E step \in {-1, 1} :
       \/ menu.items # << >> /\ menu' = [menu EXCEPT !.itemAt = Turned(@, step, Len(menu.items))]
       \/ /\ menu.items = << >> /\ menu.slash # << >>
          /\ menu' = [menu EXCEPT !.slashAt = Turned(@, step, Len(menu.slash))]
  /\ UNCHANGED <<box, pins, searches>>

Escape ==
  /\ \/ menu.items # << >> /\ menu' = CloseMentionMenu(menu)
     \/ menu.items = << >> /\ menu.slash # << >> /\ menu' = CloseSlashMenu(menu)
  /\ UNCHANGED <<box, pins, searches>>

\* Enter and Tab, while a menu is open, take what is selected in it.
TakesSelected ==
  \/ ApplyMentionSelection(menu.itemAt)
  \/ menu.items = << >> /\ ApplySlashSelection(menu.slashAt)

\* A click on a row.
TakesRow ==
  \/ \E k \in DOMAIN menu.items : ApplyMentionSelection(k)
  \/ \E k \in DOMAIN menu.slash : ApplySlashSelection(k)

\* A click on none of the menus.
Elsewhere(m) == [CloseMentionMenu(m) EXCEPT !.plus = FALSE]

ClickElsewhere ==
  /\ menu' = Elsewhere(menu)
  /\ UNCHANGED <<box, pins, searches>>

\* The + button; its own menu and the slash menu exclude each other.
ToggleComposerMenu ==
  /\ menu' = IF menu.plus THEN [menu EXCEPT !.plus = FALSE]
             ELSE [CloseSlashMenu(menu) EXCEPT !.plus = TRUE]
  /\ UNCHANGED <<box, pins, searches>>

RemovePin ==
  /\ \E f \in ToSet(pins) : pins' = Filter(pins, ToSet(pins) \ {f})
  /\ UNCHANGED <<box, menu, searches>>

\* The text is taken from the box: its input handler is not called.
TakeText(m) ==
  /\ box' = Empty
  /\ menu' = [m EXCEPT !.stale = m.range.on \/ m.slash # << >>]
  /\ UNCHANGED <<pins, searches>>

-----------------------------------------------------------------------------
(* Properties.                                                               *)

\* The user gets what the menu was opened for.  A file that is pinned was found
\* for the mention it replaces, and the rest of the text stays; a command that is
\* inserted begins with what was typed -- unless the answer to the latest query is
\* still on its way, so that the list is of the query before, or the menu was left
\* over from a message that was sent (applyMentionSelection, fileResults).
PicksFitStep ==
  LET token == menu.range.token
      at == menu.range.at
      answered == \A q \in searches : q.seq # menu.seq
  IN /\ \A k \in DOMAIN menu.items :
          ApplyMentionSelection(k) /\ answered /\ ~menu.stale =>
            /\ box.text[at] = Word("at", token)
            /\ \/ menu.items[k] = "@workspace" /\ token \in WorkspaceTokens
               \/ /\ menu.items[k] \in ToSet(Found[token]) \cap ToSet(pins')
                  /\ box'.text = [box.text EXCEPT ![at] = Blank]
     /\ \A k \in DOMAIN menu.slash :
          ApplySlashSelection(k) /\ ~menu.stale =>
            <<box.text[1].id, box'.text[1].id>> \in SlashBegins

PicksFit == [][PicksFitStep]_composerVars
=============================================================================
