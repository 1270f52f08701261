--------------------------- MODULE ChatScreenProofs ---------------------------
(***************************************************************************)
(* What a message does to the webview: the menu of the composer, whose       *)
(* choice is the one it was opened for, the bubbles of the conversation and  *)
(* the pieces of text they show.  ChatViewProofs relates them to the host.   *)
(***************************************************************************)
EXTENDS ChatView, ScanProofs

-----------------------------------------------------------------------------
(* The composer.                                                             *)

\* The provers do not know the strings of a specification for members of STRING.
Names == STRING \cup {"", "APPROVED", "workspace", "@workspace"}
Words == [kind : {"word", "at", "slash"}, id : Names]

RangeSet == [on : BOOLEAN, token : Names, at : Nat]
MenuSet ==
  [slash : Seq(Names), slashAt : Nat, items : Seq(Names), itemAt : Nat,
   range : RangeSet, seq : Nat, plus : BOOLEAN, stale : BOOLEAN]
SearchSet == [seq : Nat, token : DOMAIN Found]

\* What may be typed.
Typable(text) ==
  /\ text \in Seq(Words)
  /\ \A i \in DOMAIN text : text[i].kind = "at" => text[i].id \in DOMAIN Found

ComposerTypes ==
  /\ box.text \in Seq(Words) /\ box.text # << >>
  /\ menu \in MenuSet
  /\ pins \in Seq(Names)
  /\ searches \in SUBSET SearchSet

\* The rows there are for a mention.
Listed(token) ==
  (IF token \in WorkspaceTokens THEN << "@workspace" >> ELSE << >>) \o Found[token]

\* The list of files is of the mention it is shown for, once the latest query is
\* answered; and the mention is in the box, unless the box was emptied.
Mentions ==
  /\ menu.items # << >> => menu.range.on
  /\ menu.range.on => menu.range.token \in DOMAIN Found
  /\ menu.range.on /\ ~menu.stale =>
       /\ menu.range.at \in DOMAIN box.text
       /\ box.text[menu.range.at] = Word("at", menu.range.token)
  /\ \A q \in searches :
       /\ q.seq <= menu.seq
       /\ q.seq = menu.seq /\ menu.range.on => q.token = menu.range.token
  /\ menu.items # << >> /\ (\A q \in searches : q.seq # menu.seq) =>
       menu.items = Listed(menu.range.token)

\* The commands in the menu begin with what is in the box, and no mention is open.
Slashes ==
  menu.slash # << >> =>
    /\ ~menu.range.on
    /\ ~menu.stale => \A k \in DOMAIN menu.slash :
                        <<box.text[1].id, menu.slash[k]>> \in SlashBegins

Left ==
  /\ left \in [texts : SUBSET Seq(Words), composes : Int, acts : Int]
  /\ \A text \in left.texts : Typable(text)

ComposerInv == ComposerTypes /\ Mentions /\ Slashes /\ Left

-----------------------------------------------------------------------------
(* The composer, step by step.                                               *)

LEMMA NamesAre ==
  /\ "" \in Names /\ "APPROVED" \in Names /\ "workspace" \in Names /\ "@workspace" \in Names
  /\ STRING \subseteq Names
  /\ Commands \in Seq(Names)
  /\ \A token \in DOMAIN Found : /\ Found[token] \in Seq(Names)
                                 /\ \A i \in DOMAIN Found[token] : Found[token][i] # "@workspace"
<1>1. /\ "" \in Names /\ "APPROVED" \in Names /\ "workspace" \in Names /\ "@workspace" \in Names
      /\ STRING \subseteq Names
  BY Zenon DEF Names
<1>2. Commands \in Seq(Names)
  <2>1. PICK f, T : f = Commands /\ T = STRING
    OBVIOUS
  <2>2. f \in Seq(T) /\ T \subseteq Names
    BY <1>1, <2>1, ComposerAssumption
  <2>3. f \in Seq(Names)
    BY <2>2
  <2>4. QED
    BY <2>1, <2>3
<1>3. ASSUME NEW token \in DOMAIN Found
      PROVE  /\ Found[token] \in Seq(Names)
             /\ \A i \in DOMAIN Found[token] : Found[token][i] # "@workspace"
  <2>1. PICK f, T : f = Found[token] /\ T = STRING \ {"@workspace"}
    OBVIOUS
  <2>2. f \in Seq(T)
    BY <2>1, ComposerAssumption
  <2>3. T \subseteq Names /\ \A x \in T : x # "@workspace"
    BY <1>1, <2>1, Zenon
  <2>4. f \in Seq(Names) /\ \A i \in DOMAIN f : f[i] \in T
    BY <2>2, <2>3
  <2>5. QED
    BY <2>1, <2>3, <2>4
<1>4. QED
  BY <1>1, <1>2, <1>3

LEMMA BlankIs ==
  /\ Blank \in Words /\ Blank.kind = "word" /\ Blank.id = ""
  /\ AtWorkspace \in Words /\ AtWorkspace.kind = "at"
<1>1. PICK k, l, i, j : k = "word" /\ l = "at" /\ i = "" /\ j = "workspace"
  OBVIOUS
<1>2. i \in Names /\ j \in Names
  BY <1>1, NamesAre, Zenon
<1>3. k \in {"word", "at", "slash"} /\ l \in {"word", "at", "slash"}
  BY <1>1
<1>4. Blank = [kind |-> k, id |-> i] /\ AtWorkspace = [kind |-> l, id |-> j]
  BY <1>1 DEF Blank, AtWorkspace, Word
<1>5. PICK K : K = {"word", "at", "slash"}
  OBVIOUS
<1>6. Blank \in [kind : K, id : Names] /\ AtWorkspace \in [kind : K, id : Names]
  BY <1>2, <1>3, <1>4, <1>5
<1>7. QED
  BY <1>1, <1>4, <1>5, <1>6 DEF Words

LEMMA NoRangeIs == NoRange \in RangeSet /\ ~NoRange.on
<1>1. PICK no, one, s : no = FALSE /\ one = 1 /\ s = ""
  OBVIOUS
<1>2. no \in BOOLEAN /\ ~no /\ one \in Nat /\ s \in Names
  BY <1>1, NamesAre
<1>3. NoRange = [on |-> no, token |-> s, at |-> one]
  BY <1>1 DEF NoRange
<1>4. QED
  BY <1>2, <1>3 DEF RangeSet

LEMMA MenusIs ==
  Menus \in MenuSet /\ Menus.items = << >> /\ Menus.slash = << >> /\ ~Menus.range.on
<1>1. PICK no, zero, one, e, r : no = FALSE /\ zero = 0 /\ one = 1 /\ e = << >> /\ r = NoRange
  OBVIOUS
<1>2. no \in BOOLEAN /\ ~no /\ zero \in Nat /\ one \in Nat /\ e \in Seq(Names) /\ r \in RangeSet /\ ~r.on
  <2>1. no \in BOOLEAN /\ ~no /\ zero \in Nat /\ one \in Nat
    BY <1>1
  <2>2. e \in Seq(Names)
    BY <1>1
  <2>3. r \in RangeSet /\ ~r.on
    BY <1>1, NoRangeIs
  <2>4. QED
    BY <2>1, <2>2, <2>3
<1>3. Menus = [slash |-> e, slashAt |-> one, items |-> e, itemAt |-> one, range |-> r,
               seq |-> zero, plus |-> no, stale |-> no]
  BY <1>1 DEF Menus
<1>4. Menus \in MenuSet /\ Menus.items = e /\ Menus.slash = e /\ Menus.range = r
  BY <1>2, <1>3 DEF MenuSet
<1>5. QED
  BY <1>1, <1>2, <1>4

LEMMA ComposerStart == Init => ComposerInv
<1> SUFFICES ASSUME Init PROVE ComposerInv
  OBVIOUS
<1>1. /\ box = [text |-> << Blank >>, caret |-> 1]
      /\ menu = Menus /\ pins = << >> /\ searches = {} /\ left \in Scenarios
  BY DEF Init, ComposerInit, Empty
<1>2. box.text \in Seq(Words) /\ box.text # << >>
  <2>1. PICK w : w = Blank
    OBVIOUS
  <2>2. w \in Words
    BY <2>1, BlankIs
  <2>3. box.text = <<w>>
    BY <1>1, <2>1
  <2>4. QED
    BY <2>2, <2>3
<1>3. menu \in MenuSet /\ menu.items = << >> /\ menu.slash = << >> /\ ~menu.range.on
  BY <1>1, MenusIs
<1>4. ComposerTypes
  <2>1. pins \in Seq(Names)
    <3>1. pins = << >>
      BY <1>1
    <3>2. QED
      BY <3>1
  <2>2. searches \in SUBSET SearchSet
    BY <1>1
  <2>3. QED
    BY <1>2, <1>3, <2>1, <2>2 DEF ComposerTypes
<1>5. Mentions /\ Slashes
  BY <1>1, <1>3 DEF Mentions, Slashes
<1>6. Left
  <2>0. WordSet \subseteq Words
    BY NamesAre DEF WordSet, Words
  <2>1. left \in [texts : SUBSET Seq(WordSet), composes : Nat, acts : Nat]
    BY <1>1, ViewAssumption
  <2>1a. ASSUME NEW text \in left.texts PROVE text \in Seq(Words)
    BY <2>0, <2>1
  <2>2. left \in [texts : SUBSET Seq(Words), composes : Int, acts : Int]
    BY <2>1, <2>1a
  <2>3. ASSUME NEW text \in left.texts PROVE Typable(text)
    BY <1>1, <2>1a, ViewAssumption DEF Typable
  <2>4. QED
    BY <2>2, <2>3 DEF Left
<1>7. QED
  BY <1>4, <1>5, <1>6 DEF ComposerInv

LEMMA SlashMenuCloses ==
  ASSUME NEW m \in MenuSet, NEW o, o = CloseSlashMenu(m)
  PROVE  /\ o \in MenuSet /\ o.slash = << >>
         /\ o.items = m.items /\ o.range = m.range /\ o.seq = m.seq
         /\ o.plus = m.plus /\ o.stale = m.stale
<1>1. PICK e : e = << >>
  OBVIOUS
<1>2. o = [m EXCEPT !.slash = e] /\ e \in Seq(Names)
  BY <1>1 DEF CloseSlashMenu
<1>3. /\ o \in MenuSet /\ o.slash = e
      /\ o.items = m.items /\ o.range = m.range /\ o.seq = m.seq
      /\ o.plus = m.plus /\ o.stale = m.stale
  BY <1>2 DEF MenuSet
<1>4. QED
  BY <1>1, <1>3

LEMMA MentionMenuCloses ==
  ASSUME NEW m \in MenuSet, NEW o, o = CloseMentionMenu(m)
  PROVE  /\ o \in MenuSet /\ o.items = << >> /\ o.range = NoRange
         /\ o.slash = m.slash /\ o.seq = m.seq /\ o.stale = m.stale
<1>1. PICK e, r : e = << >> /\ r = NoRange
  OBVIOUS
<1>2. o = [m EXCEPT !.items = e, !.range = r] /\ e \in Seq(Names) /\ r \in RangeSet
  BY <1>1, NoRangeIs DEF CloseMentionMenu
<1>3. /\ o \in MenuSet /\ o.items = e /\ o.range = r
      /\ o.slash = m.slash /\ o.seq = m.seq /\ o.stale = m.stale
  BY <1>2 DEF MenuSet
<1>4. QED
  BY <1>1, <1>3

\* The slash menu of a text, whose rows begin with it.
LEMMA SlashMenu ==
  ASSUME NEW m \in MenuSet, NEW text \in Seq(Words), text # << >>
  PROVE  LET o == MaybeOpenSlashMenu(m, text)
         IN /\ o \in MenuSet
            /\ o.range = m.range /\ o.items = m.items /\ o.seq = m.seq
            /\ \A k \in DOMAIN o.slash : <<text[1].id, o.slash[k]>> \in SlashBegins
<1>1. PICK S, list : /\ S = {c \in ToSet(Commands) : <<text[1].id, c>> \in SlashBegins}
                     /\ list = Filter(Commands, S)
  OBVIOUS
<1>2. list \in Seq(Names)
  BY <1>1, FilterType, NamesAre
<1>3. ASSUME NEW k \in DOMAIN list PROVE <<text[1].id, list[k]>> \in SlashBegins
  <2>1. k \in 1 .. Len(list)
    BY <1>2
  <2>2. \E i \in 1 .. Len(Filter(Commands, S)) : Filter(Commands, S)[i] = list[k]
    BY <1>1, <2>1
  <2>3. list[k] \in S
    BY <2>2, FilterMembers, NamesAre
  <2>4. QED
    BY <1>1, <2>3
<1>4. CASE Len(text) = 1 /\ text[1].kind = "slash"
  <2>1. PICK o : o = MaybeOpenSlashMenu(m, text)
    OBVIOUS
  <2>0. PICK no, one : no = FALSE /\ one = 1
    OBVIOUS
  <2>2. o = [m EXCEPT !.plus = no, !.slashAt = one, !.slash = list] /\ no \in BOOLEAN /\ one \in Nat
    BY <1>1, <1>4, <2>0, <2>1 DEF MaybeOpenSlashMenu
  <2>3. o \in MenuSet /\ o.range = m.range /\ o.items = m.items /\ o.seq = m.seq /\ o.slash = list
    BY <1>2, <2>2 DEF MenuSet
  <2>4. QED
    BY <1>3, <2>1, <2>3
<1>5. CASE ~(Len(text) = 1 /\ text[1].kind = "slash")
  <2>1. PICK o : o = MaybeOpenSlashMenu(m, text)
    OBVIOUS
  <2>2. o = CloseSlashMenu(m)
    BY <1>5, <2>1 DEF MaybeOpenSlashMenu
  <2>3. o \in MenuSet /\ o.range = m.range /\ o.items = m.items /\ o.seq = m.seq /\ o.slash = << >>
    BY <2>2, SlashMenuCloses
  <2>4. QED
    BY <2>1, <2>3
<1>6. QED
  BY <1>4, <1>5

\* Typing: a mention at the caret is searched, the slash menu is that of the text.
LEMMA TypesKeeps ==
  ASSUME ComposerInv, NEW text, NEW caret, Typable(text), caret \in 1 .. Len(text),
         Types(text, caret), Left'
  PROVE  ComposerInv'
<1>1. text \in Seq(Words) /\ text # << >> /\ menu \in MenuSet
  BY DEF Typable, ComposerInv, ComposerTypes
<1>2. PICK o : o = MaybeOpenSlashMenu(menu, text)
  OBVIOUS
<1>3. /\ o \in MenuSet /\ o.range = menu.range /\ o.items = menu.items /\ o.seq = menu.seq
      /\ \A k \in DOMAIN o.slash : <<text[1].id, o.slash[k]>> \in SlashBegins
  BY <1>1, <1>2, SlashMenu
<1>4. PICK w : w = MaybeOpenMentionMenu(o, text, caret)
  OBVIOUS
<1>5. /\ box' = [text |-> text, caret |-> caret]
      /\ menu' = [w EXCEPT !.stale = FALSE]
      /\ searches' = IF menu'.seq = menu.seq THEN searches
                     ELSE searches \cup {[seq |-> menu'.seq, token |-> menu'.range.token]}
      /\ pins' = pins
  BY <1>2, <1>4 DEF Types
<1>6. box'.text = text
  BY <1>5
<1>7. Left'
  OBVIOUS
<1>8. CASE text[caret].kind = "at"
  <2>1. w = [CloseSlashMenu(o) EXCEPT !.plus = FALSE, !.seq = @ + 1,
               !.range = [on |-> TRUE, token |-> text[caret].id, at |-> caret]]
    BY <1>4, <1>8 DEF MaybeOpenMentionMenu
  <2>2. text[caret] \in Words /\ text[caret].id \in DOMAIN Found
    BY <1>1, <1>8 DEF Typable
  <2>3. text[caret] = Word("at", text[caret].id)
    BY <1>8, <2>2 DEF Word, Words
  <2>4. [on |-> TRUE, token |-> text[caret].id, at |-> caret] \in RangeSet
    BY <1>1, <2>2 DEF RangeSet, Words
  <2>5. /\ menu' \in MenuSet /\ menu'.slash = << >> /\ menu'.items = menu.items
        /\ menu'.seq = menu.seq + 1 /\ ~menu'.stale
        /\ menu'.range = [on |-> TRUE, token |-> text[caret].id, at |-> caret]
    <3>1. PICK no, n, r, p : /\ no = FALSE /\ n = menu.seq + 1 /\ p = CloseSlashMenu(o)
                           /\ r = [on |-> TRUE, token |-> text[caret].id, at |-> caret]
      OBVIOUS
    <3>2. /\ p \in MenuSet /\ p.slash = << >> /\ p.items = menu.items /\ p.seq = menu.seq
          /\ no \in BOOLEAN /\ r \in RangeSet
      BY <1>3, <2>4, <3>1, SlashMenuCloses
    <3>2a. n \in Nat
      BY <1>1, <3>1 DEF MenuSet
    <3>3. w = [p EXCEPT !.plus = no, !.seq = n, !.range = r]
      BY <2>1, <3>1, <3>2
    <3>4. w \in MenuSet /\ w.slash = p.slash /\ w.items = p.items /\ w.seq = n /\ w.range = r
      BY <3>2, <3>2a, <3>3 DEF MenuSet
    <3>5. menu' = [w EXCEPT !.stale = no]
      BY <1>5, <3>1
    <3>6. /\ menu' \in MenuSet /\ menu'.slash = w.slash /\ menu'.items = w.items
          /\ menu'.seq = w.seq /\ menu'.stale = no /\ menu'.range = w.range
      BY <3>2, <3>4, <3>5 DEF MenuSet
    <3>7. QED
      BY <3>1, <3>2, <3>4, <3>6
  <2>6. menu.seq \in Nat
    BY <1>1 DEF MenuSet
  <2>7. searches' = searches \cup {[seq |-> menu.seq + 1, token |-> text[caret].id]}
    <3>1. menu'.seq = menu.seq + 1 /\ menu'.range.token = text[caret].id
      BY <2>5
    <3>2. menu'.seq # menu.seq
      BY <2>6, <3>1
    <3>3. QED
      BY <1>5, <3>1, <3>2
  <2>8. ComposerTypes'
    BY <1>1, <1>5, <1>6, <2>2, <2>5, <2>6, <2>7 DEF ComposerInv, ComposerTypes, SearchSet
  <2>9. \A q \in searches : q.seq \in Nat /\ q.seq <= menu.seq
    BY DEF ComposerInv, ComposerTypes, Mentions, SearchSet
  <2>10. ASSUME NEW q \in searches'
         PROVE  /\ q.seq <= menu'.seq
                /\ q.seq = menu'.seq => q.token = text[caret].id
    BY <2>5, <2>6, <2>7, <2>9
  <2>11. \E q \in searches' : q.seq = menu'.seq
    <3>1. PICK q : q = [seq |-> menu.seq + 1, token |-> text[caret].id]
      OBVIOUS
    <3>2. q \in searches' /\ q.seq = menu'.seq
      BY <2>5, <2>7, <3>1
    <3>3. QED
      BY <3>2
  <2>12. menu'.range.at \in DOMAIN box'.text /\ box'.text[menu'.range.at] = Word("at", menu'.range.token)
    BY <1>1, <1>6, <2>3, <2>5
  <2>13. Mentions'
    BY <2>2, <2>5, <2>10, <2>11, <2>12 DEF Mentions
  <2>14. Slashes'
    BY <2>5 DEF Slashes
  <2>15. QED
    BY <1>7, <2>8, <2>13, <2>14 DEF ComposerInv
<1>9. CASE text[caret].kind # "at"
  <2>1. w = CloseMentionMenu(o)
    BY <1>4, <1>9 DEF MaybeOpenMentionMenu
  <2>2. /\ menu' \in MenuSet /\ menu'.slash = o.slash /\ menu'.items = << >>
        /\ menu'.seq = menu.seq /\ ~menu'.stale /\ menu'.range = NoRange
    <3>1. w \in MenuSet /\ w.slash = o.slash /\ w.items = << >> /\ w.seq = menu.seq /\ w.range = NoRange
      BY <1>3, <2>1, MentionMenuCloses
    <3>2. PICK no : no = FALSE
      OBVIOUS
    <3>3. menu' = [w EXCEPT !.stale = no] /\ no \in BOOLEAN
      BY <1>5, <3>2
    <3>4. /\ menu' \in MenuSet /\ menu'.slash = w.slash /\ menu'.items = w.items
          /\ menu'.seq = w.seq /\ menu'.stale = no /\ menu'.range = w.range
      BY <3>1, <3>3 DEF MenuSet
    <3>5. QED
      BY <3>1, <3>2, <3>4
  <2>3. searches' = searches /\ ~menu'.range.on
    BY <1>5, <2>2, NoRangeIs
  <2>4. ComposerTypes'
    BY <1>1, <1>5, <1>6, <2>2, <2>3 DEF ComposerInv, ComposerTypes
  <2>5. Mentions'
    BY <2>2, <2>3 DEF ComposerInv, Mentions
  <2>6. Slashes'
    BY <1>3, <1>6, <2>2, <2>3 DEF Slashes
  <2>7. QED
    BY <1>7, <2>4, <2>5, <2>6 DEF ComposerInv
<1>10. QED
  BY <1>8, <1>9

\* What closes menus, and opens none.
Closed(m, o) ==
  /\ o \in MenuSet /\ o.seq = m.seq
  /\ (o.items = m.items /\ o.range = m.range) \/ (o.items = << >> /\ ~o.range.on)
  /\ o.slash = m.slash \/ o.slash = << >>

\* A menu that stays open goes with the text it was opened for, or is left over.
LEMMA ClosingKeeps ==
  ASSUME ComposerInv, Closed(menu, menu'), searches' = searches, Left',
         pins' \in Seq(Names), box'.text \in Seq(Words), box'.text # << >>,
         menu'.range.on \/ menu'.slash # << >> =>
           (box'.text = box.text /\ menu'.stale = menu.stale) \/ menu'.stale
  PROVE  ComposerInv'
<1>1. ComposerTypes'
  BY DEF ComposerInv, ComposerTypes, Closed
<1>2. Mentions'
  BY DEF ComposerInv, Mentions, Closed
<1>3. Slashes'
  BY DEF ComposerInv, Slashes, Mentions, Closed
<1>4. QED
  BY <1>1, <1>2, <1>3 DEF ComposerInv

LEMMA LeftKeeps ==
  ASSUME Left, \/ left' = left
               \/ left' = [left EXCEPT !.composes = @ - 1]
               \/ left' = [left EXCEPT !.acts = @ - 1]
  PROVE  Left' /\ left'.texts = left.texts
<1>1. left' \in [texts : SUBSET Seq(Words), composes : Int, acts : Int] /\ left'.texts = left.texts
  BY DEF Left
<1>2. QED
  BY <1>1 DEF Left, Typable

\* The latest query's files are the rows of its mention.
LEMMA FileResultsKeeps ==
  ASSUME ComposerInv, FileResults, left' = left
  PROVE  ComposerInv'
<1>1. PICK q \in searches :
        /\ searches' = searches \ {q} /\ menu' = ShowFileResults(menu, q)
        /\ box' = box /\ pins' = pins
  BY DEF FileResults
<1>2. menu \in MenuSet /\ searches \in SUBSET SearchSet
  BY DEF ComposerInv, ComposerTypes
<1>3. searches' \in SUBSET SearchSet
  BY <1>1, <1>2
<1>4. Left'
  BY DEF ComposerInv, Left
<1>5. CASE q.seq = menu.seq /\ menu.range.on
  <2>1. q.token = menu.range.token /\ menu.range.token \in DOMAIN Found /\ menu.slash = << >>
    BY <1>5 DEF ComposerInv, Mentions, Slashes
  <2>2. PICK list : list = Listed(menu.range.token)
    OBVIOUS
  <2>3. list \in Seq(Names)
    <3>1. PICK w, e, f, x : w = "@workspace" /\ e = << >> /\ f = Found[menu.range.token] /\ x = << w >>
      OBVIOUS
    <3>2. w \in Names /\ f \in Seq(Names)
      BY <2>1, <3>1, NamesAre
    <3>3. x \in Seq(Names)
      BY <3>1, <3>2
    <3>4. e \in Seq(Names)
      BY <3>1
    <3>5. list = (IF menu.range.token \in WorkspaceTokens THEN x ELSE e) \o f
      BY <2>2, <3>1 DEF Listed
    <3>6. QED
      BY <3>2, <3>3, <3>4, <3>5
  <2>4. menu' = IF list = << >> THEN CloseMentionMenu(menu) ELSE [menu EXCEPT !.items = list, !.itemAt = 1]
    BY <1>1, <1>5, <2>1, <2>2 DEF ShowFileResults, RenderMentionMenu, Listed
  <2>5. /\ menu' \in MenuSet /\ menu'.slash = << >> /\ menu'.seq = menu.seq
        /\ \/ menu'.items = << >> /\ ~menu'.range.on
           \/ menu'.items = list /\ menu'.range = menu.range /\ menu'.stale = menu.stale
    <3>1. CASE list = << >>
      <4>1. menu' = CloseMentionMenu(menu)
        BY <2>4, <3>1
      <4>2. QED
        BY <1>2, <2>1, <4>1, MentionMenuCloses, NoRangeIs
    <3>2. CASE list # << >>
      <4>1. PICK one : one = 1
        OBVIOUS
      <4>2. menu' = [menu EXCEPT !.items = list, !.itemAt = one] /\ one \in Nat
        BY <2>4, <3>2, <4>1
      <4>3. QED
        BY <1>2, <2>1, <2>3, <4>2 DEF MenuSet
    <3>3. QED
      BY <3>1, <3>2
  <2>6. ComposerTypes'
    BY <1>1, <1>3, <2>5 DEF ComposerInv, ComposerTypes
  <2>7. Mentions'
    BY <1>1, <1>5, <2>2, <2>5 DEF ComposerInv, Mentions
  <2>8. Slashes'
    BY <2>5 DEF Slashes
  <2>9. QED
    BY <1>4, <2>6, <2>7, <2>8 DEF ComposerInv
<1>6. CASE ~(q.seq = menu.seq /\ menu.range.on)
  <2>1. menu' = menu
    BY <1>1, <1>6 DEF ShowFileResults
  <2>2. ComposerTypes'
    BY <1>1, <1>3, <2>1 DEF ComposerInv, ComposerTypes
  <2>3. Mentions'
    BY <1>1, <1>6, <2>1 DEF ComposerInv, Mentions
  <2>4. Slashes'
    BY <1>1, <2>1 DEF ComposerInv, Slashes
  <2>5. QED
    BY <1>4, <2>2, <2>3, <2>4 DEF ComposerInv
<1>7. QED
  BY <1>5, <1>6

\* The word of a mention, within the text.
LEMMA ReplacedIs ==
  ASSUME ComposerInv, NEW words \in Seq(Words), words # << >>
  PROVE  Replaced(words) \in Seq(Words) /\ Replaced(words) # << >>
<1>1. box.text \in Seq(Words) /\ menu.range.at \in Nat
  BY DEF ComposerInv, ComposerTypes, MenuSet, RangeSet
<1>2. PICK at, t : /\ t = box.text
                   /\ at = IF menu.range.at <= Len(box.text) THEN menu.range.at ELSE Len(box.text)
  OBVIOUS
<1>3. at \in Nat /\ at <= Len(t) /\ t \in Seq(Words)
  BY <1>1, <1>2
<1>4. PICK a, b : a = SubSeq(t, 1, at - 1) /\ b = SubSeq(t, at + 1, Len(t))
  OBVIOUS
<1>5. a \in Seq(Words) /\ b \in Seq(Words)
  BY <1>3, <1>4
<1>6. Replaced(words) = (a \o words) \o b
  BY <1>2, <1>4 DEF Replaced
<1>7. (a \o words) \o b \in Seq(Words) /\ Len((a \o words) \o b) > 0
  BY <1>5
<1>8. QED
  BY <1>6, <1>7

LEMMA ApplyMentionSelectionKeeps ==
  ASSUME ComposerInv, NEW k, ApplyMentionSelection(k), Left'
  PROVE  ComposerInv'
<1>1. /\ k \in DOMAIN menu.items /\ menu' = CloseMentionMenu(menu) /\ searches' = searches
      /\ menu \in MenuSet /\ menu.items \in Seq(Names) /\ pins \in Seq(Names)
  BY DEF ApplyMentionSelection, ComposerInv, ComposerTypes, MenuSet
<1>2. menu.items # << >>
  BY <1>1
<1>3. menu.slash = << >>
  BY <1>2 DEF ComposerInv, Mentions, Slashes
<1>4. Closed(menu, menu') /\ ~menu'.range.on /\ menu'.slash = << >>
  BY <1>1, <1>3, MentionMenuCloses, NoRangeIs DEF Closed
<1>5. CASE menu.items[k] = "@workspace"
  <2>1. box' = [text |-> Replaced(<<AtWorkspace, Blank>>), caret |-> menu.range.at + 1] /\ pins' = pins
    BY <1>5 DEF ApplyMentionSelection
  <2>2. box'.text = Replaced(<<AtWorkspace, Blank>>)
    BY <2>1
  <2>3. PICK words, v, w : words = <<v, w>> /\ v = AtWorkspace /\ w = Blank
    OBVIOUS
  <2>4. words \in Seq(Words) /\ words # << >>
    <3>1. v \in Words /\ w \in Words
      BY <2>3, BlankIs
    <3>2. QED
      BY <2>3, <3>1
  <2>5. box'.text \in Seq(Words) /\ box'.text # << >>
    BY <2>2, <2>3, <2>4, ReplacedIs
  <2>6. QED
    BY <1>1, <1>4, <2>1, <2>5, ClosingKeeps
<1>6. CASE menu.items[k] # "@workspace"
  <2>1. /\ box' = [text |-> Replaced(<<Blank>>), caret |-> menu.range.at]
        /\ pins' = IF menu.items[k] \in ToSet(pins) THEN pins ELSE Append(pins, menu.items[k])
    BY <1>6 DEF ApplyMentionSelection
  <2>2. box'.text = Replaced(<<Blank>>)
    BY <2>1
  <2>3. PICK words, w : words = <<w>> /\ w = Blank
    OBVIOUS
  <2>4. words \in Seq(Words) /\ words # << >>
    <3>1. w \in Words
      BY <2>3, BlankIs
    <3>2. QED
      BY <2>3, <3>1
  <2>5. box'.text \in Seq(Words) /\ box'.text # << >>
    BY <2>2, <2>3, <2>4, ReplacedIs
  <2>6. pins' \in Seq(Names)
    BY <1>1, <2>1
  <2>7. QED
    BY <1>1, <1>4, <2>5, <2>6, ClosingKeeps
<1>7. QED
  BY <1>5, <1>6

LEMMA ApplySlashSelectionKeeps ==
  ASSUME ComposerInv, NEW k, ApplySlashSelection(k), Left'
  PROVE  ComposerInv'
<1>1. /\ k \in DOMAIN menu.slash /\ menu' = CloseSlashMenu(menu)
      /\ searches' = searches /\ pins' = pins
      /\ box' = [text |-> <<Word("slash", menu.slash[k])>>
                           \o (IF Len(box.text) = 1 THEN <<Blank>> ELSE Tail(box.text)), caret |-> 2]
      /\ menu \in MenuSet /\ menu.slash \in Seq(Names) /\ pins \in Seq(Names)
      /\ box.text \in Seq(Words) /\ box.text # << >>
  BY DEF ApplySlashSelection, ComposerInv, ComposerTypes, MenuSet
<1>2. ~menu.range.on
  BY <1>1 DEF ComposerInv, Slashes
<1>3. Closed(menu, menu') /\ ~menu'.range.on /\ menu'.slash = << >>
  BY <1>1, <1>2, SlashMenuCloses DEF Closed
<1>4. PICK w, rest : /\ w = Word("slash", menu.slash[k])
                     /\ rest = IF Len(box.text) = 1 THEN <<Blank>> ELSE Tail(box.text)
  OBVIOUS
<1>5. w \in Words
  <2>1. PICK s : s = "slash"
    OBVIOUS
  <2>2. menu.slash[k] \in Names /\ s \in {"word", "at", "slash"}
    BY <1>1, <2>1
  <2>3. w = [kind |-> s, id |-> menu.slash[k]]
    BY <1>4, <2>1 DEF Word
  <2>4. PICK K : K = {"word", "at", "slash"}
    OBVIOUS
  <2>5. w \in [kind : K, id : Names]
    BY <2>2, <2>3, <2>4
  <2>6. QED
    BY <2>4, <2>5 DEF Words
<1>6. rest \in Seq(Words)
  <2>1. PICK b, e : b = Blank /\ e = <<b>>
    OBVIOUS
  <2>2. b \in Words
    BY <2>1, BlankIs
  <2>3. e \in Seq(Words)
    BY <2>1, <2>2
  <2>4. Tail(box.text) \in Seq(Words)
    BY <1>1
  <2>5. rest = IF Len(box.text) = 1 THEN e ELSE Tail(box.text)
    BY <1>4, <2>1
  <2>6. QED
    BY <2>3, <2>4, <2>5
<1>7. box'.text = <<w>> \o rest
  BY <1>1, <1>4
<1>8. box'.text \in Seq(Words) /\ box'.text # << >>
  BY <1>5, <1>6, <1>7
<1>9. QED
  BY <1>1, <1>3, <1>8, ClosingKeeps

LEMMA ElsewhereCloses ==
  ASSUME NEW m \in MenuSet, NEW o, o = Elsewhere(m)
  PROVE  /\ Closed(m, o) /\ o.slash = m.slash /\ o.stale = m.stale
         /\ o.items = << >> /\ ~o.range.on
<1>1. PICK c, no : c = CloseMentionMenu(m) /\ no = FALSE
  OBVIOUS
<1>2. /\ c \in MenuSet /\ c.items = << >> /\ ~c.range.on
      /\ c.slash = m.slash /\ c.seq = m.seq /\ c.stale = m.stale
  BY <1>1, MentionMenuCloses, NoRangeIs
<1>3. o = [c EXCEPT !.plus = no] /\ no \in BOOLEAN
  BY <1>1 DEF Elsewhere
<1>4. /\ o \in MenuSet /\ o.items = c.items /\ o.range = c.range
      /\ o.slash = c.slash /\ o.seq = c.seq /\ o.stale = c.stale
  BY <1>2, <1>3 DEF MenuSet
<1>5. QED
  BY <1>2, <1>4 DEF Closed

\* The text is taken: what of the menus is left is marked stale.
LEMMA TakeTextKeeps ==
  ASSUME ComposerInv, NEW m, Closed(menu, m), TakeText(m), Left'
  PROVE  ComposerInv'
<1>1. PICK stale : stale = (m.range.on \/ m.slash # << >>)
  OBVIOUS
<1>2. /\ m \in MenuSet /\ menu \in MenuSet /\ pins \in Seq(Names)
      /\ m.range.on \in BOOLEAN
  BY DEF Closed, ComposerInv, ComposerTypes, MenuSet, RangeSet
<1>3. stale \in BOOLEAN
  BY <1>1, <1>2
<1>4. box' = Empty /\ menu' = [m EXCEPT !.stale = stale] /\ pins' = pins /\ searches' = searches
  BY <1>1 DEF TakeText
<1>5. /\ menu' \in MenuSet /\ menu'.items = m.items /\ menu'.range = m.range
      /\ menu'.slash = m.slash /\ menu'.seq = m.seq /\ menu'.stale = stale
  BY <1>2, <1>3, <1>4 DEF MenuSet
<1>6. Closed(menu, menu')
  BY <1>5 DEF Closed
<1>7. menu'.range.on \/ menu'.slash # << >> => menu'.stale
  BY <1>1, <1>5
<1>8. box'.text \in Seq(Words) /\ box'.text # << >>
  <2>1. PICK b, t : b = Blank /\ t = <<b>>
    OBVIOUS
  <2>2. b \in Words
    BY <2>1, BlankIs
  <2>3. box'.text = t
    BY <1>4, <2>1 DEF Empty
  <2>4. QED
    BY <2>1, <2>2, <2>3
<1>9. QED
  BY <1>2, <1>4, <1>6, <1>7, <1>8, ClosingKeeps

LEMMA TakesSelectedKeeps ==
  ASSUME ComposerInv, TakesSelected \/ TakesRow, Left'
  PROVE  ComposerInv'
BY ApplyMentionSelectionKeeps, ApplySlashSelectionKeeps DEF TakesSelected, TakesRow

LEMMA UpdateSelectionKeeps ==
  ASSUME ComposerInv, UpdateSelection, Left'
  PROVE  ComposerInv'
<1>1. /\ box' = box /\ pins' = pins /\ searches' = searches /\ menu \in MenuSet
      /\ pins \in Seq(Names) /\ box.text \in Seq(Words) /\ box.text # << >>
  BY DEF UpdateSelection, ComposerInv, ComposerTypes
<1>2. ASSUME NEW at \in Nat, NEW step \in {-1, 1}, NEW n \in Nat, n > 0
      PROVE  Turned(at, step, n) \in Nat
  <2>1. (at - 1 + step + n) % n \in Nat
    BY <1>2
  <2>2. QED
    BY <2>1 DEF Turned
<1>3. PICK step \in {-1, 1} :
        \/ menu.items # << >> /\ menu' = [menu EXCEPT !.itemAt = Turned(@, step, Len(menu.items))]
        \/ menu.slash # << >> /\ menu' = [menu EXCEPT !.slashAt = Turned(@, step, Len(menu.slash))]
  BY DEF UpdateSelection
<1>4. CASE menu.items # << >> /\ menu' = [menu EXCEPT !.itemAt = Turned(@, step, Len(menu.items))]
  <2>1. PICK k : k = Turned(menu.itemAt, step, Len(menu.items))
    OBVIOUS
  <2>2. menu.itemAt \in Nat /\ Len(menu.items) \in Nat /\ Len(menu.items) > 0
    BY <1>1, <1>4 DEF MenuSet
  <2>3. k \in Nat
    BY <1>2, <2>1, <2>2
  <2>4. menu' = [menu EXCEPT !.itemAt = k]
    BY <1>4, <2>1
  <2>5. Closed(menu, menu') /\ menu'.stale = menu.stale
    BY <1>1, <2>3, <2>4 DEF MenuSet, Closed
  <2>6. QED
    BY <1>1, <2>5, ClosingKeeps
<1>5. CASE menu.slash # << >> /\ menu' = [menu EXCEPT !.slashAt = Turned(@, step, Len(menu.slash))]
  <2>1. PICK k : k = Turned(menu.slashAt, step, Len(menu.slash))
    OBVIOUS
  <2>2. menu.slashAt \in Nat /\ Len(menu.slash) \in Nat /\ Len(menu.slash) > 0
    BY <1>1, <1>5 DEF MenuSet
  <2>3. k \in Nat
    BY <1>2, <2>1, <2>2
  <2>4. menu' = [menu EXCEPT !.slashAt = k]
    BY <1>5, <2>1
  <2>5. Closed(menu, menu') /\ menu'.stale = menu.stale
    BY <1>1, <2>3, <2>4 DEF MenuSet, Closed
  <2>6. QED
    BY <1>1, <2>5, ClosingKeeps
<1>6. QED
  BY <1>3, <1>4, <1>5

\* What closes menus and leaves the rest.
LEMMA ClosesKeeps ==
  ASSUME ComposerInv, Escape \/ ClickElsewhere \/ ToggleComposerMenu, Left'
  PROVE  ComposerInv'
<1>1. /\ box' = box /\ pins' = pins /\ searches' = searches /\ menu \in MenuSet
      /\ pins \in Seq(Names) /\ box.text \in Seq(Words) /\ box.text # << >>
  BY DEF Escape, ClickElsewhere, ToggleComposerMenu, ComposerInv, ComposerTypes
<1>2. Closed(menu, menu') /\ menu'.stale = menu.stale
  <2>1. CASE Escape
    <3>1. menu' = CloseMentionMenu(menu) \/ menu' = CloseSlashMenu(menu)
      BY <2>1 DEF Escape
    <3>2. QED
      BY <1>1, <3>1, SlashMenuCloses, MentionMenuCloses, NoRangeIs DEF Closed
  <2>2. CASE ClickElsewhere
    BY <1>1, <2>2, ElsewhereCloses DEF ClickElsewhere
  <2>3. CASE ToggleComposerMenu
    <3>1. PICK no, yes, c : no = FALSE /\ yes = TRUE /\ c = CloseSlashMenu(menu)
      OBVIOUS
    <3>2. no \in BOOLEAN /\ yes \in BOOLEAN
      BY <3>1
    <3>3. menu' = IF menu.plus THEN [menu EXCEPT !.plus = no] ELSE [c EXCEPT !.plus = yes]
      BY <2>3, <3>1 DEF ToggleComposerMenu
    <3>4. /\ c \in MenuSet /\ c.slash = << >>
          /\ c.items = menu.items /\ c.range = menu.range /\ c.seq = menu.seq /\ c.stale = menu.stale
      BY <1>1, <3>1, SlashMenuCloses
    <3>5. CASE menu.plus
      <4>1. menu' = [menu EXCEPT !.plus = no]
        BY <3>3, <3>5
      <4>2. QED
        BY <1>1, <3>2, <4>1 DEF MenuSet, Closed
    <3>6. CASE ~menu.plus
      <4>1. menu' = [c EXCEPT !.plus = yes]
        BY <3>3, <3>6
      <4>2. /\ menu' \in MenuSet /\ menu'.slash = c.slash /\ menu'.items = c.items
            /\ menu'.range = c.range /\ menu'.seq = c.seq /\ menu'.stale = c.stale
        BY <3>2, <3>4, <4>1 DEF MenuSet
      <4>3. QED
        BY <3>4, <4>2 DEF Closed
    <3>7. QED
      BY <3>5, <3>6
  <2>4. QED
    BY <2>1, <2>2, <2>3
<1>3. QED
  BY <1>1, <1>2, ClosingKeeps

LEMMA RemovePinKeeps ==
  ASSUME ComposerInv, RemovePin, Left'
  PROVE  ComposerInv'
<1>1. /\ box' = box /\ menu' = menu /\ searches' = searches /\ menu \in MenuSet
      /\ pins \in Seq(Names) /\ box.text \in Seq(Words) /\ box.text # << >>
  BY DEF RemovePin, ComposerInv, ComposerTypes
<1>2. PICK S : pins' = Filter(pins, S)
  BY DEF RemovePin
<1>3. pins' \in Seq(Names)
  BY <1>1, <1>2, FilterType
<1>4. Closed(menu, menu')
  BY <1>1 DEF Closed
<1>5. QED
  BY <1>1, <1>3, <1>4, ClosingKeeps

\* A message of the composer, and /edit.
LEMMA SubmittedKeeps ==
  ASSUME ComposerInv, NEW m, Closed(menu, m), Submitted(m), Left'
  PROVE  ComposerInv'
<1>1. m \in MenuSet /\ m.plus \in BOOLEAN
  BY DEF Closed, MenuSet
<1>2. CASE TakeText([CloseSlashMenu(m) EXCEPT !.plus = m.plus])
  <2>1. PICK c, o : c = CloseSlashMenu(m) /\ o = [c EXCEPT !.plus = m.plus]
    OBVIOUS
  <2>2. /\ c \in MenuSet /\ c.slash = << >>
        /\ c.items = m.items /\ c.range = m.range /\ c.seq = m.seq
    BY <1>1, <2>1, SlashMenuCloses
  <2>3. /\ o \in MenuSet /\ o.slash = c.slash
        /\ o.items = c.items /\ o.range = c.range /\ o.seq = c.seq
    BY <1>1, <2>1, <2>2 DEF MenuSet
  <2>4. Closed(menu, o) /\ TakeText(o)
    BY <1>2, <2>1, <2>2, <2>3 DEF Closed
  <2>5. QED
    BY <2>4, TakeTextKeeps
<1>3. CASE TakeText([m EXCEPT !.plus = FALSE])
  <2>1. PICK no, o : no = FALSE /\ o = [m EXCEPT !.plus = no]
    OBVIOUS
  <2>2. no \in BOOLEAN
    BY <2>1
  <2>3. /\ o \in MenuSet /\ o.slash = m.slash
        /\ o.items = m.items /\ o.range = m.range /\ o.seq = m.seq
    BY <1>1, <2>1, <2>2 DEF MenuSet
  <2>4. Closed(menu, o) /\ TakeText(o)
    BY <1>3, <2>1, <2>3 DEF Closed
  <2>5. QED
    BY <2>4, TakeTextKeeps
<1>4. QED
  BY <1>2, <1>3 DEF Submitted

\* A step of the rest of the panel leaves the composer alone.
LEMMA ComposerAlone ==
  ASSUME ComposerInv, UNCHANGED composerVars, Left'
  PROVE  ComposerInv'
<1>1. /\ box' = box /\ pins' = pins /\ menu' = menu /\ searches' = searches /\ menu \in MenuSet
      /\ pins \in Seq(Names) /\ box.text \in Seq(Words) /\ box.text # << >>
  BY DEF composerVars, ComposerInv, ComposerTypes
<1>2. Closed(menu, menu')
  BY <1>1 DEF Closed
<1>3. QED
  BY <1>1, <1>2, ClosingKeeps

LEMMA UserActsCompose ==
  ASSUME ComposerInv, UserActs
  PROVE  ComposerInv'
<1>1. menu \in MenuSet
  BY DEF ComposerInv, ComposerTypes
<1>2. CASE Acts /\ (TogglePlan \/ ToggleAgent \/ ToggleInclude \/ Stop \/ Respond)
  <2>1. Left'
    BY <1>2, LeftKeeps DEF Acts, ComposerInv
  <2>2. UNCHANGED composerVars
    BY <1>2 DEF TogglePlan, ToggleAgent, Toggled, ToggleInclude, Stop, Respond
  <2>3. QED
    BY <2>1, <2>2, ComposerAlone
<1>3. CASE Acts /\ (Enter \/ ClickSend \/ ApproveRun)
  <2>1. Left'
    BY <1>3, LeftKeeps DEF Acts, ComposerInv
  <2>2. Closed(menu, menu) /\ Closed(menu, Elsewhere(menu))
    BY <1>1, ElsewhereCloses DEF Closed
  <2>3. CASE Enter
    BY <2>1, <2>2, <2>3, TakesSelectedKeeps, SubmittedKeeps DEF Enter
  <2>4. CASE ClickSend
    BY <2>1, <2>2, <2>4, SubmittedKeeps DEF ClickSend
  <2>5. CASE ApproveRun
    BY <2>1, <2>2, <2>5, TakeTextKeeps DEF ApproveRun
  <2>6. QED
    BY <1>3, <2>3, <2>4, <2>5
<1>4. CASE Composes
  <2>1. Left' /\ left'.texts = left.texts
    BY <1>4, LeftKeeps DEF Composes, ComposerInv
  <2>2. ASSUME NEW text \in left.texts, NEW caret \in 1 .. 2, caret <= Len(text), Types(text, caret)
        PROVE  ComposerInv'
    <3>1. Typable(text)
      BY DEF ComposerInv, Left
    <3>2. caret \in 1 .. Len(text)
      BY <2>2, <3>1 DEF Typable
    <3>3. QED
      BY <2>1, <2>2, <3>1, <3>2, TypesKeeps
  <2>3. CASE UpdateSelection \/ Escape \/ ToggleComposerMenu \/ TakesRow \/ ClickElsewhere \/ RemovePin
    BY <2>1, <2>3, UpdateSelectionKeeps, ClosesKeeps, TakesSelectedKeeps, RemovePinKeeps
  <2>4. QED
    BY <1>4, <2>2, <2>3 DEF Composes
<1>5. QED
  BY <1>2, <1>3, <1>4 DEF UserActs

LEMMA ComposerKeeps == ComposerInv /\ [Next]_vars => ComposerInv'
<1> SUFFICES ASSUME ComposerInv, [Next]_vars PROVE ComposerInv'
  OBVIOUS
<1>1. CASE UserActs
  BY <1>1, UserActsCompose
<1>2. CASE Answered
  BY <1>2, FileResultsKeeps DEF Answered
<1>3. CASE Commanded
  <2>1. Left'
    BY <1>3, LeftKeeps DEF Commanded, Acts, ComposerInv
  <2>2. UNCHANGED composerVars
    BY <1>3 DEF Commanded, EditorAction, Switches
  <2>3. QED
    BY <2>1, <2>2, ComposerAlone
<1>4. CASE Mount \/ ViewTakes \/ HostTakes \/ TurnSteps \/ UNCHANGED vars
  <2>1. left' = left /\ UNCHANGED composerVars
    BY <1>4 DEF Mount, ViewTakes, HostTakes, TurnSteps, vars
  <2>2. Left'
    BY <2>1, LeftKeeps DEF ComposerInv
  <2>3. QED
    BY <2>1, <2>2, ComposerAlone
<1>5. QED
  BY <1>1, <1>2, <1>3, <1>4 DEF Next

LEMMA JoinFacts ==
  ASSUME NEW T, NEW a \in Seq(T), NEW b \in Seq(T)
  PROVE  /\ a \o b \in Seq(T) /\ Len(a \o b) = Len(a) + Len(b)
         /\ \A i \in 1 .. Len(a) : (a \o b)[i] = a[i]
         /\ \A i \in 1 .. Len(b) : (a \o b)[Len(a) + i] = b[i]
OBVIOUS

\* One word of a text in the place of another.
LEMMA WordReplaced ==
  ASSUME NEW t \in Seq(Words), NEW at \in DOMAIN t, NEW w \in Words
  PROVE  (SubSeq(t, 1, at - 1) \o <<w>>) \o SubSeq(t, at + 1, Len(t)) = [t EXCEPT ![at] = w]
<1>1. at \in 1 .. Len(t) /\ Len(t) \in Nat
  OBVIOUS
<1>2. PICK a, b : a = SubSeq(t, 1, at - 1) /\ b = SubSeq(t, at + 1, Len(t))
  OBVIOUS
<1>3. /\ a \in Seq(Words) /\ Len(a) = at - 1 /\ \A i \in 1 .. at - 1 : a[i] = t[i]
      /\ b \in Seq(Words) /\ Len(b) = Len(t) - at /\ \A i \in 1 .. Len(t) - at : b[i] = t[at + i]
  BY <1>1, <1>2
<1>4. PICK c, d, e : c = a \o <<w>> /\ d = c \o b /\ e = [t EXCEPT ![at] = w]
  OBVIOUS
<1>5. c \in Seq(Words) /\ Len(c) = at /\ c[at] = w /\ \A i \in 1 .. at - 1 : c[i] = t[i]
  BY <1>1, <1>3, <1>4
<1>6. /\ d \in Seq(Words) /\ Len(d) = Len(t)
      /\ \A i \in 1 .. at : d[i] = c[i]
      /\ \A j \in 1 .. Len(t) - at : d[at + j] = b[j]
  <2>1. d = c \o b /\ c \in Seq(Words) /\ b \in Seq(Words) /\ Len(c) = at /\ Len(b) = Len(t) - at
    BY <1>3, <1>4, <1>5
  <2>2. PICK T, l, r : T = Words /\ l = c /\ r = b
    OBVIOUS
  <2>2a. l \in Seq(T) /\ r \in Seq(T) /\ d = l \o r
    BY <2>1, <2>2
  <2>2b. /\ d \in Seq(T) /\ Len(d) = Len(l) + Len(r)
         /\ \A i \in 1 .. Len(l) : d[i] = l[i]
         /\ \A j \in 1 .. Len(r) : d[Len(l) + j] = r[j]
    BY <2>2a, JoinFacts
  <2>3. at + (Len(t) - at) = Len(t)
    BY <1>1
  <2>4. QED
    BY <2>1, <2>2, <2>2b, <2>3
<1>7. e \in Seq(Words) /\ Len(e) = Len(t) /\ e[at] = w /\ \A i \in 1 .. Len(t) : i # at => e[i] = t[i]
  BY <1>1, <1>4
<1>8. \A i \in 1 .. Len(t) : d[i] = e[i]
  <2> TAKE i \in 1 .. Len(t)
  <2>1. CASE i < at
    <3>1. i \in 1 .. at - 1 /\ i \in 1 .. at /\ i # at
      BY <1>1, <2>1
    <3>2. QED
      BY <1>5, <1>6, <1>7, <3>1
  <2>2. CASE i = at
    BY <1>1, <1>5, <1>6, <1>7, <2>2
  <2>3. CASE i > at
    <3>1. PICK j : j = i - at
      OBVIOUS
    <3>2. j \in 1 .. Len(t) - at /\ at + j = i /\ i # at
      BY <1>1, <2>3, <3>1
    <3>3. d[at + j] = b[j] /\ b[j] = t[at + j] /\ e[i] = t[i]
      BY <1>3, <1>6, <1>7, <3>2
    <3>4. QED
      BY <3>2, <3>3
  <2>4. QED
    BY <1>1, <2>1, <2>2, <2>3
<1>9. d = e
  BY <1>6, <1>7, <1>8
<1>10. QED
  BY <1>2, <1>4, <1>9

LEMMA MentionFits ==
  ASSUME ComposerInv, NEW k \in DOMAIN menu.items, ApplyMentionSelection(k),
         \A q \in searches : q.seq # menu.seq, ~menu.stale
  PROVE  LET token == menu.range.token
             at == menu.range.at
         IN /\ box.text[at] = Word("at", token)
            /\ \/ menu.items[k] = "@workspace" /\ token \in WorkspaceTokens
               \/ /\ menu.items[k] \in ToSet(Found[token]) \cap ToSet(pins')
                  /\ box'.text = [box.text EXCEPT ![at] = Blank]
<1> DEFINE token == menu.range.token
           at == menu.range.at
<1>1. /\ menu.items \in Seq(Names) /\ box.text \in Seq(Words) /\ pins \in Seq(Names)
  BY DEF ComposerInv, ComposerTypes, MenuSet
<1>2. menu.items # << >>
  BY <1>1
<1>3. /\ menu.range.on /\ token \in DOMAIN Found
      /\ at \in DOMAIN box.text /\ box.text[at] = Word("at", token)
      /\ menu.items = Listed(token)
  BY <1>2 DEF ComposerInv, Mentions
<1>4. PICK f : f = Found[token]
  OBVIOUS
<1>5. f \in Seq(Names) /\ \A i \in DOMAIN f : f[i] # "@workspace"
  BY <1>3, <1>4, NamesAre
<1>6. CASE menu.items[k] = "@workspace"
  <2>1. ASSUME token \notin WorkspaceTokens PROVE FALSE
    <3>1. menu.items = << >> \o f
      BY <1>3, <1>4, <2>1 DEF Listed
    <3>2. menu.items = f
      BY <1>5, <3>1
    <3>3. QED
      BY <1>5, <1>6, <3>2
  <2>2. QED
    BY <1>3, <1>6, <2>1
<1>7. CASE menu.items[k] # "@workspace"
  <2>1. menu.items[k] \in ToSet(f)
    <3>1. CASE token \notin WorkspaceTokens
      <4>1. menu.items = << >> \o f
        BY <1>3, <1>4, <3>1 DEF Listed
      <4>2. menu.items = f
        BY <1>5, <4>1
      <4>3. QED
        BY <1>5, <4>2 DEF ToSet
    <3>2. CASE token \in WorkspaceTokens
      <4>1. PICK w : w = "@workspace"
        OBVIOUS
      <4>2. w \in Names /\ menu.items = << w >> \o f
        BY <1>3, <1>4, <3>2, <4>1, NamesAre DEF Listed
      <4>3. k \in 1 .. Len(f) + 1 /\ (k = 1 => menu.items[k] = w) /\ (k > 1 => menu.items[k] = f[k - 1])
        BY <1>5, <4>2
      <4>4. k - 1 \in DOMAIN f /\ menu.items[k] = f[k - 1]
        BY <1>5, <1>7, <4>1, <4>3
      <4>5. QED
        BY <4>4 DEF ToSet
    <3>3. QED
      BY <3>1, <3>2
  <2>2. /\ box' = [text |-> Replaced(<<Blank>>), caret |-> at]
        /\ pins' = IF menu.items[k] \in ToSet(pins) THEN pins ELSE Append(pins, menu.items[k])
    BY <1>7 DEF ApplyMentionSelection
  <2>3. menu.items[k] \in ToSet(pins')
    <3>1. CASE menu.items[k] \in ToSet(pins)
      BY <2>2, <3>1
    <3>2. CASE menu.items[k] \notin ToSet(pins)
      <4>1. PICK x : x = menu.items[k]
        OBVIOUS
      <4>2. x \in Names /\ pins' = Append(pins, x)
        BY <1>1, <2>2, <3>2, <4>1
      <4>3. Len(pins) + 1 \in DOMAIN pins' /\ pins'[Len(pins) + 1] = x
        BY <1>1, <4>2
      <4>4. QED
        BY <4>1, <4>3 DEF ToSet
    <3>3. QED
      BY <3>1, <3>2
  <2>4. at <= Len(box.text) /\ Blank \in Words
    <3>1. PICK t, n : t = box.text /\ n = at
      OBVIOUS
    <3>2. t \in Seq(Words) /\ n \in DOMAIN t
      BY <1>1, <1>3, <3>1
    <3>3. n <= Len(t)
      BY <3>2
    <3>4. QED
      BY <3>1, <3>3, BlankIs
  <2>5. box'.text = (SubSeq(box.text, 1, at - 1) \o <<Blank>>) \o SubSeq(box.text, at + 1, Len(box.text))
    BY <2>2, <2>4 DEF Replaced
  <2>6. box'.text = [box.text EXCEPT ![at] = Blank]
    <3>1. PICK t, w, e : t = box.text /\ w = Blank /\ e = box'.text
      OBVIOUS
    <3>2. t \in Seq(Words) /\ at \in DOMAIN t /\ w \in Words
      BY <1>1, <1>3, <2>4, <3>1
    <3>3. (SubSeq(t, 1, at - 1) \o <<w>>) \o SubSeq(t, at + 1, Len(t)) = [t EXCEPT ![at] = w]
      BY <3>2, WordReplaced
    <3>4. e = (SubSeq(t, 1, at - 1) \o <<w>>) \o SubSeq(t, at + 1, Len(t))
      BY <2>5, <3>1
    <3>5. e = [t EXCEPT ![at] = w]
      BY <3>3, <3>4
    <3>6. QED
      BY <3>1, <3>5
  <2>7. QED
    BY <1>3, <1>4, <2>1, <2>3, <2>6
<1>8. QED
  BY <1>6, <1>7

LEMMA CommandFits ==
  ASSUME ComposerInv, NEW k \in DOMAIN menu.slash, ApplySlashSelection(k), ~menu.stale
  PROVE  <<box.text[1].id, box'.text[1].id>> \in SlashBegins
<1>1. menu.slash \in Seq(Names) /\ box.text \in Seq(Words) /\ box.text # << >>
  BY DEF ComposerInv, ComposerTypes, MenuSet
<1>2. <<box.text[1].id, menu.slash[k]>> \in SlashBegins
  <2>1. menu.slash # << >>
    BY <1>1
  <2>2. QED
    BY <2>1 DEF ComposerInv, Slashes
<1>3. PICK w, rest : /\ w = Word("slash", menu.slash[k])
                     /\ rest = IF Len(box.text) = 1 THEN <<Blank>> ELSE Tail(box.text)
  OBVIOUS
<1>4. box' = [text |-> <<w>> \o rest, caret |-> 2]
  BY <1>3 DEF ApplySlashSelection
<1>5. rest \in Seq(Words)
  <2>1. PICK b, e : b = Blank /\ e = <<b>>
    OBVIOUS
  <2>2. e \in Seq(Words)
    <3>1. b \in Words
      BY <2>1, BlankIs
    <3>2. QED
      BY <2>1, <3>1
  <2>3. rest = IF Len(box.text) = 1 THEN e ELSE Tail(box.text)
    BY <1>3, <2>1
  <2>4. QED
    BY <1>1, <2>2, <2>3
<1>6. box'.text[1] = w
  BY <1>4, <1>5
<1>7. w.id = menu.slash[k]
  BY <1>3 DEF Word
<1>8. QED
  BY <1>2, <1>6, <1>7

LEMMA PicksAre == ComposerInv => PicksFitStep
BY MentionFits, CommandFits DEF PicksFitStep

\* What the user picks from a menu is what the menu was opened for, for any
\* commands and files, whatever is typed and in whatever order the host's answers
\* come back (applyMentionSelection, applySlashSelection, fileResults).
THEOREM PicksFitAlways == Spec => PicksFit
<1>1. Init => ComposerInv
  BY ComposerStart
<1>2. ComposerInv /\ [Next]_vars => ComposerInv'
  BY ComposerKeeps
<1>3. ComposerInv => [PicksFitStep]_composerVars
  BY PicksAre
<1>4. QED
  BY <1>1, <1>2, <1>3, PTL DEF Spec, PicksFit

-----------------------------------------------------------------------------
(* The webview and the host.                                                 *)

Kinds == {"user", "assistant", "preview", "error", "card", "answered"}
MsgTypes ==
  {"busy", "idle", "clear", "start", "reasoning", "delta", "done"} \cup (Kinds \ {"answered"})
MsgSet == [type : MsgTypes, turn : Nat, text : Seq(PieceSet)]
BubbleSet == [kind : Kinds, turn : Nat, text : Seq(PieceSet)]
ViewSet ==
  [mounted : BOOLEAN, bubbles : Seq(BubbleSet), active : Nat, lastPlan : BOOLEAN,
   pendingPlan : BOOLEAN, plan : BOOLEAN, agent : BOOLEAN, include : BOOLEAN,
   busy : BOOLEAN, approved : BOOLEAN, sends : Nat, last : Nat]

SendSet ==
  [type : {"send"}, plan : BOOLEAN, agent : BOOLEAN, include : BOOLEAN, pinned : BOOLEAN,
   given : BOOLEAN, send : Nat, approval : BOOLEAN, workspace : BOOLEAN]
ActionSet ==
  [plan : BOOLEAN, agent : BOOLEAN, include : BOOLEAN, given : BOOLEAN, pinned : BOOLEAN,
   send : Nat, approval : BOOLEAN, workspace : BOOLEAN]
ToHostSet ==
  [type : {"uiState"}, plan : BOOLEAN, agent : BOOLEAN] \cup [type : {"ready"}]
  \cup SendSet \cup [type : {"cancel"}] \cup [type : {"approval"}, turn : Nat, n : Nat]

Asked == SendSet \cup ActionSet
Sources == {"editor", "pins", "retrieved"}
Phases == {"idle", "prepare", "stream", "complete", "agent"}
TurnSet ==
  [phase : Phases, id : Nat, options : Asked \cup {<< >>}, n : Nat,
   text : Seq(PieceSet), held : Seq(PieceSet), emitted : BOOLEAN, started : BOOLEAN,
   reasoned : BOOLEAN, caught : BOOLEAN, retried : BOOLEAN, tooled : BOOLEAN, waiting : Nat,
   preview : SUBSET Sources, request : SUBSET Sources]
FactSet == [send : Nat, approval : BOOLEAN, plan : BOOLEAN]
HostSet ==
  [chat : Nat, store : Seq(Seq(ItemSet)), history : Seq(ItemSet), restored : Seq(ItemSet),
   plan : BOOLEAN, agent : BOOLEAN, replayed : BOOLEAN, turn : TurnSet,
   facts : Seq(FactSet), open : BOOLEAN, odd : SUBSET Nat]

\* The bubble of activeAssistant is an assistant's.
Writing(v) ==
  v.active # 0 => v.active \in DOMAIN v.bubbles /\ v.bubbles[v.active].kind = "assistant"

TypesFit(h, v, queue, answers) ==
  /\ v \in ViewSet /\ Writing(v)
  /\ h \in HostSet
  /\ queue \in Seq(MsgSet)
  /\ answers \in Seq(ToHostSet)
  /\ h.turn.phase = "prepare" => h.turn.options \in Asked
  /\ h.chat \in DOMAIN h.store

\* The webview once it has taken what is on its way.
Showing(v, queue) ==
  LET seen[n \in 0 .. Len(queue)] == IF n = 0 THEN v ELSE Shown(seen[n - 1], queue[n])
  IN seen

Shows(v, queue) == Showing(v, queue)[Len(queue)]

-----------------------------------------------------------------------------
(* Texts.                                                                    *)

\* The pieces of a text are of the turns S.
Of(text, S) == \A i \in DOMAIN text : text[i].turn \in S

\* The text t ends with the text s.
Ends(s, t) == \E u \in Seq(PieceSet) : t = u \o s

-----------------------------------------------------------------------------
(* Sequences.                                                                *)

LEMMA JoinEmpty ==
  ASSUME NEW T, NEW a \in Seq(T)
  PROVE  a \o << >> = a /\ << >> \o a = a
OBVIOUS

LEMMA JoinAppend ==
  ASSUME NEW T, NEW a \in Seq(T), NEW b \in Seq(T), NEW x \in T
  PROVE  a \o Append(b, x) = Append(a \o b, x)
<1>1. PICK u, v, l, r : u = Append(b, x) /\ v = a \o b /\ l = a \o u /\ r = Append(v, x)
  OBVIOUS
<1>2. u \in Seq(T) /\ v \in Seq(T)
  BY <1>1
<1>3. l \in Seq(T) /\ r \in Seq(T)
  BY <1>1, <1>2
<1>4. Len(l) = Len(a) + Len(b) + 1 /\ Len(r) = Len(a) + Len(b) + 1
  BY <1>1, <1>2
<1>5. ASSUME NEW k \in 1 .. Len(a) + Len(b) + 1 PROVE l[k] = r[k]
  <2>1. CASE k <= Len(a)
    BY <1>1, <1>2, <2>1
  <2>2. CASE k > Len(a) /\ k <= Len(a) + Len(b)
    BY <1>1, <1>2, <2>2
  <2>3. CASE k = Len(a) + Len(b) + 1
    BY <1>1, <1>2, <2>3
  <2>4. QED
    BY <2>1, <2>2, <2>3
<1>6. l = r
  BY <1>3, <1>4, <1>5
<1>7. QED
  BY <1>1, <1>6

LEMMA JoinJoin ==
  ASSUME NEW T, NEW a \in Seq(T), NEW b \in Seq(T)
  PROVE  \A c \in Seq(T) : a \o (b \o c) = (a \o b) \o c
<1> DEFINE P == {c \in Seq(T) : a \o (b \o c) = (a \o b) \o c}
<1>1. << >> \in P
  <2>1. a \o b \in Seq(T)
    BY JoinFacts
  <2>2. b \o << >> = b /\ (a \o b) \o << >> = a \o b
    BY <2>1, JoinEmpty
  <2>3. QED
    BY <2>2
<1>2. ASSUME NEW c \in Seq(T), c \in P, NEW x \in T PROVE Append(c, x) \in P
  <2>1. a \o b \in Seq(T) /\ b \o c \in Seq(T) /\ Append(c, x) \in Seq(T)
    BY JoinFacts
  <2>2. b \o Append(c, x) = Append(b \o c, x)
    BY JoinAppend
  <2>3. a \o Append(b \o c, x) = Append(a \o (b \o c), x)
    BY <2>1, JoinAppend
  <2>4. (a \o b) \o Append(c, x) = Append((a \o b) \o c, x)
    BY <2>1, JoinAppend
  <2>5. a \o (b \o c) = (a \o b) \o c
    BY <1>2
  <2>6. QED
    BY <2>1, <2>2, <2>3, <2>4, <2>5
<1>3. \A c \in Seq(T) : c \in P
  <2> HIDE DEF P
  <2>1. QED
    BY <1>1, <1>2, InductAppend
<1>4. QED
  BY <1>3

\* A list filtered in two parts.
LEMMA FilterJoin ==
  ASSUME NEW T, NEW a \in Seq(T), NEW S
  PROVE  \A b \in Seq(T) : Filter(a \o b, S) = Filter(a, S) \o Filter(b, S)
<1> DEFINE P == {b \in Seq(T) : Filter(a \o b, S) = Filter(a, S) \o Filter(b, S)}
<1>0. PICK e : e = << >>
  OBVIOUS
<1>1. e \in P
  <2>1. e \in Seq(T) /\ Len(e) = 0
    BY <1>0
  <2>2. Filter(e, S) = << >>
    BY <2>1, FilterEmpty
  <2>3. a \o e = a /\ Filter(a, S) \o << >> = Filter(a, S)
    BY <1>0, JoinEmpty, FilterType
  <2>4. QED
    BY <2>1, <2>2, <2>3
<1>2. ASSUME NEW b \in Seq(T), b \in P, NEW x \in T PROVE Append(b, x) \in P
  <2>1. a \o b \in Seq(T) /\ Append(b, x) \in Seq(T)
    BY JoinFacts
  <2>2. a \o Append(b, x) = Append(a \o b, x)
    BY JoinAppend
  <2>3. Filter(Append(a \o b, x), S) = IF x \in S THEN Append(Filter(a \o b, S), x) ELSE Filter(a \o b, S)
    BY <2>1, FilterAppend
  <2>4. Filter(Append(b, x), S) = IF x \in S THEN Append(Filter(b, S), x) ELSE Filter(b, S)
    BY FilterAppend
  <2>5. Filter(a \o b, S) = Filter(a, S) \o Filter(b, S)
    BY <1>2
  <2>6. Filter(a, S) \o Append(Filter(b, S), x) = Append(Filter(a, S) \o Filter(b, S), x)
    <3>1. Filter(a, S) \in Seq(T) /\ Filter(b, S) \in Seq(T)
      BY FilterType
    <3>2. QED
      BY <3>1, JoinAppend
  <2>7. Filter(a \o Append(b, x), S) = Filter(a, S) \o Filter(Append(b, x), S)
    BY <2>2, <2>3, <2>4, <2>5, <2>6
  <2>8. QED
    BY <2>1, <2>7
<1>3. \A b \in Seq(T) : b \in P
  <2> HIDE DEF P
  <2>1. QED
    BY <1>0, <1>1, <1>2, InductAppend
<1>4. QED
  BY <1>3

\* What two sets keep of a list; filtering what was filtered.
LEMMA FilterTwice ==
  ASSUME NEW T, NEW R, NEW S, S \cap T \subseteq R
  PROVE  \A list \in Seq(T) : Filter(Filter(list, R), S) = Filter(list, S)
<1> DEFINE P == {list \in Seq(T) : Filter(Filter(list, R), S) = Filter(list, S)}
<1>0. PICK e : e = << >>
  OBVIOUS
<1>1. e \in P
  <2>1. e \in Seq(T) /\ Len(e) = 0
    BY <1>0
  <2>2. Filter(e, S) = e /\ Filter(e, R) = e
    BY <1>0, <2>1, FilterEmpty
  <2>3. QED
    BY <2>1, <2>2
<1>2. ASSUME NEW b \in Seq(T), b \in P, NEW x \in T PROVE Append(b, x) \in P
  <2>1. Append(b, x) \in Seq(T) /\ Filter(b, R) \in Seq(T)
    BY FilterType
  <2>2. Filter(Append(b, x), R) = IF x \in R THEN Append(Filter(b, R), x) ELSE Filter(b, R)
    BY FilterAppend
  <2>3. Filter(Append(b, x), S) = IF x \in S THEN Append(Filter(b, S), x) ELSE Filter(b, S)
    BY FilterAppend
  <2>4. Filter(Append(Filter(b, R), x), S) =
          IF x \in S THEN Append(Filter(Filter(b, R), S), x) ELSE Filter(Filter(b, R), S)
    BY <2>1, FilterAppend
  <2>5. Filter(Filter(b, R), S) = Filter(b, S)
    BY <1>2
  <2>6. Filter(Filter(Append(b, x), R), S) = Filter(Append(b, x), S)
    BY <2>2, <2>3, <2>4, <2>5
  <2>7. QED
    BY <2>1, <2>6
<1>3. \A b \in Seq(T) : b \in P
  <2> HIDE DEF P
  <2>1. QED
    BY <1>0, <1>1, <1>2, InductAppend
<1>4. QED
  BY <1>3

\* Sets that agree on the elements of a list keep the same of it.
LEMMA FilterSame ==
  ASSUME NEW T, NEW list \in Seq(T), NEW R, NEW S,
         \A i \in 1 .. Len(list) : list[i] \in R <=> list[i] \in S
  PROVE  Filter(list, R) = Filter(list, S)
<1>1. PICK f, g, N : f = Filtered(list, R) /\ g = Filtered(list, S) /\ N = Len(list)
  OBVIOUS
<1>2. N \in Nat
  BY <1>1
<1>3. /\ f[0] = << >>
      /\ \A n \in 1 .. N : f[n] = IF list[n] \in R THEN Append(f[n - 1], list[n]) ELSE f[n - 1]
  BY <1>1, FilteredDef
<1>4. /\ g[0] = << >>
      /\ \A n \in 1 .. N : g[n] = IF list[n] \in S THEN Append(g[n - 1], list[n]) ELSE g[n - 1]
  BY <1>1, FilteredDef
<1> DEFINE Same == {n \in 0 .. N : g[n] = f[n]}
<1>5. 0 \in Same
  BY <1>2, <1>3, <1>4
<1>6. \A n \in 1 .. N : n - 1 \in Same => n \in Same
  BY <1>1, <1>2, <1>3, <1>4
<1>7. \A n \in 0 .. N : n \in Same
  <2> HIDE DEF Same
  <2>1. QED
    BY <1>2, <1>5, <1>6, InductTo
<1>8. f[N] = g[N]
  BY <1>2, <1>7
<1>9. QED
  BY <1>1, <1>8 DEF Filter

\* A set that none of its elements is in keeps nothing of a list.
LEMMA FilterNone ==
  ASSUME NEW T, NEW list \in Seq(T), NEW S, \A i \in 1 .. Len(list) : list[i] \notin S
  PROVE  Filter(list, S) = << >>
<1>1. PICK f : f = Filter(list, S)
  OBVIOUS
<1>2. f \in Seq(T)
  BY <1>1, FilterType
<1>3. ASSUME NEW i \in 1 .. Len(f) PROVE FALSE
  <2>1. \E j \in 1 .. Len(Filter(list, S)) : Filter(list, S)[j] = f[i]
    BY <1>1
  <2>2. f[i] \in S /\ \E k \in 1 .. Len(list) : list[k] = f[i]
    BY <2>1, FilterMembers
  <2>3. QED
    BY <2>2
<1>4. f = << >>
  BY <1>2, <1>3
<1>5. QED
  BY <1>1, <1>4

-----------------------------------------------------------------------------
(* A sequence at the end of another.                                         *)

LEMMA EndsFacts ==
  ASSUME NEW s \in Seq(PieceSet), NEW t \in Seq(PieceSet)
  PROVE  /\ Ends(s, s) /\ Ends(<< >>, t)
         /\ Ends(s, t) => \A x \in Seq(PieceSet) : Ends(s \o x, t \o x)
         /\ Ends(s, t) => \A S : Ends(Filter(s, S), Filter(t, S))
         /\ \A x \in Seq(PieceSet) : Ends(s \o x, t) => Ends(x, t)
         /\ Ends(s, t) => Len(s) <= Len(t) /\ \A i \in 1 .. Len(s) : s[i] = t[Len(t) - Len(s) + i]
<1>1. Ends(s, s)
  <2>1. PICK e : e = << >>
    OBVIOUS
  <2>2. e \in Seq(PieceSet) /\ e \o s = s
    BY <2>1, JoinEmpty
  <2>3. QED
    BY <2>2 DEF Ends
<1>2. Ends(<< >>, t)
  <2>1. t \o << >> = t
    BY JoinEmpty
  <2>2. QED
    BY <2>1 DEF Ends
<1>3. ASSUME Ends(s, t), NEW x \in Seq(PieceSet) PROVE Ends(s \o x, t \o x)
  <2>1. PICK u \in Seq(PieceSet) : t = u \o s
    BY <1>3 DEF Ends
  <2>2. t \o x = u \o (s \o x)
    BY <2>1, JoinJoin
  <2>3. QED
    BY <2>2 DEF Ends
<1>4. ASSUME Ends(s, t), NEW S PROVE Ends(Filter(s, S), Filter(t, S))
  <2>1. PICK u \in Seq(PieceSet) : t = u \o s
    BY <1>4 DEF Ends
  <2>2. Filter(t, S) = Filter(u, S) \o Filter(s, S)
    BY <2>1, FilterJoin
  <2>3. Filter(u, S) \in Seq(PieceSet)
    BY FilterType
  <2>4. QED
    BY <2>2, <2>3 DEF Ends
<1>5. ASSUME NEW x \in Seq(PieceSet), Ends(s \o x, t) PROVE Ends(x, t)
  <2>1. PICK u \in Seq(PieceSet) : t = u \o (s \o x)
    BY <1>5 DEF Ends
  <2>2. t = (u \o s) \o x
    BY <2>1, JoinJoin
  <2>3. u \o s \in Seq(PieceSet)
    BY JoinFacts
  <2>4. QED
    BY <2>2, <2>3 DEF Ends
<1>6. ASSUME Ends(s, t)
      PROVE  Len(s) <= Len(t) /\ \A i \in 1 .. Len(s) : s[i] = t[Len(t) - Len(s) + i]
  <2>1. PICK u \in Seq(PieceSet) : t = u \o s
    BY <1>6 DEF Ends
  <2>2. Len(t) = Len(u) + Len(s) /\ \A i \in 1 .. Len(s) : t[Len(u) + i] = s[i]
    BY <2>1, JoinFacts
  <2>3. Len(t) - Len(s) = Len(u) /\ Len(s) <= Len(t)
    BY <2>2
  <2>4. QED
    BY <2>2, <2>3
<1>7. QED
  BY <1>1, <1>2, <1>3, <1>4, <1>5, <1>6

LEMMA EndsIsSuffix ==
  ASSUME NEW s \in Seq(PieceSet), NEW t \in Seq(PieceSet), Ends(s, t)
  PROVE  IsSuffix(s, t)
<1>1. Len(s) <= Len(t) /\ \A i \in 1 .. Len(s) : s[i] = t[Len(t) - Len(s) + i]
  BY EndsFacts
<1>2. PICK a, b, m, n : a = Reverse(s) /\ b = Reverse(t) /\ m = Len(s) /\ n = Len(t)
  OBVIOUS
<1>3. m \in Nat /\ n \in Nat /\ m <= n
  BY <1>1, <1>2
<1>4. a = [i \in 1 .. m |-> s[(m - i) + 1]] /\ b = [i \in 1 .. n |-> t[(n - i) + 1]]
  BY <1>2 DEF Reverse
<1>5. a \in Seq(PieceSet) /\ b \in Seq(PieceSet) /\ Len(a) = m /\ Len(b) = n
  <2>1. \A i \in 1 .. m : s[(m - i) + 1] \in PieceSet
    BY <1>2, <1>3
  <2>2. \A i \in 1 .. n : t[(n - i) + 1] \in PieceSet
    BY <1>2, <1>3
  <2>3. a \in [1 .. m -> PieceSet] /\ b \in [1 .. n -> PieceSet]
    BY <1>4, <2>1, <2>2
  <2>4. QED
    BY <1>3, <2>3
<1>6. ASSUME NEW i \in 1 .. m PROVE a[i] = b[i]
  <2>1. PICK k : k = (m - i) + 1
    OBVIOUS
  <2>2. k \in 1 .. m /\ n - m + k = (n - i) + 1 /\ i \in 1 .. n
    BY <1>3, <2>1
  <2>3. s[k] = t[n - m + k]
    BY <1>1, <1>2, <2>2
  <2>4. QED
    BY <1>4, <2>1, <2>2, <2>3
<1>7. SubSeq(a, 1, m) = SubSeq(b, 1, m)
  BY <1>3, <1>5, <1>6
<1>8. IsPrefix(a, b)
  BY <1>3, <1>5, <1>7 DEF IsPrefix
<1>9. QED
  BY <1>2, <1>8 DEF IsSuffix

-----------------------------------------------------------------------------
(* splitThink.                                                               *)

ThinkState == [inside : BOOLEAN, answer : Seq(PieceSet)]

\* One piece more: of a thought, the beginning of one, or of the answer.
LEMMA ThinkStepIs ==
  ASSUME NEW s \in ThinkState, NEW p \in PieceSet
  PROVE  /\ ThinkStep(s, p) \in ThinkState
         /\ s.inside => /\ ThinkStep(s, p).answer = s.answer
                        /\ ThinkStep(s, p).inside = (p.is # "</think>")
         /\ ~s.inside /\ p.is = "<think>" =>
              ThinkStep(s, p).answer = s.answer /\ ThinkStep(s, p).inside
         /\ ~s.inside /\ p.is # "<think>" =>
              ThinkStep(s, p).answer = Append(s.answer, p) /\ ~ThinkStep(s, p).inside
<1>1. PICK o : o = ThinkStep(s, p)
  OBVIOUS
<1>2. CASE s.inside
  <2>1. PICK b : b = (p.is # "</think>")
    OBVIOUS
  <2>2. b \in BOOLEAN /\ o = [s EXCEPT !.inside = b]
    BY <1>1, <1>2, <2>1 DEF ThinkStep
  <2>3. o \in ThinkState /\ o.answer = s.answer /\ o.inside = b
    BY <2>2 DEF ThinkState
  <2>4. QED
    BY <1>1, <1>2, <2>1, <2>3
<1>3. CASE ~s.inside /\ p.is = "<think>"
  <2>1. PICK b : b = TRUE
    OBVIOUS
  <2>2. b \in BOOLEAN /\ o = [s EXCEPT !.inside = b]
    BY <1>1, <1>3, <2>1 DEF ThinkStep
  <2>3. o \in ThinkState /\ o.answer = s.answer /\ o.inside = b
    BY <2>2 DEF ThinkState
  <2>4. QED
    BY <1>1, <1>3, <2>1, <2>3
<1>4. CASE ~s.inside /\ p.is # "<think>"
  <2>1. PICK a : a = Append(s.answer, p)
    OBVIOUS
  <2>2. a \in Seq(PieceSet)
    BY <2>1 DEF ThinkState
  <2>3. o = [s EXCEPT !.answer = a]
    BY <1>1, <1>4, <2>1 DEF ThinkStep
  <2>4. o \in ThinkState /\ o.answer = a /\ o.inside = s.inside
    BY <2>2, <2>3 DEF ThinkState
  <2>5. QED
    BY <1>1, <1>4, <2>1, <2>4
<1>5. QED
  BY <1>2, <1>3, <1>4

LEMMA ThinkingDef ==
  ASSUME NEW text \in Seq(PieceSet)
  PROVE  /\ Thinking(text) \in [0 .. Len(text) -> ThinkState]
         /\ Thinking(text)[0] = [inside |-> FALSE, answer |-> << >>]
         /\ \A n \in 1 .. Len(text) : Thinking(text)[n] = ThinkStep(Thinking(text)[n - 1], text[n])
<1> DEFINE Step(a, n) == ThinkStep(a, text[n])
<1>0. PICK A, N, e : A = ThinkState /\ N = Len(text) /\ e = [inside |-> FALSE, answer |-> << >>]
  OBVIOUS
<1>1. N \in Nat /\ e \in A
  <2>1. PICK b, l : b = FALSE /\ l = << >>
    OBVIOUS
  <2>2. b \in BOOLEAN
    BY <2>1
  <2>3. l \in Seq(PieceSet)
    BY <2>1
  <2>4. e = [inside |-> b, answer |-> l]
    BY <1>0, <2>1
  <2>5. e \in ThinkState
    BY <2>2, <2>3, <2>4 DEF ThinkState
  <2>6. QED
    BY <1>0, <2>5
<1>1a. \A n \in 1 .. N, a \in A : Step(a, n) \in A
  <2>1. \A n \in 1 .. N : text[n] \in PieceSet
    BY <1>0
  <2>2. QED
    BY <1>0, <2>1, ThinkStepIs
<1>2. PICK step : step = [n \in 1 .. N |-> [a \in A |-> Step(a, n)]]
  OBVIOUS
<1>3. step \in [1 .. N -> [A -> A]]
  <2> HIDE DEF Step
  <2>1. QED
    BY <1>1a, <1>2
<1>5. PICK g \in [0 .. N -> A] : g[0] = e /\ \A n \in 1 .. N : g[n] = step[n][g[n - 1]]
  <2> HIDE DEF Step
  <2>1. QED
    BY <1>1, <1>3, Recursion, SMTT(60)
<1>6. \A n \in 1 .. N : g[n] = Step(g[n - 1], n)
  <2> HIDE DEF Step
  <2> TAKE n \in 1 .. N
  <2>1. g[n - 1] \in A
    BY <1>1, <1>5
  <2>2. QED
    BY <1>2, <1>5, <2>1
<1>7. g = [n \in 0 .. N |-> IF n = 0 THEN e ELSE Step(g[n - 1], n)]
  <2> HIDE DEF Step
  <2>1. QED
    BY <1>1, <1>5, <1>6
<1>8. PICK f : f = Thinking(text)
  OBVIOUS
<1>9. f = CHOOSE k : k = [n \in 0 .. N |-> IF n = 0 THEN e ELSE Step(k[n - 1], n)]
  <2>1. f = CHOOSE k : k = [n \in 0 .. Len(text) |-> IF n = 0 THEN [inside |-> FALSE, answer |-> << >>]
               ELSE ThinkStep(k[n - 1], text[n])]
    BY <1>8, Zenon DEF Thinking
  <2>2. QED
    BY <1>0, <2>1, Zenon
<1>10. f = [n \in 0 .. N |-> IF n = 0 THEN e ELSE Step(f[n - 1], n)]
  BY <1>7, <1>9, Zenon
<1>11. DOMAIN f = 0 .. N /\ f[0] = e /\ \A n \in 1 .. N : f[n] = Step(f[n - 1], n)
  <2> HIDE DEF Step
  <2>1. QED
    BY <1>1, <1>10
<1>12. \A n \in 0 .. N : f[n] \in A
  <2> DEFINE Typed == {n \in 0 .. N : f[n] \in A}
  <2>1. 0 \in Typed
    BY <1>1, <1>11
  <2>2. \A n \in 1 .. N : n - 1 \in Typed => n \in Typed
    <3> HIDE DEF Step
    <3>1. QED
      BY <1>1, <1>1a, <1>11
  <2>3. \A n \in 0 .. N : n \in Typed
    <3> HIDE DEF Typed
    <3>1. QED
      BY <1>1, <2>1, <2>2, InductTo
  <2>4. QED
    BY <2>3
<1>13. f = [n \in 0 .. N |-> f[n]]
  <2> HIDE DEF Step
  <2>1. QED
    BY <1>10
<1>14. f \in [0 .. N -> A]
  BY <1>12, <1>13
<1>15. QED
  BY <1>0, <1>8, <1>11, <1>14

\* splitThink of a text and one piece more.
LEMMA SplitThinkIs ==
  /\ SplitThink(<< >>).answer = << >> /\ ~SplitThink(<< >>).inside
  /\ \A text \in Seq(PieceSet) : SplitThink(text) \in ThinkState
  /\ \A text \in Seq(PieceSet), p \in PieceSet :
       SplitThink(Append(text, p)) = ThinkStep(SplitThink(text), p)
<1>1. SplitThink(<< >>).answer = << >> /\ ~SplitThink(<< >>).inside
  <2>1. PICK e : e = << >>
    OBVIOUS
  <2>2. e \in Seq(PieceSet) /\ Len(e) = 0
    BY <2>1
  <2>3. Thinking(e)[0] = [inside |-> FALSE, answer |-> << >>]
    BY <2>2, ThinkingDef
  <2>4. SplitThink(e) = [inside |-> FALSE, answer |-> << >>]
    BY <2>2, <2>3 DEF SplitThink
  <2>5. QED
    BY <2>1, <2>4
<1>2. ASSUME NEW text \in Seq(PieceSet) PROVE SplitThink(text) \in ThinkState
  <2>1. Len(text) \in 0 .. Len(text)
    OBVIOUS
  <2>2. QED
    BY <2>1, ThinkingDef DEF SplitThink
<1>3. ASSUME NEW text \in Seq(PieceSet), NEW p \in PieceSet
      PROVE  SplitThink(Append(text, p)) = ThinkStep(SplitThink(text), p)
  <2>1. PICK longer, f, g, N :
          longer = Append(text, p) /\ f = Thinking(text) /\ g = Thinking(longer) /\ N = Len(text)
    OBVIOUS
  <2>2. longer \in Seq(PieceSet) /\ N \in Nat /\ Len(longer) = N + 1 /\ longer[N + 1] = p
    BY <2>1
  <2>3. \A n \in 1 .. N : longer[n] = text[n]
    BY <2>1
  <2>4. PICK z : z = [inside |-> FALSE, answer |-> << >>]
    OBVIOUS
  <2>5. f[0] = z /\ \A n \in 1 .. N : f[n] = ThinkStep(f[n - 1], text[n])
    BY <2>1, <2>4, ThinkingDef
  <2>6. g[0] = z /\ \A n \in 1 .. N + 1 : g[n] = ThinkStep(g[n - 1], longer[n])
    BY <2>1, <2>2, <2>4, ThinkingDef
  <2> DEFINE Same == {n \in 0 .. N : g[n] = f[n]}
  <2>7. 0 \in Same
    BY <2>2, <2>5, <2>6
  <2>8. \A n \in 1 .. N : n - 1 \in Same => n \in Same
    BY <2>2, <2>3, <2>5, <2>6
  <2>9. \A n \in 0 .. N : n \in Same
    <3> HIDE DEF Same
    <3>1. QED
      BY <2>2, <2>7, <2>8, InductTo
  <2>10. g[N] = f[N] /\ g[N + 1] = ThinkStep(g[N], p)
    BY <2>2, <2>6, <2>9
  <2>11. QED
    BY <2>1, <2>2, <2>10 DEF SplitThink
<1>4. QED
  BY <1>1, <1>2, <1>3

\* The answer has pieces of the text only.
LEMMA AnswerOf ==
  ASSUME NEW S
  PROVE  \A text \in Seq(PieceSet) : Of(text, S) => Of(SplitThink(text).answer, S)
<1> DEFINE P == {text \in Seq(PieceSet) : Of(text, S) => Of(SplitThink(text).answer, S)}
<1>1. << >> \in P
  <2>1. Of(SplitThink(<< >>).answer, S)
    BY SplitThinkIs DEF Of
  <2>2. QED
    BY <2>1
<1>2. ASSUME NEW text \in Seq(PieceSet), text \in P, NEW p \in PieceSet PROVE Append(text, p) \in P
  <2> SUFFICES ASSUME Of(Append(text, p), S) PROVE Of(SplitThink(Append(text, p)).answer, S)
    OBVIOUS
  <2>1. PICK t, s, o : t = Append(text, p) /\ s = SplitThink(text) /\ o = SplitThink(t)
    OBVIOUS
  <2>2. t \in Seq(PieceSet) /\ Len(t) = Len(text) + 1 /\ t[Len(t)] = p /\ \A i \in 1 .. Len(text) : t[i] = text[i]
    BY <2>1
  <2>3. \A i \in 1 .. Len(t) : t[i].turn \in S
    BY <2>1, <2>2 DEF Of
  <2>4. p.turn \in S /\ \A i \in 1 .. Len(text) : text[i].turn \in S
    BY <2>2, <2>3
  <2>5. Of(s.answer, S)
    <3>1. Of(text, S)
      BY <2>4 DEF Of
    <3>2. QED
      BY <1>2, <2>1, <3>1
  <2>6. s \in ThinkState /\ o = ThinkStep(s, p)
    BY <2>1, SplitThinkIs
  <2>7. o.answer = s.answer \/ o.answer = Append(s.answer, p)
    BY <2>6, ThinkStepIs
  <2>8. s.answer \in Seq(PieceSet)
    BY <2>6 DEF ThinkState
  <2>9. Of(o.answer, S)
    <3>1. CASE o.answer = s.answer
      BY <2>5, <3>1
    <3>2. CASE o.answer = Append(s.answer, p)
      <4>1. PICK a, b : a = s.answer /\ b = Append(a, p)
        OBVIOUS
      <4>2. /\ a \in Seq(PieceSet) /\ b \in Seq(PieceSet) /\ Len(b) = Len(a) + 1
            /\ b[Len(b)] = p /\ \A i \in 1 .. Len(a) : b[i] = a[i]
        BY <2>8, <4>1
      <4>3. \A i \in 1 .. Len(a) : a[i].turn \in S
        BY <2>5, <4>1, <4>2 DEF Of
      <4>4. \A i \in 1 .. Len(b) : b[i].turn \in S
        BY <2>4, <4>2, <4>3
      <4>5. QED
        BY <3>2, <4>1, <4>2, <4>4 DEF Of
    <3>3. QED
      BY <2>7, <3>1, <3>2
  <2>10. QED
    BY <2>1, <2>9
<1>3. \A text \in Seq(PieceSet) : text \in P
  <2> HIDE DEF P
  <2>1. QED
    BY <1>1, <1>2, InductAppend
<1>4. QED
  BY <1>3

Loud(odd) == {p \in PieceSet : p.is \notin {"blank", "note"} /\ p.turn \notin odd}

\* Pieces that nothing is said with, left out of a text: its answer says the same.
LEMMA QuietLeftOut ==
  ASSUME NEW K, \A p \in PieceSet : p \notin K => p.is \in {"blank", "note"}, NEW odd
  PROVE  \A text \in Seq(PieceSet) :
           /\ SplitThink(Filter(text, K)).inside = SplitThink(text).inside
           /\ Filter(SplitThink(Filter(text, K)).answer, Loud(odd)) =
                Filter(SplitThink(text).answer, Loud(odd))
<1> DEFINE P == {text \in Seq(PieceSet) :
           /\ SplitThink(Filter(text, K)).inside = SplitThink(text).inside
           /\ Filter(SplitThink(Filter(text, K)).answer, Loud(odd)) =
                Filter(SplitThink(text).answer, Loud(odd))}
<1>1. << >> \in P
  <2>1. PICK e : e = << >>
    OBVIOUS
  <2>2. e \in Seq(PieceSet) /\ Len(e) = 0
    BY <2>1
  <2>3. Filter(e, K) = e
    BY <2>1, <2>2, FilterEmpty
  <2>4. QED
    BY <2>1, <2>2, <2>3
<1>2. ASSUME NEW text \in Seq(PieceSet), text \in P, NEW p \in PieceSet PROVE Append(text, p) \in P
  <2>1. PICK t, s, o, f, u, v :
          /\ t = Append(text, p) /\ s = SplitThink(text) /\ o = SplitThink(t)
          /\ f = Filter(text, K) /\ u = SplitThink(f) /\ v = SplitThink(Filter(t, K))
    OBVIOUS
  <2>2. t \in Seq(PieceSet) /\ f \in Seq(PieceSet)
    BY <2>1, FilterType
  <2>3. /\ s \in ThinkState /\ u \in ThinkState /\ o = ThinkStep(s, p)
        /\ s.answer \in Seq(PieceSet) /\ u.answer \in Seq(PieceSet)
    <3>1. s \in ThinkState /\ u \in ThinkState /\ o = ThinkStep(s, p)
      BY <2>1, <2>2, SplitThinkIs
    <3>2. QED
      BY <3>1 DEF ThinkState
  <2>4. u.inside = s.inside /\ Filter(u.answer, Loud(odd)) = Filter(s.answer, Loud(odd))
    BY <1>2, <2>1
  <2>5. Filter(t, K) = IF p \in K THEN Append(f, p) ELSE f
    BY <2>1, FilterAppend
  <2>6. /\ Filter(Append(s.answer, p), Loud(odd)) =
             IF p \in Loud(odd) THEN Append(Filter(s.answer, Loud(odd)), p) ELSE Filter(s.answer, Loud(odd))
        /\ Filter(Append(u.answer, p), Loud(odd)) =
             IF p \in Loud(odd) THEN Append(Filter(u.answer, Loud(odd)), p) ELSE Filter(u.answer, Loud(odd))
    BY <2>3, FilterAppend
  <2>7. CASE p \in K
    <3>1. v = ThinkStep(u, p)
      BY <2>1, <2>2, <2>5, <2>7, SplitThinkIs
    <3>2. v.inside = o.inside /\ Filter(v.answer, Loud(odd)) = Filter(o.answer, Loud(odd))
      <4>1. CASE s.inside
        <5>1. v.answer = u.answer /\ o.answer = s.answer
          BY <2>3, <2>4, <3>1, <4>1, ThinkStepIs
        <5>2. u.inside /\ s.inside
          BY <2>4, <4>1
        <5>3. ThinkStep(u, p).inside = (p.is # "</think>")
          BY <2>3, <5>2, ThinkStepIs
        <5>4. ThinkStep(s, p).inside = (p.is # "</think>")
          BY <2>3, <5>2, ThinkStepIs
        <5>5. v.inside = o.inside
          BY <2>3, <3>1, <5>3, <5>4
        <5>6. QED
          BY <2>4, <5>1, <5>5
      <4>2. CASE ~s.inside /\ p.is = "<think>"
        BY <2>3, <2>4, <3>1, <4>2, ThinkStepIs
      <4>3. CASE ~s.inside /\ p.is # "<think>"
        <5>1. v.answer = Append(u.answer, p) /\ o.answer = Append(s.answer, p) /\ ~v.inside /\ ~o.inside
          BY <2>3, <2>4, <3>1, <4>3, ThinkStepIs
        <5>2. Filter(v.answer, Loud(odd)) = Filter(o.answer, Loud(odd))
          BY <2>4, <2>6, <5>1
        <5>3. v.inside \in BOOLEAN /\ o.inside \in BOOLEAN
          BY <2>3, <3>1, ThinkStepIs DEF ThinkState
        <5>4. QED
          BY <5>1, <5>2, <5>3
      <4>4. QED
        BY <4>1, <4>2, <4>3
    <3>3. QED
      BY <2>1, <2>2, <3>2
  <2>8. CASE p \notin K
    <3>1. v = u
      BY <2>1, <2>5, <2>8
    <3>2. p.is \in {"blank", "note"} /\ p \notin Loud(odd)
      BY <1>2, <2>8 DEF Loud
    <3>3. o.inside = s.inside /\ (o.answer = s.answer \/ o.answer = Append(s.answer, p))
      <4>1. p.is # "</think>" /\ p.is # "<think>"
        BY <3>2
      <4>2. s.inside \in BOOLEAN /\ o.inside \in BOOLEAN
        BY <2>3, ThinkStepIs DEF ThinkState
      <4>3. CASE s.inside
        BY <2>3, <4>1, <4>2, <4>3, ThinkStepIs
      <4>4. CASE ~s.inside
        BY <2>3, <4>1, <4>2, <4>4, ThinkStepIs
      <4>5. QED
        BY <4>3, <4>4
    <3>4. v.inside = o.inside /\ Filter(v.answer, Loud(odd)) = Filter(o.answer, Loud(odd))
      BY <2>4, <2>6, <3>1, <3>2, <3>3
    <3>5. QED
      BY <2>1, <2>2, <3>4
  <2>9. QED
    BY <2>7, <2>8
<1>3. \A text \in Seq(PieceSet) : text \in P
  <2> HIDE DEF P
  <2>1. QED
    BY <1>1, <1>2, InductAppend
<1>4. QED
  BY <1>3

\* trim: blanks at both ends only, so that the same is said.
LEMMA TrimmedIs ==
  ASSUME NEW text \in Seq(PieceSet), \E i \in 1 .. Len(text) : Solid(text[i])
  PROVE  /\ Trimmed(text) \in Seq(PieceSet)
         /\ \A S : Of(text, S) => Of(Trimmed(text), S)
         /\ \A odd : Filter(SplitThink(Trimmed(text)).answer, Loud(odd)) =
                       Filter(SplitThink(text).answer, Loud(odd))
<1>1. PICK I, N : I = {i \in 1 .. Len(text) : Solid(text[i])} /\ N = Len(text)
  OBVIOUS
<1>2. N \in Nat /\ I \in SUBSET Nat /\ I # {} /\ \A i \in I : i \in 1 .. N
  BY <1>1
<1>3. PICK lo \in I : \A i \in I : lo <= i
  BY <1>2, Least
<1>4. PICK hi \in I : \A i \in I : i <= hi
  <2>1. PICK J : J = {n \in Nat : \E i \in I : n = N - i}
    OBVIOUS
  <2>2. J \in SUBSET Nat
    BY <2>1
  <2>3. N - lo \in J
    BY <1>2, <2>1
  <2>4. PICK k \in J : \A j \in J : k <= j
    BY <2>2, <2>3, Least
  <2>5. PICK h \in I : k = N - h
    BY <2>1
  <2>6. ASSUME NEW i \in I PROVE i <= h
    <3>1. N - i \in J /\ i \in 1 .. N /\ h \in 1 .. N
      BY <1>2, <2>1
    <3>2. k <= N - i
      BY <2>4, <3>1
    <3>3. QED
      BY <1>2, <2>5, <3>1, <3>2
  <2>7. QED
    BY <2>6
<1>5. PICK a, b : a = SelectInSeq(text, Solid) /\ b = SelectLastInSeq(text, Solid)
  OBVIOUS
<1>6. a \in I /\ \A i \in I : a <= i
  <2>1. a = Min(I)
    BY <1>1, <1>2, <1>5 DEF SelectInSeq
  <2>2. a = CHOOSE x \in I : \A y \in I : x =< y
    BY <2>1 DEF Min
  <2>3. QED
    BY <1>3, <2>2
<1>7. b \in I /\ \A i \in I : i <= b
  <2>1. b = Max(I)
    BY <1>1, <1>2, <1>5 DEF SelectLastInSeq
  <2>2. b = CHOOSE x \in I : \A y \in I : x >= y
    BY <2>1 DEF Max
  <2>3. \E x \in I : \A y \in I : x >= y
    <3>1. \A y \in I : hi >= y
      BY <1>2, <1>4
    <3>2. QED
      BY <3>1
  <2>4. b \in I /\ \A y \in I : b >= y
    BY <2>2, <2>3
  <2>5. QED
    BY <1>2, <2>4
<1>8. a \in 1 .. N /\ b \in 1 .. N /\ a <= b /\ Trimmed(text) = SubSeq(text, a, b)
  BY <1>2, <1>5, <1>6, <1>7 DEF Trimmed
<1>9. PICK front, middle, back, K :
        /\ front = SubSeq(text, 1, a - 1) /\ middle = SubSeq(text, a, b)
        /\ back = SubSeq(text, b + 1, N) /\ K = {p \in PieceSet : p.is # "blank"}
  OBVIOUS
<1>10. /\ front \in Seq(PieceSet) /\ Len(front) = a - 1 /\ \A i \in 1 .. a - 1 : front[i] = text[i]
       /\ middle \in Seq(PieceSet) /\ Len(middle) = b - a + 1
       /\ \A i \in 1 .. b - a + 1 : middle[i] = text[i + a - 1]
       /\ back \in Seq(PieceSet) /\ Len(back) = N - b /\ \A i \in 1 .. N - b : back[i] = text[i + b]
  BY <1>1, <1>2, <1>8, <1>9
<1>11. text = (front \o middle) \o back
  <2>1. PICK u, w : u = front \o middle /\ w = u \o back
    OBVIOUS
  <2>2. /\ u \in Seq(PieceSet) /\ Len(u) = b
        /\ \A i \in 1 .. Len(front) : u[i] = front[i]
        /\ \A i \in 1 .. Len(middle) : u[Len(front) + i] = middle[i]
    <3>0. front \in Seq(PieceSet) /\ middle \in Seq(PieceSet) /\ u = front \o middle
      BY <1>10, <2>1
    <3>1. /\ u \in Seq(PieceSet) /\ Len(u) = Len(front) + Len(middle)
          /\ \A i \in 1 .. Len(front) : u[i] = front[i]
          /\ \A i \in 1 .. Len(middle) : u[Len(front) + i] = middle[i]
      BY <3>0, JoinFacts
    <3>2. QED
      BY <1>8, <1>10, <3>1
  <2>3. /\ w \in Seq(PieceSet) /\ Len(w) = N
        /\ \A i \in 1 .. Len(u) : w[i] = u[i]
        /\ \A i \in 1 .. Len(back) : w[Len(u) + i] = back[i]
    <3>1. /\ w \in Seq(PieceSet) /\ Len(w) = Len(u) + Len(back)
          /\ \A i \in 1 .. Len(u) : w[i] = u[i]
          /\ \A i \in 1 .. Len(back) : w[Len(u) + i] = back[i]
      <4>1. u \in Seq(PieceSet) /\ back \in Seq(PieceSet) /\ w = u \o back
        BY <1>10, <2>1, <2>2
      <4>2. QED
        BY <4>1, JoinFacts
    <3>2. QED
      BY <1>2, <1>8, <1>10, <2>2, <3>1
  <2>4. ASSUME NEW i \in 1 .. N PROVE w[i] = text[i]
    <3>1. CASE i < a
      <4>1. i \in 1 .. Len(front) /\ i \in 1 .. Len(u) /\ i \in 1 .. a - 1
        BY <1>8, <1>10, <2>2, <3>1
      <4>2. QED
        BY <1>10, <2>2, <2>3, <4>1
    <3>2. CASE a <= i /\ i <= b
      <4>1. PICK j : j = i - a + 1
        OBVIOUS
      <4>2. j \in 1 .. Len(middle) /\ j \in 1 .. b - a + 1 /\ Len(front) + j = i /\ j + a - 1 = i /\ i \in 1 .. Len(u)
        BY <1>8, <1>10, <2>2, <3>2, <4>1
      <4>3. u[i] = middle[j] /\ middle[j] = text[i] /\ w[i] = u[i]
        BY <1>10, <2>2, <2>3, <4>2
      <4>4. QED
        BY <4>3
    <3>3. CASE b < i
      <4>1. PICK j : j = i - b
        OBVIOUS
      <4>2. j \in 1 .. Len(back) /\ j \in 1 .. N - b /\ Len(u) + j = i /\ j + b = i
        BY <1>2, <1>8, <1>10, <2>2, <3>3, <4>1
      <4>3. w[i] = back[j] /\ back[j] = text[i]
        BY <1>10, <2>3, <4>2
      <4>4. QED
        BY <4>3
    <3>4. QED
      BY <1>8, <3>1, <3>2, <3>3
  <2>5. w = text
    BY <1>1, <2>3, <2>4
  <2>6. QED
    BY <2>1, <2>5
<1>12. Filter(front, K) = << >> /\ Filter(back, K) = << >>
  <2>1. ASSUME NEW i \in 1 .. Len(front) PROVE front[i] \notin K
    <3>1. i \in 1 .. N /\ i < a /\ front[i] = text[i]
      BY <1>2, <1>8, <1>10
    <3>2. i \notin I
      BY <1>2, <1>6, <3>1
    <3>3. ~Solid(text[i])
      BY <1>1, <3>1, <3>2
    <3>4. QED
      BY <1>9, <3>1, <3>3 DEF Solid
  <2>2. ASSUME NEW i \in 1 .. Len(back) PROVE back[i] \notin K
    <3>1. i + b \in 1 .. N /\ i + b > b /\ back[i] = text[i + b]
      BY <1>2, <1>8, <1>10
    <3>2. i + b \notin I
      BY <1>2, <1>7, <1>8, <3>1
    <3>3. ~Solid(text[i + b])
      BY <1>1, <3>1, <3>2
    <3>4. QED
      BY <1>9, <3>1, <3>3 DEF Solid
  <2>3. QED
    BY <1>10, <2>1, <2>2, FilterNone
<1>13. Filter(text, K) = Filter(middle, K)
  <2>0. front \in Seq(PieceSet) /\ middle \in Seq(PieceSet) /\ back \in Seq(PieceSet)
    BY <1>10
  <2>1. front \o middle \in Seq(PieceSet)
    BY <2>0, JoinFacts
  <2>2. Filter(text, K) = Filter(front \o middle, K) \o Filter(back, K)
    <3>1. PICK u : u = front \o middle
      OBVIOUS
    <3>2. u \in Seq(PieceSet) /\ text = u \o back
      BY <1>11, <2>1, <3>1
    <3>3. Filter(u \o back, K) = Filter(u, K) \o Filter(back, K)
      BY <2>0, <3>2, FilterJoin
    <3>4. QED
      BY <3>1, <3>2, <3>3
  <2>3. Filter(front \o middle, K) = Filter(front, K) \o Filter(middle, K)
    BY <1>10, FilterJoin
  <2>4. Filter(middle, K) \in Seq(PieceSet)
    BY <1>10, FilterType
  <2>5. << >> \o Filter(middle, K) = Filter(middle, K) /\ Filter(middle, K) \o << >> = Filter(middle, K)
    BY <2>4, JoinEmpty
  <2>6. QED
    BY <1>12, <2>2, <2>3, <2>5
<1>14. ASSUME NEW odd
       PROVE  Filter(SplitThink(middle).answer, Loud(odd)) = Filter(SplitThink(text).answer, Loud(odd))
  <2>1. \A p \in PieceSet : p \notin K => p.is \in {"blank", "note"}
    BY <1>9
  <2>2. \A s \in Seq(PieceSet) : Filter(SplitThink(Filter(s, K)).answer, Loud(odd)) =
                                  Filter(SplitThink(s).answer, Loud(odd))
    BY <2>1, QuietLeftOut
  <2>3. Filter(SplitThink(Filter(middle, K)).answer, Loud(odd)) = Filter(SplitThink(middle).answer, Loud(odd))
    BY <1>10, <2>2
  <2>4. Filter(SplitThink(Filter(text, K)).answer, Loud(odd)) = Filter(SplitThink(text).answer, Loud(odd))
    BY <2>2
  <2>5. QED
    BY <1>13, <2>3, <2>4
<1>15. ASSUME NEW S, Of(text, S) PROVE Of(middle, S)
  <2>1. \A i \in 1 .. Len(middle) : i + a - 1 \in DOMAIN text /\ middle[i] = text[i + a - 1]
    BY <1>1, <1>8, <1>10
  <2>2. DOMAIN middle = 1 .. Len(middle)
    BY <1>10
  <2>3. QED
    BY <1>15, <2>1, <2>2 DEF Of
<1>16. QED
  BY <1>8, <1>9, <1>10, <1>14, <1>15

-----------------------------------------------------------------------------
(* What a list of messages tells.                                            *)

Roles == {"system", "user", "assistant", "tool"} \cup Kinds
LineSet == [role : Roles, turn : Nat, text : Seq(PieceSet)]
Heard(x, odd) == Counted(Says(x), odd)

LEMMA CountedIs ==
  ASSUME NEW text \in Seq(PieceSet), NEW odd
  PROVE  Counted(text, odd) = Filter(text, Loud(odd)) /\ Counted(text, odd) \in Seq(PieceSet)
<1>1. PICK R : R = {p \in ToSet(text) : p.is \notin {"blank", "note"} /\ p.turn \notin odd}
  OBVIOUS
<1>2. ASSUME NEW i \in 1 .. Len(text) PROVE text[i] \in R <=> text[i] \in Loud(odd)
  <2>1. text[i] \in PieceSet /\ text[i] \in ToSet(text)
    BY DEF ToSet
  <2>2. QED
    BY <1>1, <2>1 DEF Loud
<1>3. Filter(text, R) = Filter(text, Loud(odd))
  BY <1>2, FilterSame
<1>4. QED
  BY <1>1, <1>3, FilterType DEF Counted

LEMMA HeardIs ==
  ASSUME NEW x \in LineSet, NEW odd
  PROVE  /\ Says(x) \in Seq(PieceSet)
         /\ x.role = "user" => Heard(x, odd) = Filter(x.text, Loud(odd))
         /\ x.role = "assistant" => Heard(x, odd) = Filter(SplitThink(x.text).answer, Loud(odd))
         /\ Heard(x, odd) \in Seq(PieceSet)
         /\ Of(x.text, odd) \/ x.role \notin {"user", "assistant"} => Heard(x, odd) = << >>
         /\ \A more : odd \subseteq more => Heard(x, more) = Filter(Heard(x, odd), Loud(more))
<1>1. x.text \in Seq(PieceSet)
  BY DEF LineSet
<1>2. /\ x.role = "user" => Says(x) = x.text
      /\ x.role = "assistant" => Says(x) = SplitThink(x.text).answer
      /\ x.role \notin {"user", "assistant"} => Says(x) = << >>
  BY DEF Says
<1>3. SplitThink(x.text).answer \in Seq(PieceSet)
  BY <1>1, SplitThinkIs DEF ThinkState
<1>4. Says(x) \in Seq(PieceSet)
  <2>1. << >> \in Seq(PieceSet)
    OBVIOUS
  <2>2. QED
    BY <1>1, <1>2, <1>3, <2>1
<1>5. \A o : Heard(x, o) = Filter(Says(x), Loud(o)) /\ Heard(x, o) \in Seq(PieceSet)
  BY <1>4, CountedIs DEF Heard
<1>6. ASSUME Of(x.text, odd) \/ x.role \notin {"user", "assistant"} PROVE Heard(x, odd) = << >>
  <2>1. Of(Says(x), odd)
    <3>1. CASE x.role \notin {"user", "assistant"}
      BY <1>2, <3>1 DEF Of
    <3>2. CASE Of(x.text, odd) /\ x.role = "user"
      BY <1>2, <3>2
    <3>3. CASE Of(x.text, odd) /\ x.role = "assistant"
      BY <1>1, <1>2, <3>3, AnswerOf
    <3>4. QED
      BY <1>6, <3>1, <3>2, <3>3
  <2>2. PICK t : t = Says(x)
    OBVIOUS
  <2>3. ASSUME NEW i \in 1 .. Len(t) PROVE t[i] \notin Loud(odd)
    <3>1. t[i].turn \in odd
      BY <1>4, <2>1, <2>2 DEF Of
    <3>2. QED
      BY <3>1 DEF Loud
  <2>4. Filter(t, Loud(odd)) = << >>
    BY <1>4, <2>2, <2>3, FilterNone
  <2>5. QED
    BY <1>5, <2>2, <2>4
<1>7. ASSUME NEW more, odd \subseteq more PROVE Heard(x, more) = Filter(Heard(x, odd), Loud(more))
  <2>1. Loud(more) \cap PieceSet \subseteq Loud(odd)
    BY <1>7 DEF Loud
  <2>2. Filter(Filter(Says(x), Loud(odd)), Loud(more)) = Filter(Says(x), Loud(more))
    BY <1>4, <2>1, FilterTwice
  <2>3. QED
    BY <1>5, <2>2
<1>8. QED
  BY <1>2, <1>4, <1>5, <1>6, <1>7

LEMMA TellingDef ==
  ASSUME NEW list \in Seq(LineSet), NEW odd
  PROVE  /\ Telling(list, odd) \in [0 .. Len(list) -> Seq(PieceSet)]
         /\ Telling(list, odd)[0] = << >>
         /\ \A n \in 1 .. Len(list) :
              Telling(list, odd)[n] = Telling(list, odd)[n - 1] \o Counted(Says(list[n]), odd)
<1> DEFINE Step(a, n) == a \o Counted(Says(list[n]), odd)
<1>0. PICK A, N, e : A = Seq(PieceSet) /\ N = Len(list) /\ e = << >>
  OBVIOUS
<1>1. N \in Nat /\ e \in A
  <2>1. e \in A
    BY <1>0
  <2>2. N \in Nat
    BY <1>0
  <2>3. QED
    BY <2>1, <2>2
<1>1a. \A n \in 1 .. N, a \in A : Step(a, n) \in A
  <2>1. \A n \in 1 .. N : Counted(Says(list[n]), odd) \in A
    <3>1. \A n \in 1 .. N : list[n] \in LineSet
      BY <1>0
    <3>2. QED
      BY <1>0, <3>1, HeardIs DEF Heard
  <2>2. \A n \in 1 .. N, a \in A : a \o Counted(Says(list[n]), odd) \in A
    BY <1>0, <2>1, JoinFacts
  <2>3. QED
    BY <2>2
<1>2. PICK step : step = [n \in 1 .. N |-> [a \in A |-> Step(a, n)]]
  OBVIOUS
<1>3. step \in [1 .. N -> [A -> A]]
  <2> HIDE DEF Step
  <2>1. QED
    BY <1>1a, <1>2
<1>5. PICK g \in [0 .. N -> A] : g[0] = e /\ \A n \in 1 .. N : g[n] = step[n][g[n - 1]]
  <2> HIDE DEF Step
  <2>1. QED
    BY <1>1, <1>3, Recursion, SMTT(60)
<1>6. \A n \in 1 .. N : g[n] = Step(g[n - 1], n)
  <2> HIDE DEF Step
  <2> TAKE n \in 1 .. N
  <2>1. g[n - 1] \in A
    BY <1>1, <1>5
  <2>2. QED
    BY <1>2, <1>5, <2>1
<1>7. g = [n \in 0 .. N |-> IF n = 0 THEN e ELSE Step(g[n - 1], n)]
  <2> HIDE DEF Step
  <2>1. QED
    BY <1>1, <1>5, <1>6
<1>8. PICK f : f = Telling(list, odd)
  OBVIOUS
<1>9. f = CHOOSE k : k = [n \in 0 .. N |-> IF n = 0 THEN e ELSE Step(k[n - 1], n)]
  <2>1. f = CHOOSE k : k = [n \in 0 .. Len(list) |-> IF n = 0 THEN << >>
               ELSE k[n - 1] \o Counted(Says(list[n]), odd)]
    BY <1>8, Zenon DEF Telling
  <2>2. QED
    BY <1>0, <2>1, Zenon
<1>10. f = [n \in 0 .. N |-> IF n = 0 THEN e ELSE Step(f[n - 1], n)]
  BY <1>7, <1>9, Zenon
<1>11. DOMAIN f = 0 .. N /\ f[0] = e /\ \A n \in 1 .. N : f[n] = Step(f[n - 1], n)
  <2> HIDE DEF Step
  <2>1. QED
    BY <1>1, <1>10
<1>12. \A n \in 0 .. N : f[n] \in A
  <2> DEFINE Typed == {n \in 0 .. N : f[n] \in A}
  <2>1. 0 \in Typed
    BY <1>1, <1>11
  <2>2. \A n \in 1 .. N : n - 1 \in Typed => n \in Typed
    <3> HIDE DEF Step
    <3>1. QED
      BY <1>1, <1>1a, <1>11
  <2>3. \A n \in 0 .. N : n \in Typed
    <3> HIDE DEF Typed
    <3>1. QED
      BY <1>1, <2>1, <2>2, InductTo
  <2>4. QED
    BY <2>3
<1>13. f = [n \in 0 .. N |-> f[n]]
  <2> HIDE DEF Step
  <2>1. QED
    BY <1>10
<1>14. f \in [0 .. N -> A]
  BY <1>12, <1>13
<1>15. QED
  BY <1>0, <1>8, <1>11, <1>14

LEMMA TellingIs ==
  ASSUME NEW list \in Seq(LineSet), NEW odd
  PROVE  /\ Telling(list, odd) \in [0 .. Len(list) -> Seq(PieceSet)]
         /\ Telling(list, odd)[0] = << >>
         /\ \A n \in 1 .. Len(list) : Telling(list, odd)[n] = Telling(list, odd)[n - 1] \o Heard(list[n], odd)
         /\ \A n \in 1 .. Len(list) : list[n] \in LineSet /\ Heard(list[n], odd) \in Seq(PieceSet)
         /\ Said(list, odd) = Telling(list, odd)[Len(list)]
         /\ Said(list, odd) \in Seq(PieceSet)
<1>1. \A n \in 1 .. Len(list) : list[n] \in LineSet
  OBVIOUS
<1>2. Len(list) \in 0 .. Len(list)
  OBVIOUS
<1>3. /\ Telling(list, odd) \in [0 .. Len(list) -> Seq(PieceSet)]
      /\ Telling(list, odd)[0] = << >>
      /\ \A n \in 1 .. Len(list) : Telling(list, odd)[n] = Telling(list, odd)[n - 1] \o Heard(list[n], odd)
  BY TellingDef DEF Heard
<1>4. \A n \in 1 .. Len(list) : Heard(list[n], odd) \in Seq(PieceSet)
  BY <1>1, HeardIs
<1>5. QED
  BY <1>1, <1>2, <1>3, <1>4 DEF Said

\* Lists tell the same as far as what is heard of their messages is the same.
LEMMA TellingSame ==
  ASSUME NEW a \in Seq(LineSet), NEW b \in Seq(LineSet), NEW o, NEW p, NEW N \in Nat,
         N <= Len(a), N <= Len(b), \A i \in 1 .. N : Heard(a[i], o) = Heard(b[i], p)
  PROVE  \A n \in 0 .. N : Telling(a, o)[n] = Telling(b, p)[n]
<1>1. PICK f, g : f = Telling(a, o) /\ g = Telling(b, p)
  OBVIOUS
<1>2. \A n \in 1 .. N : n \in 1 .. Len(a) /\ n \in 1 .. Len(b)
  OBVIOUS
<1>3. /\ f[0] = << >> /\ g[0] = << >>
      /\ \A n \in 1 .. N : f[n] = f[n - 1] \o Heard(a[n], o)
      /\ \A n \in 1 .. N : g[n] = g[n - 1] \o Heard(b[n], p)
  BY <1>1, <1>2, TellingIs
<1> DEFINE Same == {n \in 0 .. N : f[n] = g[n]}
<1>4. 0 \in Same
  BY <1>3
<1>5. ASSUME NEW n \in 1 .. N, n - 1 \in Same PROVE n \in Same
  <2>1. f[n - 1] = g[n - 1] /\ Heard(a[n], o) = Heard(b[n], p) /\ n \in 0 .. N
    BY <1>5
  <2>2. f[n] = f[n - 1] \o Heard(a[n], o) /\ g[n] = g[n - 1] \o Heard(b[n], p)
    BY <1>3
  <2>3. f[n] = g[n]
    BY <2>1, <2>2
  <2>4. QED
    BY <2>1, <2>3
<1>6. \A n \in 0 .. N : n \in Same
  <2> HIDE DEF Same
  <2>1. QED
    BY <1>4, <1>5, InductTo
<1>7. QED
  BY <1>1, <1>6

\* With more turns left out.
LEMMA TellingOdd ==
  ASSUME NEW list \in Seq(LineSet), NEW odd, NEW more, odd \subseteq more
  PROVE  \A n \in 0 .. Len(list) : Telling(list, more)[n] = Filter(Telling(list, odd)[n], Loud(more))
<1>1. PICK f, g, N : f = Telling(list, odd) /\ g = Telling(list, more) /\ N = Len(list)
  OBVIOUS
<1>2. /\ N \in Nat /\ f \in [0 .. N -> Seq(PieceSet)]
      /\ f[0] = << >> /\ g[0] = << >>
      /\ \A n \in 1 .. N : f[n] = f[n - 1] \o Heard(list[n], odd)
      /\ \A n \in 1 .. N : g[n] = g[n - 1] \o Heard(list[n], more)
      /\ \A n \in 1 .. N : list[n] \in LineSet /\ Heard(list[n], odd) \in Seq(PieceSet)
  <2>1. N \in Nat
    BY <1>1
  <2>2. /\ f \in [0 .. N -> Seq(PieceSet)] /\ f[0] = << >>
        /\ \A n \in 1 .. N : f[n] = f[n - 1] \o Heard(list[n], odd)
    BY <1>1, TellingIs
  <2>3. /\ g[0] = << >>
        /\ \A n \in 1 .. N : g[n] = g[n - 1] \o Heard(list[n], more)
    BY <1>1, TellingIs
  <2>4. \A n \in 1 .. N : list[n] \in LineSet /\ Heard(list[n], odd) \in Seq(PieceSet)
    BY <1>1, TellingIs
  <2>5. QED
    BY <2>1, <2>2, <2>3, <2>4
<1> DEFINE Same == {n \in 0 .. N : g[n] = Filter(f[n], Loud(more))}
<1>3. 0 \in Same
  <2>1. PICK e : e = << >>
    OBVIOUS
  <2>2. e \in Seq(PieceSet) /\ Len(e) = 0
    BY <2>1
  <2>3. Filter(e, Loud(more)) = e
    BY <2>1, <2>2, FilterEmpty
  <2>4. QED
    BY <1>2, <2>1, <2>3
<1>4. ASSUME NEW n \in 1 .. N, n - 1 \in Same PROVE n \in Same
  <2>1. n - 1 \in 0 .. N /\ f[n - 1] \in Seq(PieceSet)
    BY <1>2
  <2>1a. PICK u, w : u = f[n - 1] /\ w = Heard(list[n], odd)
    OBVIOUS
  <2>1b. u \in Seq(PieceSet) /\ w \in Seq(PieceSet)
    BY <1>2, <2>1, <2>1a
  <2>1c. Filter(u \o w, Loud(more)) = Filter(u, Loud(more)) \o Filter(w, Loud(more))
    BY <2>1b, FilterJoin
  <2>2. Filter(f[n - 1] \o Heard(list[n], odd), Loud(more)) =
          Filter(f[n - 1], Loud(more)) \o Filter(Heard(list[n], odd), Loud(more))
    BY <2>1a, <2>1c
  <2>3. Heard(list[n], more) = Filter(Heard(list[n], odd), Loud(more))
    BY <1>2, HeardIs
  <2>4. g[n] = Filter(f[n], Loud(more))
    BY <1>2, <1>4, <2>2, <2>3
  <2>5. QED
    BY <2>4
<1>5. \A n \in 0 .. N : n \in Same
  <2> HIDE DEF Same
  <2>1. QED
    BY <1>2, <1>3, <1>4, InductTo
<1>6. QED
  BY <1>1, <1>5

\* From a message on, nothing is heard.
LEMMA TellingRest ==
  ASSUME NEW list \in Seq(LineSet), NEW odd, NEW k \in 0 .. Len(list),
         \A i \in 1 .. Len(list) : i > k => Heard(list[i], odd) = << >>
  PROVE  Said(list, odd) = Telling(list, odd)[k]
<1>1. PICK f, N : f = Telling(list, odd) /\ N = Len(list)
  OBVIOUS
<1>2. /\ N \in Nat /\ f \in [0 .. N -> Seq(PieceSet)]
      /\ \A n \in 1 .. N : f[n] = f[n - 1] \o Heard(list[n], odd)
      /\ Said(list, odd) = f[N]
  <2>1. N \in Nat
    BY <1>1
  <2>2. f \in [0 .. N -> Seq(PieceSet)]
    BY <1>1, TellingIs
  <2>3. \A n \in 1 .. N : f[n] = f[n - 1] \o Heard(list[n], odd)
    BY <1>1, TellingIs
  <2>4. Said(list, odd) = f[N]
    BY <1>1, TellingIs
  <2>5. QED
    BY <2>1, <2>2, <2>3, <2>4
<1> DEFINE Same == {n \in 0 .. N : n >= k => f[n] = f[k]}
<1>3. 0 \in Same
  BY <1>1, <1>2
<1>4. ASSUME NEW n \in 1 .. N, n - 1 \in Same PROVE n \in Same
  <2>1. CASE n > k
    <3>1. n - 1 \in 0 .. N /\ f[n - 1] \in Seq(PieceSet) /\ f[n - 1] = f[k]
      BY <1>1, <1>2, <1>4, <2>1
    <3>2. f[n] = f[n - 1] \o << >>
      BY <1>1, <1>2, <2>1
    <3>3. f[n] = f[k]
      BY <3>1, <3>2, JoinEmpty
    <3>4. QED
      BY <3>3
  <2>2. CASE n <= k
    BY <1>1, <1>2, <2>2
  <2>3. QED
    BY <1>1, <2>1, <2>2
<1>5. \A n \in 0 .. N : n \in Same
  <2> HIDE DEF Same
  <2>1. QED
    BY <1>2, <1>3, <1>4, InductTo
<1>6. f[N] = f[k]
  BY <1>1, <1>2, <1>5
<1>7. QED
  BY <1>1, <1>2, <1>6

LEMMA SaidEmpty ==
  /\ \A odd : Said(<< >>, odd) = << >>
  /\ \A list \in Seq(LineSet) : \A odd :
       (\A i \in 1 .. Len(list) : Heard(list[i], odd) = << >>) => Said(list, odd) = << >>
<1>1. ASSUME NEW list \in Seq(LineSet), NEW odd, \A i \in 1 .. Len(list) : Heard(list[i], odd) = << >>
      PROVE  Said(list, odd) = << >>
  <2>1. PICK k : k = 0
    OBVIOUS
  <2>2. k \in 0 .. Len(list)
    BY <2>1
  <2>3. Said(list, odd) = Telling(list, odd)[k]
    BY <1>1, <2>2, TellingRest
  <2>4. QED
    BY <2>1, <2>3, TellingIs
<1>2. ASSUME NEW odd PROVE Said(<< >>, odd) = << >>
  <2>1. PICK e : e = << >>
    OBVIOUS
  <2>2. e \in Seq(LineSet) /\ Len(e) = 0
    BY <2>1
  <2>2a. \A i \in 1 .. Len(e) : Heard(e[i], odd) = << >>
    BY <2>2
  <2>3. Said(e, odd) = << >>
    BY <1>1, <2>2, <2>2a
  <2>4. QED
    BY <2>1, <2>3
<1>3. QED
  BY <1>1, <1>2

LEMMA TellingAppend ==
  ASSUME NEW list \in Seq(LineSet), NEW x \in LineSet, NEW odd
  PROVE  /\ \A n \in 0 .. Len(list) : Telling(Append(list, x), odd)[n] = Telling(list, odd)[n]
         /\ Said(Append(list, x), odd) = Said(list, odd) \o Heard(x, odd)
<1>1. PICK longer, N : longer = Append(list, x) /\ N = Len(list)
  OBVIOUS
<1>2. /\ longer \in Seq(LineSet) /\ N \in Nat /\ Len(longer) = N + 1 /\ longer[N + 1] = x
      /\ \A n \in 1 .. N : longer[n] = list[n]
  BY <1>1
<1>3. \A n \in 0 .. N : Telling(longer, odd)[n] = Telling(list, odd)[n]
  <2>1. N <= Len(longer) /\ N <= Len(list) /\ \A i \in 1 .. N : Heard(longer[i], odd) = Heard(list[i], odd)
    BY <1>1, <1>2
  <2>2. QED
    BY <1>2, <2>1, TellingSame
<1>4. /\ Said(longer, odd) = Telling(longer, odd)[N + 1]
      /\ Telling(longer, odd)[N + 1] = Telling(longer, odd)[N] \o Heard(x, odd)
  <2>1. N + 1 \in 1 .. Len(longer) /\ (N + 1) - 1 = N
    BY <1>2
  <2>2. QED
    BY <1>2, <2>1, TellingIs
<1>5. Said(list, odd) = Telling(list, odd)[N] /\ Telling(longer, odd)[N] = Telling(list, odd)[N]
  <2>1. Said(list, odd) = Telling(list, odd)[N]
    BY <1>1, TellingIs
  <2>2. N \in 0 .. N
    BY <1>2
  <2>3. QED
    BY <1>3, <2>1, <2>2
<1>6. QED
  BY <1>1, <1>3, <1>4, <1>5

LEMMA SaidJoin ==
  ASSUME NEW a \in Seq(LineSet), NEW odd
  PROVE  \A b \in Seq(LineSet) : Said(a \o b, odd) = Said(a, odd) \o Said(b, odd)
<1> DEFINE P == {b \in Seq(LineSet) : Said(a \o b, odd) = Said(a, odd) \o Said(b, odd)}
<1>1. << >> \in P
  <2>1. a \o << >> = a /\ Said(<< >>, odd) = << >> /\ Said(a, odd) \in Seq(PieceSet)
    BY JoinEmpty, SaidEmpty, TellingIs
  <2>2. Said(a, odd) \o << >> = Said(a, odd)
    BY <2>1, JoinEmpty
  <2>3. QED
    BY <2>1, <2>2
<1>2. ASSUME NEW b \in Seq(LineSet), b \in P, NEW x \in LineSet PROVE Append(b, x) \in P
  <2>1. a \o b \in Seq(LineSet) /\ Append(b, x) \in Seq(LineSet) /\ Heard(x, odd) \in Seq(PieceSet)
    BY JoinFacts, HeardIs
  <2>2. a \o Append(b, x) = Append(a \o b, x)
    BY JoinAppend
  <2>3. Said(Append(a \o b, x), odd) = Said(a \o b, odd) \o Heard(x, odd)
    BY <2>1, TellingAppend
  <2>4. Said(Append(b, x), odd) = Said(b, odd) \o Heard(x, odd)
    BY TellingAppend
  <2>5. Said(a \o b, odd) = Said(a, odd) \o Said(b, odd)
    BY <1>2
  <2>6. (Said(a, odd) \o Said(b, odd)) \o Heard(x, odd) = Said(a, odd) \o (Said(b, odd) \o Heard(x, odd))
    <3>1. Said(a, odd) \in Seq(PieceSet) /\ Said(b, odd) \in Seq(PieceSet)
      BY TellingIs
    <3>2. QED
      BY <2>1, <3>1, JoinJoin
  <2>7. Said(a \o Append(b, x), odd) = Said(a, odd) \o Said(Append(b, x), odd)
    BY <2>2, <2>3, <2>4, <2>5, <2>6
  <2>8. QED
    BY <2>1, <2>7
<1>3. \A b \in Seq(LineSet) : b \in P
  <2> HIDE DEF P
  <2>1. QED
    BY <1>1, <1>2, InductAppend
<1>4. QED
  BY <1>3

LEMMA SplitAt ==
  ASSUME NEW T, NEW s \in Seq(T), NEW k \in 0 .. Len(s)
  PROVE  /\ SubSeq(s, 1, k) \in Seq(T) /\ SubSeq(s, k + 1, Len(s)) \in Seq(T)
         /\ s = SubSeq(s, 1, k) \o SubSeq(s, k + 1, Len(s))
         /\ Len(SubSeq(s, k + 1, Len(s))) = Len(s) - k
         /\ \A i \in 1 .. Len(s) - k : SubSeq(s, k + 1, Len(s))[i] = s[i + k]
<1>1. PICK a, b, c : a = SubSeq(s, 1, k) /\ b = SubSeq(s, k + 1, Len(s)) /\ c = a \o b
  OBVIOUS
<1>2. k \in Nat /\ Len(s) \in Nat /\ k <= Len(s)
  OBVIOUS
<1>3. a \in Seq(T) /\ Len(a) = k /\ \A i \in 1 .. k : a[i] = s[i]
  BY <1>1, <1>2
<1>4. b \in Seq(T) /\ Len(b) = Len(s) - k /\ \A i \in 1 .. Len(s) - k : b[i] = s[i + k]
  BY <1>1, <1>2
<1>5. /\ c \in Seq(T) /\ Len(c) = Len(a) + Len(b)
      /\ \A i \in 1 .. Len(a) : c[i] = a[i]
      /\ \A i \in 1 .. Len(b) : c[Len(a) + i] = b[i]
  <2>1. a \in Seq(T) /\ b \in Seq(T) /\ c = a \o b
    BY <1>1, <1>3, <1>4
  <2>2. QED
    BY <2>1, JoinFacts
<1>6. ASSUME NEW i \in 1 .. Len(s) PROVE c[i] = s[i]
  <2>1. CASE i <= k
    BY <1>2, <1>3, <1>5, <2>1
  <2>2. CASE i > k
    <3>1. PICK j : j = i - k
      OBVIOUS
    <3>2. j \in 1 .. Len(b) /\ j \in 1 .. Len(s) - k /\ Len(a) + j = i /\ j + k = i
      BY <1>2, <1>3, <1>4, <2>2, <3>1
    <3>3. c[i] = b[j] /\ b[j] = s[i]
      BY <1>4, <1>5, <3>2
    <3>4. QED
      BY <3>3
  <2>3. QED
    BY <1>2, <2>1, <2>2
<1>7. Len(c) = Len(s)
  BY <1>2, <1>3, <1>4, <1>5
<1>8. c = s
  BY <1>5, <1>6, <1>7
<1>9. QED
  BY <1>1, <1>3, <1>4, <1>8

-----------------------------------------------------------------------------
(* Items, bubbles, and the history.                                          *)

LEMMA ItemsAreLines ==
  /\ ItemSet \subseteq LineSet
  /\ Seq(ItemSet) \subseteq Seq(LineSet)
  /\ \A r \in Roles, t \in Nat, text \in Seq(PieceSet) :
       /\ Item(r, t, text) \in LineSet
       /\ Item(r, t, text).role = r /\ Item(r, t, text).turn = t /\ Item(r, t, text).text = text
  /\ \A r \in {"system", "user", "assistant", "tool"}, t \in Nat, text \in Seq(PieceSet) :
       Item(r, t, text) \in ItemSet
<1>1. ItemSet \subseteq LineSet
  BY DEF ItemSet, LineSet, Roles
<1>2. Seq(ItemSet) \subseteq Seq(LineSet)
  BY <1>1
<1>3. ASSUME NEW r \in Roles, NEW t \in Nat, NEW text \in Seq(PieceSet)
      PROVE  /\ Item(r, t, text) \in LineSet
             /\ Item(r, t, text).role = r /\ Item(r, t, text).turn = t /\ Item(r, t, text).text = text
  BY DEF Item, LineSet
<1>4. ASSUME NEW r \in {"system", "user", "assistant", "tool"}, NEW t \in Nat, NEW text \in Seq(PieceSet)
      PROVE  Item(r, t, text) \in ItemSet
  BY DEF Item, ItemSet
<1>5. QED
  BY <1>1, <1>2, <1>3, <1>4

LEMMA OnScreenIs ==
  ASSUME NEW bubbles \in Seq(BubbleSet)
  PROVE  /\ OnScreen(bubbles) \in Seq(LineSet) /\ Len(OnScreen(bubbles)) = Len(bubbles)
         /\ \A i \in 1 .. Len(bubbles) :
              /\ OnScreen(bubbles)[i] = Item(bubbles[i].kind, bubbles[i].turn, bubbles[i].text)
              /\ OnScreen(bubbles)[i] \in LineSet
              /\ OnScreen(bubbles)[i].role = bubbles[i].kind
              /\ OnScreen(bubbles)[i].text = bubbles[i].text
<1>1. PICK f, N : f = OnScreen(bubbles) /\ N = Len(bubbles)
  OBVIOUS
<1>2. f = [i \in 1 .. N |-> Item(bubbles[i].kind, bubbles[i].turn, bubbles[i].text)] /\ N \in Nat
  BY <1>1 DEF OnScreen
<1>3. ASSUME NEW i \in 1 .. N
      PROVE  /\ Item(bubbles[i].kind, bubbles[i].turn, bubbles[i].text) \in LineSet
             /\ f[i] = Item(bubbles[i].kind, bubbles[i].turn, bubbles[i].text)
             /\ f[i].role = bubbles[i].kind /\ f[i].text = bubbles[i].text
  <2>1. bubbles[i] \in BubbleSet
    BY <1>1
  <2>2. bubbles[i].kind \in Roles /\ bubbles[i].turn \in Nat /\ bubbles[i].text \in Seq(PieceSet)
    BY <2>1 DEF BubbleSet, Roles
  <2>3. f[i] = Item(bubbles[i].kind, bubbles[i].turn, bubbles[i].text)
    BY <1>2
  <2>4. QED
    BY <2>2, <2>3, ItemsAreLines
<1>4. f \in [1 .. N -> LineSet]
  <2>1. \A i \in 1 .. N : Item(bubbles[i].kind, bubbles[i].turn, bubbles[i].text) \in LineSet
    BY <1>3
  <2>2. QED
    BY <1>2, <2>1
<1>5. f \in Seq(LineSet) /\ Len(f) = N
  BY <1>2, <1>4
<1>6. QED
  BY <1>1, <1>3, <1>5

\* What is read on the screen, bubble by bubble.
LEMMA ReadingIs ==
  ASSUME NEW bubbles \in Seq(BubbleSet), NEW odd
  PROVE  LET list == OnScreen(bubbles)
         IN /\ Telling(list, odd) \in [0 .. Len(bubbles) -> Seq(PieceSet)]
            /\ Telling(list, odd)[0] = << >>
            /\ \A n \in 1 .. Len(bubbles) :
                 Telling(list, odd)[n] = Telling(list, odd)[n - 1] \o Heard(list[n], odd)
            /\ \A n \in 1 .. Len(bubbles) : Heard(list[n], odd) \in Seq(PieceSet)
            /\ Said(list, odd) = Telling(list, odd)[Len(bubbles)]
            /\ \A n \in 1 .. Len(bubbles) :
                 Of(bubbles[n].text, odd) \/ bubbles[n].kind \notin {"user", "assistant"} =>
                   Heard(list[n], odd) = << >>
            /\ \A n \in 1 .. Len(bubbles) :
                 bubbles[n].kind = "assistant" =>
                   Heard(list[n], odd) = Filter(SplitThink(bubbles[n].text).answer, Loud(odd))
<1>1. PICK list : list = OnScreen(bubbles)
  OBVIOUS
<1>2. /\ list \in Seq(LineSet) /\ Len(list) = Len(bubbles)
      /\ \A n \in 1 .. Len(bubbles) :
           list[n] \in LineSet /\ list[n].role = bubbles[n].kind /\ list[n].text = bubbles[n].text
  BY <1>1, OnScreenIs
<1>3. /\ Telling(list, odd) \in [0 .. Len(bubbles) -> Seq(PieceSet)]
      /\ Telling(list, odd)[0] = << >>
      /\ Said(list, odd) = Telling(list, odd)[Len(bubbles)]
  BY <1>2, TellingIs
<1>4. \A n \in 1 .. Len(bubbles) :
        /\ Telling(list, odd)[n] = Telling(list, odd)[n - 1] \o Heard(list[n], odd)
        /\ Heard(list[n], odd) \in Seq(PieceSet)
  BY <1>2, TellingIs
<1>5. ASSUME NEW n \in 1 .. Len(bubbles)
      PROVE  /\ Of(bubbles[n].text, odd) \/ bubbles[n].kind \notin {"user", "assistant"} =>
                  Heard(list[n], odd) = << >>
             /\ bubbles[n].kind = "assistant" =>
                  Heard(list[n], odd) = Filter(SplitThink(bubbles[n].text).answer, Loud(odd))
  <2>1. list[n] \in LineSet /\ list[n].role = bubbles[n].kind /\ list[n].text = bubbles[n].text
    BY <1>2
  <2>2. QED
    BY <2>1, HeardIs
<1>6. QED
  BY <1>1, <1>3, <1>4, <1>5

\* trimHistory keeps the end of what is said.
LEMMA TrimIs ==
  ASSUME NEW h \in Seq(ItemSet)
  PROVE  /\ Trim(h) \in Seq(ItemSet)
         /\ \A i \in 1 .. Len(Trim(h)) : \E j \in 1 .. Len(h) : Trim(h)[i] = h[j]
         /\ \A odd : \E u \in Seq(PieceSet) : Said(h, odd) = u \o Said(Trim(h), odd)
<1>1. HistoryCap \in Nat /\ HistoryCap > 0 /\ Len(h) \in Nat
  BY TurnAssumption
<1>2. CASE Len(h) > HistoryCap
  <2>1. PICK k, a, b : /\ k = Len(h) - HistoryCap
                       /\ a = SubSeq(h, 1, k) /\ b = SubSeq(h, k + 1, Len(h))
    OBVIOUS
  <2>2. k \in 0 .. Len(h) /\ Trim(h) = b
    BY <1>1, <1>2, <2>1 DEF Trim
  <2>3. /\ a \in Seq(ItemSet) /\ b \in Seq(ItemSet) /\ h = a \o b
        /\ Len(b) = Len(h) - k /\ \A i \in 1 .. Len(h) - k : b[i] = h[i + k]
    <3>1. k \in 0 .. Len(h)
      BY <2>2
    <3>2. /\ SubSeq(h, 1, k) \in Seq(ItemSet) /\ SubSeq(h, k + 1, Len(h)) \in Seq(ItemSet)
          /\ h = SubSeq(h, 1, k) \o SubSeq(h, k + 1, Len(h))
          /\ Len(SubSeq(h, k + 1, Len(h))) = Len(h) - k
          /\ \A i \in 1 .. Len(h) - k : SubSeq(h, k + 1, Len(h))[i] = h[i + k]
      BY <3>1, SplitAt, Zenon
    <3>3. QED
      BY <2>1, <3>2, Zenon
  <2>4. a \in Seq(LineSet) /\ b \in Seq(LineSet)
    BY <2>3, ItemsAreLines
  <2>5. ASSUME NEW odd PROVE Said(a, odd) \in Seq(PieceSet) /\ Said(h, odd) = Said(a, odd) \o Said(b, odd)
    BY <2>3, <2>4, SaidJoin, TellingIs
  <2>6. ASSUME NEW i \in 1 .. Len(b) PROVE \E j \in 1 .. Len(h) : b[i] = h[j]
    <3>1. i + k \in 1 .. Len(h) /\ b[i] = h[i + k]
      BY <1>1, <2>2, <2>3
    <3>2. QED
      BY <3>1
  <2>7. QED
    BY <2>2, <2>3, <2>5, <2>6
<1>3. CASE ~(Len(h) > HistoryCap)
  <2>1. Trim(h) = h
    BY <1>3 DEF Trim
  <2>2. h \in Seq(LineSet)
    BY ItemsAreLines
  <2>3. ASSUME NEW odd PROVE \E u \in Seq(PieceSet) : Said(h, odd) = u \o Said(h, odd)
    <3>1. PICK e : e = << >>
      OBVIOUS
    <3>2. e \in Seq(PieceSet) /\ e \o Said(h, odd) = Said(h, odd)
      BY <2>2, <3>1, JoinEmpty, TellingIs
    <3>3. QED
      BY <3>2
  <2>4. QED
    BY <2>1, <2>3
<1>4. QED
  BY <1>2, <1>3

\* The agent's messages, one by one, say what all of them together say, unless a
\* thought stays open between two of them.
LEMMA NarrationsSay ==
  ASSUME NEW text \in Seq(PieceSet), NEW t \in Nat, NEW odd,
         \A i \in 1 .. Len(text) - 1 : ~SplitThink(SubSeq(text, 1, i)).inside
  PROVE  LET said == [i \in DOMAIN text |-> Item("assistant", t, <<text[i]>>)]
         IN /\ said \in Seq(ItemSet) /\ Len(said) = Len(text)
            /\ \A i \in 1 .. Len(text) : said[i] = Item("assistant", t, <<text[i]>>)
            /\ Said(said, odd) = Filter(SplitThink(text).answer, Loud(odd))
<1>1. PICK said, N : said = [i \in DOMAIN text |-> Item("assistant", t, <<text[i]>>)] /\ N = Len(text)
  OBVIOUS
<1>2. N \in Nat /\ DOMAIN text = 1 .. N /\ \A i \in 1 .. N : text[i] \in PieceSet
  BY <1>1
<1>3. ASSUME NEW i \in 1 .. N
      PROVE  /\ Item("assistant", t, <<text[i]>>) \in ItemSet
             /\ Heard(Item("assistant", t, <<text[i]>>), odd) =
                  Filter(SplitThink(<<text[i]>>).answer, Loud(odd))
  <2>1. PICK p, s : p = text[i] /\ s = <<p>>
    OBVIOUS
  <2>2. s \in Seq(PieceSet)
    BY <1>2, <2>1
  <2>3. /\ Item("assistant", t, s) \in ItemSet /\ Item("assistant", t, s) \in LineSet
        /\ Item("assistant", t, s).role = "assistant" /\ Item("assistant", t, s).text = s
    BY <2>2, ItemsAreLines DEF Roles
  <2>4. Heard(Item("assistant", t, s), odd) = Filter(SplitThink(s).answer, Loud(odd))
    BY <2>3, HeardIs
  <2>5. QED
    BY <2>1, <2>3, <2>4
<1>4. said \in Seq(ItemSet) /\ Len(said) = N /\ \A i \in 1 .. N : said[i] = Item("assistant", t, <<text[i]>>)
  <2>1. said = [i \in 1 .. N |-> Item("assistant", t, <<text[i]>>)]
    BY <1>1, <1>2
  <2>2. said \in [1 .. N -> ItemSet]
    BY <1>3, <2>1
  <2>3. QED
    BY <1>2, <2>1, <2>2
<1>5. PICK f : f = Telling(said, odd)
  OBVIOUS
<1>6. said \in Seq(LineSet)
  BY <1>4, ItemsAreLines
<1>7. /\ f[0] = << >> /\ Said(said, odd) = f[N]
      /\ \A n \in 1 .. N : f[n] = f[n - 1] \o Filter(SplitThink(<<text[n]>>).answer, Loud(odd))
  <2>1. /\ f[0] = << >> /\ Said(said, odd) = f[N]
        /\ \A n \in 1 .. N : f[n] = f[n - 1] \o Heard(said[n], odd)
    BY <1>4, <1>5, <1>6, TellingIs
  <2>2. \A n \in 1 .. N : Heard(said[n], odd) = Filter(SplitThink(<<text[n]>>).answer, Loud(odd))
    BY <1>3, <1>4
  <2>3. QED
    BY <2>1, <2>2
<1> DEFINE S == {n \in 0 .. N : f[n] = Filter(SplitThink(SubSeq(text, 1, n)).answer, Loud(odd))}
<1>8. 0 \in S
  <2>1. PICK e : e = << >>
    OBVIOUS
  <2>2. e \in Seq(PieceSet) /\ Len(e) = 0 /\ SubSeq(text, 1, 0) = e
    BY <2>1, PrefixFacts
  <2>3. SplitThink(e).answer = e
    BY <2>1, SplitThinkIs
  <2>4. Filter(e, Loud(odd)) = e
    BY <2>1, <2>2, FilterEmpty
  <2>5. f[0] = Filter(SplitThink(SubSeq(text, 1, 0)).answer, Loud(odd))
    BY <1>7, <2>1, <2>2, <2>3, <2>4, Zenon
  <2>6. 0 \in 0 .. N
    BY <1>2
  <2>7. QED
    BY <2>5, <2>6
<1>9. ASSUME NEW n \in 1 .. N, n - 1 \in S PROVE n \in S
  <2>1. PICK pre, p, s, a : /\ pre = SubSeq(text, 1, n - 1) /\ p = text[n]
                            /\ s = SplitThink(pre) /\ a = s.answer
    OBVIOUS
  <2>2. pre \in Seq(PieceSet) /\ p \in PieceSet /\ SubSeq(text, 1, n) = Append(pre, p)
    BY <1>1, <2>1, PrefixFacts
  <2>3. s \in ThinkState /\ a \in Seq(PieceSet)
    BY <2>1, <2>2, SplitThinkIs DEF ThinkState
  <2>4. ~s.inside
    <3>1. CASE n = 1
      <4>1. pre = << >>
        BY <2>1, <3>1, PrefixFacts
      <4>2. QED
        BY <2>1, <4>1, SplitThinkIs
    <3>2. CASE n # 1
      <4>1. n - 1 \in 1 .. Len(text) - 1
        BY <1>1, <1>2, <3>2
      <4>2. QED
        BY <2>1, <4>1
    <3>3. QED
      BY <3>1, <3>2
  <2>5. SplitThink(SubSeq(text, 1, n)) = ThinkStep(s, p)
    BY <2>1, <2>2, SplitThinkIs
  <2>6. PICK e, one : e = << >> /\ one = <<p>>
    OBVIOUS
  <2>7. e \in Seq(PieceSet) /\ Len(e) = 0 /\ one = Append(e, p) /\ one \in Seq(PieceSet)
    BY <2>2, <2>6
  <2>8. /\ SplitThink(e) \in ThinkState /\ SplitThink(e).answer = e /\ ~SplitThink(e).inside
        /\ SplitThink(one) = ThinkStep(SplitThink(e), p)
    BY <2>2, <2>6, <2>7, SplitThinkIs
  <2>9. f[n] = Filter(a, Loud(odd)) \o Filter(SplitThink(one).answer, Loud(odd))
    <3>1. f[n - 1] = Filter(a, Loud(odd))
      BY <1>9, <2>1
    <3>2. f[n] = f[n - 1] \o Filter(SplitThink(<<text[n]>>).answer, Loud(odd))
      BY <1>7
    <3>3. QED
      BY <2>1, <2>6, <3>1, <3>2
  <2>10. CASE p.is = "<think>"
    <3>1. ThinkStep(s, p).answer = a /\ SplitThink(one).answer = e
      BY <2>1, <2>2, <2>3, <2>4, <2>8, <2>10, ThinkStepIs
    <3>2. Filter(e, Loud(odd)) = e
      BY <2>6, <2>7, FilterEmpty
    <3>3. Filter(a, Loud(odd)) \o e = Filter(a, Loud(odd))
      BY <2>3, <2>6, FilterType, JoinEmpty
    <3>4. f[n] = Filter(SplitThink(SubSeq(text, 1, n)).answer, Loud(odd))
      BY <2>5, <2>9, <3>1, <3>2, <3>3
    <3>5. n \in 0 .. N
      BY <1>2
    <3>6. QED
      BY <3>4, <3>5
  <2>11. CASE p.is # "<think>"
    <3>1. ThinkStep(s, p).answer = Append(a, p) /\ SplitThink(one).answer = one
      <4>1. ThinkStep(s, p).answer = Append(s.answer, p)
        BY <2>2, <2>3, <2>4, <2>11, ThinkStepIs
      <4>2. ThinkStep(SplitThink(e), p).answer = Append(SplitThink(e).answer, p)
        BY <2>2, <2>8, <2>11, ThinkStepIs
      <4>3. QED
        BY <2>1, <2>7, <2>8, <4>1, <4>2, Zenon
    <3>2. Append(a, p) = a \o one
      BY <2>2, <2>3, <2>6, <2>7
    <3>3. Filter(a \o one, Loud(odd)) = Filter(a, Loud(odd)) \o Filter(one, Loud(odd))
      <4>1. a \in Seq(PieceSet) /\ one \in Seq(PieceSet)
        BY <2>3, <2>7
      <4>2. QED
        <5>1. PICK K : K = Loud(odd)
          OBVIOUS
        <5>2. \A b \in Seq(PieceSet) : Filter(a \o b, K) = Filter(a, K) \o Filter(b, K)
          BY <4>1, FilterJoin
        <5>3. QED
          BY <4>1, <5>1, <5>2
    <3>4. f[n] = Filter(SplitThink(SubSeq(text, 1, n)).answer, Loud(odd))
      BY <2>5, <2>9, <3>1, <3>2, <3>3
    <3>5. n \in 0 .. N
      BY <1>2
    <3>6. QED
      BY <3>4, <3>5
  <2>12. QED
    BY <2>10, <2>11
<1>10. \A n \in 0 .. N : n \in S
  <2> HIDE DEF S
  <2>1. QED
    BY <1>2, <1>8, <1>9, InductTo
<1>11. f[N] = Filter(SplitThink(text).answer, Loud(odd))
  <2>1. SubSeq(text, 1, N) = text
    BY <1>1, PrefixFacts
  <2>2. N \in S
    <3> HIDE DEF S
    <3>1. QED
      BY <1>2, <1>10
  <2>3. QED
    BY <2>1, <2>2
<1>12. QED
  BY <1>1, <1>4, <1>7, <1>11

-----------------------------------------------------------------------------
(* What the webview does with one message.                                   *)

\* What no message of the host changes.
Framed(v, w) ==
  /\ w.mounted = v.mounted /\ w.plan = v.plan /\ w.agent = v.agent /\ w.include = v.include
  /\ w.approved = v.approved /\ w.sends = v.sends /\ w.pendingPlan = v.pendingPlan

\* The bubbles of w are those of v with one more; with another text in one of them.
Added(v, w, b) == w.bubbles = Append(v.bubbles, b)
Wrote(v, w, k, x) ==
  /\ Len(w.bubbles) = Len(v.bubbles)
  /\ \A i \in 1 .. Len(v.bubbles) :
       /\ w.bubbles[i].kind = v.bubbles[i].kind /\ w.bubbles[i].turn = v.bubbles[i].turn
       /\ w.bubbles[i].text = IF i = k THEN x ELSE v.bubbles[i].text

NewBubble(kind, t, text) == [kind |-> kind, turn |-> t, text |-> text]

LEMMA NewBubbleIs ==
  \A kind \in Kinds, t \in Nat, text \in Seq(PieceSet) :
    /\ NewBubble(kind, t, text) \in BubbleSet
    /\ NewBubble(kind, t, text).kind = kind /\ NewBubble(kind, t, text).turn = t
    /\ NewBubble(kind, t, text).text = text
BY DEF NewBubble, BubbleSet

LEMMA ViewFields ==
  ASSUME NEW v \in ViewSet
  PROVE  /\ v.bubbles \in Seq(BubbleSet) /\ v.active \in Nat /\ v.sends \in Nat /\ v.last \in Nat
         /\ v.mounted \in BOOLEAN /\ v.lastPlan \in BOOLEAN /\ v.pendingPlan \in BOOLEAN
         /\ v.plan \in BOOLEAN /\ v.agent \in BOOLEAN /\ v.busy \in BOOLEAN /\ v.approved \in BOOLEAN
         /\ Len(v.bubbles) \in Nat /\ DOMAIN v.bubbles = 1 .. Len(v.bubbles)
         /\ \A i \in 1 .. Len(v.bubbles) :
              /\ v.bubbles[i] \in BubbleSet /\ v.bubbles[i].kind \in Kinds
              /\ v.bubbles[i].turn \in Nat /\ v.bubbles[i].text \in Seq(PieceSet)
<1>1. v.bubbles \in Seq(BubbleSet) /\ v.active \in Nat /\ v.sends \in Nat /\ v.last \in Nat
  BY DEF ViewSet
<1>2. /\ v.mounted \in BOOLEAN /\ v.lastPlan \in BOOLEAN /\ v.pendingPlan \in BOOLEAN
      /\ v.plan \in BOOLEAN /\ v.agent \in BOOLEAN /\ v.busy \in BOOLEAN /\ v.approved \in BOOLEAN
  BY DEF ViewSet
<1>3. PICK s : s = v.bubbles
  OBVIOUS
<1>4. Len(s) \in Nat /\ DOMAIN s = 1 .. Len(s) /\ \A i \in 1 .. Len(s) : s[i] \in BubbleSet
  BY <1>1, <1>3
<1>5. \A i \in 1 .. Len(s) : s[i].kind \in Kinds /\ s[i].turn \in Nat /\ s[i].text \in Seq(PieceSet)
  BY <1>4 DEF BubbleSet
<1>6. QED
  BY <1>1, <1>2, <1>3, <1>4, <1>5

LEMMA MsgFields ==
  ASSUME NEW m \in MsgSet
  PROVE  m.turn \in Nat /\ m.text \in Seq(PieceSet)
BY DEF MsgSet

LEMMA Messages ==
  \A type \in MsgTypes, t \in Nat, text \in Seq(PieceSet) :
    /\ Msg(type, t, text) \in MsgSet
    /\ Msg(type, t, text).type = type /\ Msg(type, t, text).turn = t /\ Msg(type, t, text).text = text
BY DEF Msg, MsgSet

\* A bubble is added.
LEMMA AppendMessageIs ==
  ASSUME NEW v \in ViewSet, Writing(v), NEW m, NEW kind \in Kinds, m.turn \in Nat,
         m.text \in Seq(PieceSet), NEW w, w = AppendMessage(v, kind, m)
  PROVE  /\ w \in ViewSet /\ Writing(w) /\ Framed(v, w) /\ w.busy = v.busy /\ w.active = v.active
         /\ w.last = v.last /\ w.lastPlan = v.lastPlan
         /\ Added(v, w, NewBubble(kind, m.turn, m.text))
<1>1. PICK b, s, a : /\ b = NewBubble(kind, m.turn, m.text) /\ s = v.bubbles /\ a = Append(s, b)
  OBVIOUS
<1>2. b \in BubbleSet /\ s \in Seq(BubbleSet)
  BY <1>1, NewBubbleIs DEF ViewSet
<1>3. /\ a \in Seq(BubbleSet) /\ Len(a) = Len(s) + 1 /\ DOMAIN a = 1 .. Len(s) + 1
      /\ DOMAIN s = 1 .. Len(s) /\ Len(s) \in Nat /\ \A i \in 1 .. Len(s) : a[i] = s[i]
  BY <1>1, <1>2
<1>4. w = [v EXCEPT !.bubbles = a]
  BY <1>1 DEF AppendMessage, Bubble, NewBubble
<1>5. w \in ViewSet /\ w.bubbles = a /\ w.active = v.active
  BY <1>3, <1>4 DEF ViewSet
<1>6. Framed(v, w) /\ w.busy = v.busy /\ w.last = v.last /\ w.lastPlan = v.lastPlan
  BY <1>4 DEF ViewSet, Framed
<1>7. Writing(w)
  BY <1>1, <1>3, <1>5 DEF Writing
<1>8. QED
  BY <1>1, <1>5, <1>6, <1>7 DEF Added

\* The text of a bubble is another.
LEMMA WrittenIs ==
  ASSUME NEW v \in ViewSet, Writing(v), NEW k \in 1 .. Len(v.bubbles), NEW x \in Seq(PieceSet),
         NEW w, w = [v EXCEPT !.bubbles[k].text = x]
  PROVE  /\ w \in ViewSet /\ Writing(w) /\ Framed(v, w) /\ w.busy = v.busy /\ w.active = v.active
         /\ w.last = v.last /\ w.lastPlan = v.lastPlan
         /\ Wrote(v, w, k, x)
<1>1. PICK s, a : s = v.bubbles /\ a = [s EXCEPT ![k].text = x]
  OBVIOUS
<1>2. s \in Seq(BubbleSet) /\ Len(s) \in Nat /\ DOMAIN s = 1 .. Len(s) /\ k \in 1 .. Len(s)
  BY <1>1 DEF ViewSet
<1>3. ASSUME NEW i \in 1 .. Len(s)
      PROVE  /\ a[i] \in BubbleSet /\ a[i].kind = s[i].kind /\ a[i].turn = s[i].turn
             /\ a[i].text = IF i = k THEN x ELSE s[i].text
  <2>1. s[i] \in BubbleSet
    BY <1>2
  <2>2. a[i] = IF i = k THEN [s[k] EXCEPT !.text = x] ELSE s[i]
    BY <1>1, <1>2
  <2>3. QED
    BY <2>1, <2>2 DEF BubbleSet
<1>4. DOMAIN a = 1 .. Len(s) /\ a = [i \in 1 .. Len(s) |-> a[i]]
  BY <1>1, <1>2
<1>5. a \in Seq(BubbleSet) /\ Len(a) = Len(s)
  <2>1. a \in [1 .. Len(s) -> BubbleSet]
    BY <1>3, <1>4
  <2>2. QED
    BY <1>2, <1>4, <2>1
<1>6. w = [v EXCEPT !.bubbles = a]
  BY <1>1 DEF ViewSet
<1>7. w \in ViewSet /\ w.bubbles = a /\ w.active = v.active
  BY <1>5, <1>6 DEF ViewSet
<1>8. Framed(v, w) /\ w.busy = v.busy /\ w.last = v.last /\ w.lastPlan = v.lastPlan
  BY <1>6 DEF ViewSet, Framed
<1>9. Writing(w)
  BY <1>1, <1>2, <1>3, <1>4, <1>7 DEF Writing
<1>10. Wrote(v, w, k, x)
  BY <1>1, <1>3, <1>5, <1>7 DEF Wrote
<1>11. QED
  BY <1>7, <1>8, <1>9, <1>10

LEMMA StartIs ==
  ASSUME NEW v \in ViewSet, Writing(v), NEW m \in MsgSet, NEW w, w = StartAssistantMessage(v, m)
  PROVE  /\ w \in ViewSet /\ Writing(w) /\ Framed(v, w) /\ w.busy = v.busy
         /\ w.active = Len(v.bubbles) + 1 /\ w.last = v.last /\ w.lastPlan = v.lastPlan
         /\ Added(v, w, NewBubble("assistant", m.turn, << >>))
<1>1. PICK e, n, u, kind : /\ e = << >> /\ n = [m EXCEPT !.text = e] /\ kind = "assistant"
                           /\ u = AppendMessage(v, kind, n)
  OBVIOUS
<1>2. e \in Seq(PieceSet) /\ kind \in Kinds
  BY <1>1 DEF Kinds
<1>3. n.turn = m.turn /\ n.text = e /\ n.turn \in Nat /\ n.text \in Seq(PieceSet)
  BY <1>1, <1>2 DEF MsgSet
<1>4. /\ u \in ViewSet /\ Framed(v, u) /\ u.busy = v.busy /\ u.last = v.last /\ u.lastPlan = v.lastPlan
      /\ Added(v, u, NewBubble(kind, m.turn, e))
  <2>1. /\ u \in ViewSet /\ Framed(v, u) /\ u.busy = v.busy /\ u.last = v.last /\ u.lastPlan = v.lastPlan
        /\ Added(v, u, NewBubble(kind, n.turn, n.text))
    <3>1. kind \in Kinds /\ n.turn \in Nat /\ n.text \in Seq(PieceSet) /\ u = AppendMessage(v, kind, n)
      BY <1>1, <1>2, <1>3
    <3>2. QED
      BY <3>1, AppendMessageIs, Zenon
  <2>2. QED
    BY <1>3, <2>1
<1>5. w = [u EXCEPT !.active = Len(v.bubbles) + 1]
  BY <1>1 DEF StartAssistantMessage
<1>6. Len(v.bubbles) \in Nat /\ v.bubbles \in Seq(BubbleSet)
  BY DEF ViewSet
<1>7. w \in ViewSet /\ w.bubbles = u.bubbles /\ w.active = Len(v.bubbles) + 1
  BY <1>4, <1>5, <1>6 DEF ViewSet
<1>8. Framed(v, w) /\ w.busy = v.busy /\ w.last = v.last /\ w.lastPlan = v.lastPlan
  BY <1>4, <1>5 DEF ViewSet, Framed
<1>9. Writing(w)
  <2>1. PICK b : b = NewBubble(kind, m.turn, e)
    OBVIOUS
  <2>2. b \in BubbleSet /\ b.kind = "assistant"
    BY <1>1, <1>2, <1>3, <2>1, NewBubbleIs
  <2>3. w.bubbles = Append(v.bubbles, b)
    BY <1>4, <1>7, <2>1 DEF Added
  <2>4. Len(v.bubbles) + 1 \in DOMAIN w.bubbles /\ w.bubbles[Len(v.bubbles) + 1] = b
    BY <1>6, <2>2, <2>3
  <2>5. QED
    BY <1>7, <2>2, <2>4 DEF Writing
<1>10. QED
  BY <1>1, <1>4, <1>7, <1>8, <1>9 DEF Added

\* What is written to is there.
LEMMA ActiveIs ==
  ASSUME NEW v \in ViewSet, Writing(v), NEW m \in MsgSet, NEW w, w = Active(v, m)
  PROVE  /\ w \in ViewSet /\ Writing(w) /\ Framed(v, w) /\ w.busy = v.busy
         /\ w.last = v.last /\ w.lastPlan = v.lastPlan
         /\ w.active \in 1 .. Len(w.bubbles) /\ w.active # 0
         /\ v.active # 0 => w = v
         /\ v.active = 0 => /\ w.active = Len(v.bubbles) + 1
                            /\ Added(v, w, NewBubble("assistant", m.turn, << >>))
<1>1. CASE v.active # 0
  <2>1. w = v
    BY <1>1 DEF Active
  <2>2. Framed(v, v)
    BY DEF Framed
  <2>3. v.active \in 1 .. Len(v.bubbles)
    BY <1>1, ViewFields DEF Writing
  <2>4. QED
    BY <1>1, <2>1, <2>2, <2>3
<1>2. CASE v.active = 0
  <2>1. w = StartAssistantMessage(v, m)
    BY <1>2 DEF Active
  <2>2. /\ w \in ViewSet /\ Writing(w) /\ Framed(v, w) /\ w.busy = v.busy
        /\ w.active = Len(v.bubbles) + 1 /\ w.last = v.last /\ w.lastPlan = v.lastPlan
        /\ Added(v, w, NewBubble("assistant", m.turn, << >>))
    BY <2>1, StartIs
  <2>3. Len(v.bubbles) \in Nat
    BY ViewFields
  <2>4. w.active # 0
    BY <2>2, <2>3
  <2>5. w.active \in 1 .. Len(w.bubbles)
    BY <2>2, <2>4, ViewFields DEF Writing
  <2>6. QED
    BY <1>2, <2>2, <2>4, <2>5
<1>3. QED
  BY <1>1, <1>2

\* A new bubble with its text.
LEMMA AddedThenWrote ==
  ASSUME NEW v \in ViewSet, NEW u \in ViewSet, NEW w \in ViewSet, NEW t \in Nat,
         NEW x \in Seq(PieceSet),
         Added(v, u, NewBubble("assistant", t, << >>)), Wrote(u, w, Len(v.bubbles) + 1, x)
  PROVE  Added(v, w, NewBubble("assistant", t, x))
<1>1. PICK e, kind : e = << >> /\ kind = "assistant"
  OBVIOUS
<1>2. e \in Seq(PieceSet) /\ kind \in Kinds
  BY <1>1 DEF Kinds
<1>3. PICK a, b, p, q, r : /\ a = NewBubble(kind, t, e) /\ b = NewBubble(kind, t, x)
                           /\ p = v.bubbles /\ q = u.bubbles /\ r = w.bubbles
  OBVIOUS
<1>4. /\ a \in BubbleSet /\ b \in BubbleSet /\ a.kind = kind /\ a.turn = t
      /\ b.kind = kind /\ b.turn = t /\ b.text = x
  BY <1>2, <1>3, NewBubbleIs
<1>5. p \in Seq(BubbleSet) /\ q \in Seq(BubbleSet) /\ r \in Seq(BubbleSet) /\ q = Append(p, a)
  BY <1>1, <1>3 DEF ViewSet, Added
<1>6. PICK N : N = Len(p)
  OBVIOUS
<1>7. N \in Nat /\ Len(q) = N + 1 /\ \A i \in 1 .. N : q[i] = p[i]
  BY <1>5, <1>6
<1>8. q[N + 1] = a
  BY <1>5, <1>6
<1>9. /\ Len(r) = N + 1
      /\ \A i \in 1 .. N + 1 : /\ r[i].kind = q[i].kind /\ r[i].turn = q[i].turn
                               /\ r[i].text = IF i = N + 1 THEN x ELSE q[i].text
  BY <1>3, <1>6, <1>7 DEF Wrote
<1>10. ASSUME NEW i \in 1 .. N + 1 PROVE r[i] \in BubbleSet /\ q[i] \in BubbleSet
  BY <1>5, <1>7, <1>9
<1>11. ASSUME NEW y \in BubbleSet, NEW z \in BubbleSet,
             y.kind = z.kind, y.turn = z.turn, y.text = z.text
      PROVE  y = z
  <2>1. y = [kind |-> y.kind, turn |-> y.turn, text |-> y.text]
    BY DEF BubbleSet
  <2>2. z = [kind |-> z.kind, turn |-> z.turn, text |-> z.text]
    BY DEF BubbleSet
  <2>3. QED
    BY <1>11, <2>1, <2>2
<1>12. r[N + 1] = b
  <2>1. N + 1 \in 1 .. N + 1
    BY <1>7
  <2>2. r[N + 1].kind = b.kind /\ r[N + 1].turn = b.turn /\ r[N + 1].text = b.text
    BY <1>4, <1>8, <1>9, <2>1
  <2>3. QED
    BY <1>4, <1>10, <1>11, <2>1, <2>2
<1>13. ASSUME NEW i \in 1 .. N PROVE r[i] = p[i]
  <2>1. i \in 1 .. N + 1 /\ i # N + 1
    BY <1>7
  <2>2. r[i] = q[i]
    BY <1>9, <1>10, <1>11, <2>1
  <2>3. QED
    BY <1>7, <2>2
<1>14. r = Append(p, b)
  BY <1>4, <1>5, <1>6, <1>7, <1>9, <1>12, <1>13
<1>15. QED
  BY <1>1, <1>3, <1>14 DEF Added

LEMMA DeltaIs ==
  ASSUME NEW v \in ViewSet, Writing(v), NEW m \in MsgSet, NEW w, w = AppendAssistantDelta(v, m)
  PROVE  /\ w \in ViewSet /\ Writing(w) /\ Framed(v, w) /\ w.busy = v.busy
         /\ w.last = v.last /\ w.lastPlan = v.lastPlan
         /\ v.active # 0 => /\ w.active = v.active
                            /\ Wrote(v, w, v.active, v.bubbles[v.active].text \o m.text)
         /\ v.active = 0 => /\ w.active = Len(v.bubbles) + 1
                            /\ Added(v, w, NewBubble("assistant", m.turn, m.text))
<1>1. PICK u, k, old, x : /\ u = Active(v, m) /\ k = u.active /\ old = u.bubbles[k].text
                          /\ x = old \o m.text
  OBVIOUS
<1>2. /\ u \in ViewSet /\ Writing(u) /\ Framed(v, u) /\ u.busy = v.busy
      /\ u.last = v.last /\ u.lastPlan = v.lastPlan /\ k \in 1 .. Len(u.bubbles)
      /\ v.active # 0 => u = v
      /\ v.active = 0 => /\ u.active = Len(v.bubbles) + 1
                         /\ Added(v, u, NewBubble("assistant", m.turn, << >>))
  BY <1>1, ActiveIs
<1>3. m.turn \in Nat /\ m.text \in Seq(PieceSet) /\ old \in Seq(PieceSet)
  BY <1>1, <1>2, MsgFields, ViewFields
<1>4. x \in Seq(PieceSet)
  BY <1>1, <1>3
<1>5. w = [u EXCEPT !.bubbles[k].text = x]
  <2>1. w = [u EXCEPT !.bubbles[u.active].text = @ \o m.text]
    BY <1>1 DEF AppendAssistantDelta
  <2>2. u.bubbles \in Seq(BubbleSet) /\ k \in DOMAIN u.bubbles
    BY <1>2, ViewFields
  <2>3. QED
    BY <1>1, <1>2, <2>1, <2>2 DEF ViewSet
<1>6. /\ w \in ViewSet /\ Writing(w) /\ Framed(u, w) /\ w.busy = u.busy /\ w.active = u.active
      /\ w.last = u.last /\ w.lastPlan = u.lastPlan /\ Wrote(u, w, k, x)
  BY <1>2, <1>4, <1>5, WrittenIs
<1>7. Framed(v, w)
  BY <1>2, <1>6 DEF Framed
<1>8. ASSUME v.active = 0 PROVE Added(v, w, NewBubble("assistant", m.turn, m.text))
  <2>1. PICK e, b, kind : e = << >> /\ kind = "assistant" /\ b = NewBubble(kind, m.turn, e)
    OBVIOUS
  <2>2. e \in Seq(PieceSet) /\ kind \in Kinds
    BY <2>1 DEF Kinds
  <2>3. b \in BubbleSet /\ b.text = e
    <3>1. m.turn \in Nat
      BY <1>3
    <3>2. NewBubble(kind, m.turn, e) \in BubbleSet /\ NewBubble(kind, m.turn, e).text = e
      BY <2>2, <3>1, NewBubbleIs
    <3>3. QED
      BY <2>1, <3>2, Zenon
  <2>4. u.bubbles = Append(v.bubbles, b) /\ k = Len(v.bubbles) + 1
    BY <1>1, <1>2, <1>8, <2>1 DEF Added
  <2>5. v.bubbles \in Seq(BubbleSet)
    BY ViewFields
  <2>6. u.bubbles[k] = b
    BY <2>3, <2>4, <2>5
  <2>7. x = m.text
    <3>1. old = e
      BY <1>1, <2>3, <2>6
    <3>2. e \o m.text = m.text
      BY <1>3, <2>1, JoinEmpty
    <3>3. QED
      BY <1>1, <3>1, <3>2
  <2>8. Wrote(u, w, Len(v.bubbles) + 1, m.text) /\ Added(v, u, NewBubble("assistant", m.turn, << >>))
    BY <1>2, <1>6, <1>8, <2>4, <2>7
  <2>9. QED
    BY <1>2, <1>3, <1>6, <2>8, AddedThenWrote
<1>9. ASSUME v.active # 0 PROVE Wrote(v, w, v.active, v.bubbles[v.active].text \o m.text)
  BY <1>1, <1>2, <1>6, <1>9
<1>10. QED
  BY <1>2, <1>6, <1>7, <1>8, <1>9

LEMMA AssistantIs ==
  ASSUME NEW v \in ViewSet, Writing(v), NEW m \in MsgSet, NEW w, w = AssistantMessage(v, m)
  PROVE  /\ w \in ViewSet /\ Writing(w) /\ Framed(v, w) /\ w.busy = v.busy /\ w.active = 0
         /\ w.last = m.turn /\ w.lastPlan = v.pendingPlan
         /\ v.active # 0 => Wrote(v, w, v.active, m.text)
         /\ v.active = 0 => Added(v, w, NewBubble("assistant", m.turn, m.text))
<1>1. PICK u, k, x, y : /\ u = Active(v, m) /\ k = u.active /\ x = m.text
                        /\ y = [u EXCEPT !.bubbles[k].text = x]
  OBVIOUS
<1>2. /\ u \in ViewSet /\ Writing(u) /\ Framed(v, u) /\ u.busy = v.busy
      /\ u.last = v.last /\ u.lastPlan = v.lastPlan /\ k \in 1 .. Len(u.bubbles)
      /\ v.active # 0 => u = v
      /\ v.active = 0 => /\ u.active = Len(v.bubbles) + 1
                         /\ Added(v, u, NewBubble("assistant", m.turn, << >>))
  BY <1>1, ActiveIs
<1>3. m.turn \in Nat /\ x \in Seq(PieceSet)
  BY <1>1, MsgFields
<1>4. /\ y \in ViewSet /\ Framed(u, y) /\ y.busy = u.busy /\ Wrote(u, y, k, x)
  BY <1>1, <1>2, <1>3, WrittenIs
<1>5. w = [y EXCEPT !.active = 0, !.lastPlan = y.pendingPlan, !.last = m.turn]
  BY <1>1 DEF AssistantMessage, FinalizeAssistant
<1>6. PICK o : o = 0
  OBVIOUS
<1>7. /\ w \in ViewSet /\ w.bubbles = y.bubbles /\ w.active = o /\ w.last = m.turn
      /\ w.lastPlan = y.pendingPlan /\ w.busy = y.busy
  <2>1. y.pendingPlan \in BOOLEAN /\ o \in Nat
    BY <1>4, <1>6, ViewFields
  <2>2. w = [y EXCEPT !.active = o, !.lastPlan = y.pendingPlan, !.last = m.turn]
    BY <1>5, <1>6
  <2>3. QED
    BY <1>3, <1>4, <2>1, <2>2 DEF ViewSet
<1>8. Framed(v, w) /\ Writing(w) /\ y.pendingPlan = v.pendingPlan
  BY <1>2, <1>4, <1>5, <1>6, <1>7 DEF Framed, ViewSet, Writing
<1>9. Wrote(u, w, k, x)
  BY <1>4, <1>7 DEF Wrote
<1>10. ASSUME v.active = 0 PROVE Added(v, w, NewBubble("assistant", m.turn, m.text))
  BY <1>1, <1>2, <1>3, <1>7, <1>9, <1>10, AddedThenWrote
<1>11. ASSUME v.active # 0 PROVE Wrote(v, w, v.active, m.text)
  BY <1>1, <1>2, <1>9, <1>11
<1>12. QED
  BY <1>2, <1>4, <1>6, <1>7, <1>8, <1>10, <1>11

-----------------------------------------------------------------------------
(* What it does with all that is on its way.                                 *)

Changing == {"busy", "idle", "clear", "start", "reasoning", "delta", "done", "assistant"}

LEMMA ShownIs ==
  ASSUME NEW v \in ViewSet, Writing(v), NEW m \in MsgSet, NEW w, w = Shown(v, m)
  PROVE  /\ w \in ViewSet /\ Writing(w) /\ Framed(v, w)
         /\ m.type \in {"busy", "idle"} => w.bubbles = v.bubbles /\ w.active = v.active
         /\ w.busy = IF m.type = "busy" THEN TRUE ELSE IF m.type = "idle" THEN FALSE ELSE v.busy
         /\ m.type = "clear" => w.bubbles = << >> /\ w.active = 0 /\ w.last = 0
         /\ m.type = "start" => /\ w.active = Len(v.bubbles) + 1
                                /\ Added(v, w, NewBubble("assistant", m.turn, << >>))
         /\ m.type = "reasoning" /\ v.active # 0 => w = v
         /\ m.type = "reasoning" /\ v.active = 0 =>
              /\ w.active = Len(v.bubbles) + 1
              /\ Added(v, w, NewBubble("assistant", m.turn, << >>))
         /\ m.type = "delta" /\ v.active # 0 =>
              /\ w.active = v.active
              /\ Wrote(v, w, v.active, v.bubbles[v.active].text \o m.text)
         /\ m.type = "delta" /\ v.active = 0 =>
              /\ w.active = Len(v.bubbles) + 1
              /\ Added(v, w, NewBubble("assistant", m.turn, m.text))
         /\ m.type = "done" => w.bubbles = v.bubbles /\ w.active = 0
         /\ m.type = "assistant" => w.active = 0
         /\ m.type = "assistant" /\ v.active # 0 => Wrote(v, w, v.active, m.text)
         /\ m.type = "assistant" /\ v.active = 0 => Added(v, w, NewBubble("assistant", m.turn, m.text))
         /\ m.type \notin Changing =>
              w.active = v.active /\ Added(v, w, NewBubble(m.type, m.turn, m.text))
         /\ m.type \in {"done", "assistant"} => w.last = m.turn /\ w.lastPlan = v.pendingPlan
         /\ m.type \notin {"done", "assistant", "clear"} => w.last = v.last /\ w.lastPlan = v.lastPlan
<1>1. m.turn \in Nat /\ m.text \in Seq(PieceSet)
  BY MsgFields
<1>2. CASE m.type \in {"busy", "idle"}
  <2>1. PICK b : b = (m.type = "busy")
    OBVIOUS
  <2>2. w = [v EXCEPT !.busy = b] /\ b \in BOOLEAN
    BY <1>2, <2>1 DEF Shown
  <2>3. /\ w \in ViewSet /\ w.bubbles = v.bubbles /\ w.active = v.active /\ w.busy = b
        /\ w.last = v.last /\ w.lastPlan = v.lastPlan
    BY <2>2 DEF ViewSet
  <2>4. Framed(v, w) /\ Writing(w)
    BY <2>2, <2>3 DEF Framed, ViewSet, Writing
  <2>5. QED
    BY <1>2, <2>1, <2>3, <2>4 DEF Changing
<1>3. CASE m.type = "clear"
  <2>1. PICK e, o, f : e = << >> /\ o = 0 /\ f = FALSE
    OBVIOUS
  <2>2. e \in Seq(BubbleSet) /\ o \in Nat /\ f \in BOOLEAN
    <3>1. e \in Seq(BubbleSet) /\ o \in Nat
      BY <2>1
    <3>2. f \in BOOLEAN
      BY <2>1, Zenon
    <3>3. QED
      BY <3>1, <3>2
  <2>3. w = [v EXCEPT !.bubbles = e, !.active = o, !.lastPlan = f, !.last = o]
    BY <1>3, <2>1 DEF Shown, ClearTranscript
  <2>4. w \in ViewSet /\ w.bubbles = e /\ w.active = o /\ w.last = o /\ w.busy = v.busy
    BY <2>2, <2>3 DEF ViewSet
  <2>5. Framed(v, w) /\ Writing(w)
    BY <2>1, <2>3, <2>4 DEF Framed, ViewSet, Writing
  <2>6. QED
    BY <1>3, <2>1, <2>4, <2>5 DEF Changing
<1>4. CASE m.type = "start"
  <2>1. w = StartAssistantMessage(v, m)
    BY <1>4 DEF Shown
  <2>2. QED
    BY <1>4, <2>1, StartIs DEF Changing
<1>5. CASE m.type = "reasoning"
  <2>1. w = Active(v, m)
    BY <1>5 DEF Shown
  <2>2. QED
    BY <1>5, <2>1, ActiveIs DEF Changing
<1>6. CASE m.type = "delta"
  <2>1. w = AppendAssistantDelta(v, m)
    BY <1>6 DEF Shown
  <2>2. QED
    BY <1>6, <2>1, DeltaIs DEF Changing
<1>7. CASE m.type = "done"
  <2>1. PICK o : o = 0
    OBVIOUS
  <2>2. w = [v EXCEPT !.active = o, !.lastPlan = v.pendingPlan, !.last = m.turn]
    BY <1>7, <2>1 DEF Shown, FinalizeAssistant
  <2>3. v.pendingPlan \in BOOLEAN /\ o \in Nat
    BY <2>1, ViewFields
  <2>4. /\ w \in ViewSet /\ w.bubbles = v.bubbles /\ w.active = o /\ w.last = m.turn
        /\ w.lastPlan = v.pendingPlan /\ w.busy = v.busy
    BY <1>1, <2>2, <2>3 DEF ViewSet
  <2>5. Framed(v, w) /\ Writing(w)
    BY <2>1, <2>2, <2>4 DEF Framed, ViewSet, Writing
  <2>6. QED
    BY <1>7, <2>1, <2>4, <2>5 DEF Changing
<1>8. CASE m.type = "assistant"
  <2>1. w = AssistantMessage(v, m)
    BY <1>8 DEF Shown
  <2>2. QED
    BY <1>8, <2>1, AssistantIs DEF Changing
<1>9. CASE m.type \notin Changing
  <2>1. w = AppendMessage(v, m.type, m)
    BY <1>9 DEF Shown, Changing
  <2>2. m.type \in Kinds
    BY <1>9 DEF MsgSet, MsgTypes, Changing, Kinds
  <2>3. /\ w \in ViewSet /\ Writing(w) /\ Framed(v, w) /\ w.busy = v.busy /\ w.active = v.active
        /\ w.last = v.last /\ w.lastPlan = v.lastPlan
        /\ Added(v, w, NewBubble(m.type, m.turn, m.text))
    BY <1>1, <2>1, <2>2, AppendMessageIs
  <2>4. QED
    BY <1>9, <2>3 DEF Changing
<1>10. QED
  BY <1>2, <1>3, <1>4, <1>5, <1>6, <1>7, <1>8, <1>9 DEF Changing

LEMMA ShowingDef ==
  ASSUME NEW v, NEW queue
  PROVE  v \in ViewSet /\ Writing(v) /\ queue \in Seq(MsgSet) =>
           /\ Showing(v, queue) \in [0 .. Len(queue) -> {x \in ViewSet : Writing(x)}]
           /\ Showing(v, queue)[0] = v
           /\ \A n \in 1 .. Len(queue) : Showing(v, queue)[n] = Shown(Showing(v, queue)[n - 1], queue[n])
<1>1. ASSUME v \in ViewSet, Writing(v), queue \in Seq(MsgSet)
      PROVE  /\ Showing(v, queue) \in [0 .. Len(queue) -> {x \in ViewSet : Writing(x)}]
             /\ Showing(v, queue)[0] = v
             /\ \A n \in 1 .. Len(queue) : Showing(v, queue)[n] = Shown(Showing(v, queue)[n - 1], queue[n])
  <2> DEFINE Step(a, n) == Shown(a, queue[n])
  <2>0. PICK A, N, e : A = {x \in ViewSet : Writing(x)} /\ N = Len(queue) /\ e = v
    OBVIOUS
  <2>1. N \in Nat /\ e \in A
    BY <2>0, <1>1
  <2>1a. \A n \in 1 .. N, a \in A : Step(a, n) \in A
    <3>1. \A n \in 1 .. N : queue[n] \in MsgSet
      BY <2>0, <1>1
    <3>2. ASSUME NEW n \in 1 .. N, NEW a \in A PROVE Shown(a, queue[n]) \in A
      <4>1. a \in ViewSet /\ Writing(a)
        BY <2>0
      <4>2. Shown(a, queue[n]) \in ViewSet /\ Writing(Shown(a, queue[n]))
        BY <3>1, <4>1, ShownIs
      <4>3. QED
        BY <2>0, <4>2
    <3>3. QED
      BY <3>2
  <2>2. PICK step : step = [n \in 1 .. N |-> [a \in A |-> Step(a, n)]]
    OBVIOUS
  <2>3. step \in [1 .. N -> [A -> A]]
    <3> HIDE DEF Step
    <3>1. QED
      BY <2>1a, <2>2
  <2>5. PICK g \in [0 .. N -> A] : g[0] = e /\ \A n \in 1 .. N : g[n] = step[n][g[n - 1]]
    <3> HIDE DEF Step
    <3>1. QED
      BY <2>1, <2>3, Recursion, SMTT(60)
  <2>6. \A n \in 1 .. N : g[n] = Step(g[n - 1], n)
    <3> HIDE DEF Step
    <3> TAKE n \in 1 .. N
    <3>1. g[n - 1] \in A
      BY <2>1, <2>5
    <3>2. QED
      BY <2>2, <2>5, <3>1
  <2>7. g = [n \in 0 .. N |-> IF n = 0 THEN e ELSE Step(g[n - 1], n)]
    <3> HIDE DEF Step
    <3>1. QED
      BY <2>1, <2>5, <2>6
  <2>8. PICK f : f = Showing(v, queue)
    OBVIOUS
  <2>9. f = CHOOSE k : k = [n \in 0 .. N |-> IF n = 0 THEN e ELSE Step(k[n - 1], n)]
    <3>1. f = CHOOSE k : k = [n \in 0 .. Len(queue) |-> IF n = 0 THEN v
                 ELSE Shown(k[n - 1], queue[n])]
      BY <2>8, Zenon DEF Showing
    <3>2. QED
      BY <2>0, <3>1, Zenon
  <2>10. f = [n \in 0 .. N |-> IF n = 0 THEN e ELSE Step(f[n - 1], n)]
    BY <2>7, <2>9, Zenon
  <2>11. DOMAIN f = 0 .. N /\ f[0] = e /\ \A n \in 1 .. N : f[n] = Step(f[n - 1], n)
    <3> HIDE DEF Step
    <3>1. QED
      BY <2>1, <2>10
  <2>12. \A n \in 0 .. N : f[n] \in A
    <3> DEFINE Typed == {n \in 0 .. N : f[n] \in A}
    <3>1. 0 \in Typed
      BY <2>1, <2>11
    <3>2. \A n \in 1 .. N : n - 1 \in Typed => n \in Typed
      <4> HIDE DEF Step
      <4>1. QED
        BY <2>1, <2>1a, <2>11
    <3>3. \A n \in 0 .. N : n \in Typed
      <4> HIDE DEF Typed
      <4>1. QED
        BY <2>1, <3>1, <3>2, InductTo
    <3>4. QED
      BY <3>3
  <2>13. f = [n \in 0 .. N |-> f[n]]
    <3> HIDE DEF Step
    <3>1. QED
      BY <2>10
  <2>14. f \in [0 .. N -> A]
    BY <2>12, <2>13
  <2>15. QED
    BY <2>0, <2>8, <2>11, <2>14
<1>2. QED
  BY <1>1

LEMMA ShowsNone ==
  ASSUME NEW v \in ViewSet, Writing(v)
  PROVE  Shows(v, << >>) = v
<1>1. PICK e : e = << >>
  OBVIOUS
<1>2. e \in Seq(MsgSet) /\ Len(e) = 0
  BY <1>1
<1>3. Showing(v, e)[0] = v
  BY <1>2, ShowingDef
<1>4. QED
  BY <1>1, <1>2, <1>3 DEF Shows

LEMMA ShowsMore ==
  ASSUME NEW v \in ViewSet, Writing(v), NEW queue \in Seq(MsgSet), NEW m \in MsgSet
  PROVE  /\ Shows(v, queue) \in ViewSet /\ Writing(Shows(v, queue))
         /\ Shows(v, Append(queue, m)) = Shown(Shows(v, queue), m)
<1>1. PICK N, f, g, more : /\ N = Len(queue) /\ more = Append(queue, m)
                           /\ f = Showing(v, queue) /\ g = Showing(v, more)
  OBVIOUS
<1>2. /\ N \in Nat /\ more \in Seq(MsgSet) /\ Len(more) = N + 1 /\ more[N + 1] = m
      /\ \A i \in 1 .. N : more[i] = queue[i] /\ queue[i] \in MsgSet
  BY <1>1
<1>3. /\ f[0] = v /\ \A n \in 1 .. N : f[n] = Shown(f[n - 1], queue[n])
      /\ \A n \in 0 .. N : f[n] \in ViewSet /\ Writing(f[n])
  <2>1. PICK A : A = {x \in ViewSet : Writing(x)}
    OBVIOUS
  <2>2. f \in [0 .. N -> A] /\ f[0] = v /\ \A n \in 1 .. N : f[n] = Shown(f[n - 1], queue[n])
    BY <1>1, <2>1, ShowingDef
  <2>3. \A n \in 0 .. N : f[n] \in A
    BY <2>2
  <2>4. QED
    BY <2>1, <2>2, <2>3
<1>4. g[0] = v /\ \A n \in 1 .. N + 1 : g[n] = Shown(g[n - 1], more[n])
  BY <1>1, <1>2, ShowingDef
<1> DEFINE S == {n \in 0 .. N : g[n] = f[n]}
<1>5. \A n \in 0 .. N : n \in S
  <2>1. 0 \in S
    BY <1>2, <1>3, <1>4
  <2>2. ASSUME NEW n \in 1 .. N, n - 1 \in S PROVE n \in S
    <3>1. g[n] = Shown(g[n - 1], more[n]) /\ f[n] = Shown(f[n - 1], queue[n]) /\ more[n] = queue[n]
      BY <1>2, <1>3, <1>4
    <3>2. g[n - 1] = f[n - 1]
      BY <2>2
    <3>3. g[n] = f[n]
      BY <3>1, <3>2, Zenon
    <3>4. QED
      BY <1>2, <3>3
  <2> HIDE DEF S
  <2>3. QED
    BY <1>2, <2>1, <2>2, InductTo
<1>6. g[N] = f[N]
  BY <1>2, <1>5
<1>7. g[N + 1] = Shown(f[N], m)
  BY <1>2, <1>4, <1>6
<1>8. f[N] \in ViewSet /\ Writing(f[N])
  BY <1>2, <1>3
<1>9. QED
  BY <1>1, <1>2, <1>7, <1>8 DEF Shows

LEMMA ShowsType ==
  ASSUME NEW v \in ViewSet, Writing(v)
  PROVE  \A queue \in Seq(MsgSet) :
           Shows(v, queue) \in ViewSet /\ Writing(Shows(v, queue)) /\ Framed(v, Shows(v, queue))
<1> DEFINE S == {q \in Seq(MsgSet) :
                   Shows(v, q) \in ViewSet /\ Writing(Shows(v, q)) /\ Framed(v, Shows(v, q))}
<1>1. << >> \in S
  <2>1. PICK e : e = << >>
    OBVIOUS
  <2>2. e \in Seq(MsgSet) /\ Shows(v, e) = v
    BY <2>1, ShowsNone
  <2>3. Framed(v, v)
    BY DEF Framed
  <2>4. QED
    BY <2>1, <2>2, <2>3
<1>2. ASSUME NEW q \in Seq(MsgSet), NEW m \in MsgSet, q \in S PROVE Append(q, m) \in S
  <2>1. PICK u, w : u = Shows(v, q) /\ w = Shown(u, m)
    OBVIOUS
  <2>2. u \in ViewSet /\ Writing(u) /\ Framed(v, u) /\ Shows(v, Append(q, m)) = w
    BY <1>2, <2>1, ShowsMore
  <2>3. w \in ViewSet /\ Writing(w) /\ Framed(u, w)
    BY <2>1, <2>2, ShownIs
  <2>4. Framed(v, w)
    BY <2>2, <2>3 DEF Framed
  <2>5. Append(q, m) \in Seq(MsgSet)
    BY <1>2
  <2>6. QED
    BY <2>2, <2>3, <2>4, <2>5
<1> HIDE DEF S
<1>3. \A q \in Seq(MsgSet) : q \in S
  BY <1>1, <1>2, InductAppend
<1>4. QED
  BY <1>3 DEF S

LEMMA ShowsJoin ==
  ASSUME NEW v \in ViewSet, Writing(v), NEW a \in Seq(MsgSet)
  PROVE  \A b \in Seq(MsgSet) : Shows(v, a \o b) = Shows(Shows(v, a), b)
<1>1. PICK u : u = Shows(v, a)
  OBVIOUS
<1>2. u \in ViewSet /\ Writing(u)
  BY <1>1, ShowsType
<1> DEFINE S == {b \in Seq(MsgSet) : Shows(v, a \o b) = Shows(u, b)}
<1>3. << >> \in S
  <2>1. PICK e : e = << >>
    OBVIOUS
  <2>2. e \in Seq(MsgSet) /\ a \o e = a /\ Shows(u, e) = u
    BY <1>2, <2>1, JoinEmpty, ShowsNone
  <2>3. QED
    BY <1>1, <2>1, <2>2
<1>4. ASSUME NEW b \in Seq(MsgSet), NEW m \in MsgSet, b \in S PROVE Append(b, m) \in S
  <2>1. PICK c, d : c = a \o b /\ d = Append(b, m)
    OBVIOUS
  <2>2. c \in Seq(MsgSet) /\ d \in Seq(MsgSet)
    BY <2>1
  <2>3. a \o d = Append(c, m)
    BY <2>1, JoinAppend
  <2>4. Shows(v, Append(c, m)) = Shown(Shows(v, c), m)
    BY <2>2, ShowsMore
  <2>5. Shows(u, d) = Shown(Shows(u, b), m)
    BY <1>2, <2>1, ShowsMore
  <2>6. Shows(v, c) = Shows(u, b)
    BY <1>4, <2>1
  <2>7. Shows(v, a \o d) = Shows(u, d)
    BY <2>3, <2>4, <2>5, <2>6, Zenon
  <2>8. QED
    BY <2>1, <2>2, <2>7
<1> HIDE DEF S
<1>5. \A b \in Seq(MsgSet) : b \in S
  BY <1>3, <1>4, InductAppend
<1>6. QED
  BY <1>1, <1>5 DEF S

\* One and two messages at the end.
LEMMA ShowsOne ==
  ASSUME NEW v \in ViewSet, Writing(v), NEW m \in MsgSet
  PROVE  Shows(v, <<m>>) = Shown(v, m)
<1>1. PICK e : e = << >>
  OBVIOUS
<1>2. e \in Seq(MsgSet) /\ <<m>> = Append(e, m) /\ Shows(v, e) = v
  BY <1>1, ShowsNone
<1>3. Shows(v, Append(e, m)) = Shown(Shows(v, e), m)
  BY <1>2, ShowsMore
<1>4. QED
  BY <1>2, <1>3

LEMMA ShowsTwo ==
  ASSUME NEW v \in ViewSet, Writing(v), NEW m \in MsgSet, NEW n \in MsgSet
  PROVE  Shows(v, <<m, n>>) = Shown(Shown(v, m), n)
<1>1. PICK one : one = <<m>>
  OBVIOUS
<1>2. one \in Seq(MsgSet) /\ <<m, n>> = Append(one, n) /\ Shows(v, one) = Shown(v, m)
  BY <1>1, ShowsOne
<1>3. Shows(v, Append(one, n)) = Shown(Shows(v, one), n)
  BY <1>2, ShowsMore
<1>4. QED
  BY <1>2, <1>3

\* What the webview takes does not change what it will show.
LEMMA ShowsTakes ==
  ASSUME NEW v \in ViewSet, Writing(v), NEW queue \in Seq(MsgSet), queue # << >>
  PROVE  /\ Head(queue) \in MsgSet /\ Tail(queue) \in Seq(MsgSet)
         /\ Shows(Shown(v, Head(queue)), Tail(queue)) = Shows(v, queue)
<1>1. PICK m, t, one : m = Head(queue) /\ t = Tail(queue) /\ one = <<m>>
  OBVIOUS
<1>2. m \in MsgSet /\ t \in Seq(MsgSet) /\ one \in Seq(MsgSet)
  BY <1>1
<1>3. queue = one \o t
  BY <1>1
<1>4. Shows(v, one) = Shown(v, m)
  BY <1>1, <1>2, ShowsOne
<1>5. Shows(v, one \o t) = Shows(Shows(v, one), t)
  BY <1>2, ShowsJoin
<1>6. QED
  BY <1>1, <1>2, <1>3, <1>4, <1>5

=============================================================================
