----------------------------- MODULE TodoEditor -----------------------------
(***************************************************************************)
(* The editor of a note (front/modules/todo/document.rs and editor.rs):    *)
(* the source of the note, the document of blocks parsed from it, and the  *)
(* row of each block as the browser shows it, whose text and checkbox the  *)
(* browser changes on its own before it tells the editor.                  *)
(*                                                                         *)
(* A text is a sequence of characters; a place in it is the number of      *)
(* characters before it.  Lengths are in bytes, as in the code.            *)
(***************************************************************************)
EXTENDS Naturals, Sequences, FiniteSets, SequencesExt

CONSTANTS
  Chars,       \* characters
  Wide,        \* the characters of two bytes
  MaxBlocks,   \* MAX_BLOCKS
  MaxLength,   \* MAX_LENGTH, in bytes
  TodoCases    \* bounds, one of which holds in a behaviour

VARIABLES
  todoBound,   \* the element of TodoCases this behaviour is about
  document,    \* TodoEditorDocument
  source,      \* the content of the module
  dirty,
  screen,      \* identifier -> text of its block on the screen
  marks,       \* identifier -> kind its row was drawn with, and its checkbox
  composing,   \* a block in the middle of a composition, or none (a set)
  edits,       \* edits and imports made, for their bound
  sent,        \* history: the content last sent to the holder or come from it
  foreign,     \* history: the screen holds an edit the editor has not taken
  unheeded     \* history: the rows whose box shows a toggle that was refused

rowVars == <<screen, marks>>
todoVars == <<todoBound, document, source, dirty, screen, marks, composing, edits,
              sent, foreign, unheeded>>

NL == "\n"
Kinds == {"paragraph", "heading", "list", "task", "done"}

Text == Seq(Chars)

ASSUME TodoAssumption ==
  /\ {MaxBlocks, MaxLength} \subseteq Nat \ {0}
  /\ {NL, " ", "#", "-", "*", "x"} \subseteq Chars /\ Wide \subseteq Chars \ {NL}
  /\ \A case \in TodoCases :
       /\ case.source \in Text /\ case.imports \subseteq Text /\ case.pastes \subseteq Text
       /\ case.chars \subseteq Chars \ {NL} /\ case.edits \in Nat

Bytes(text) == Len(text) + Cardinality({i \in DOMAIN text : text[i] \in Wide})
Before(text, at) == SubSeq(text, 1, at)
After(text, at) == SubSeq(text, at + 1, Len(text))

-----------------------------------------------------------------------------
(* Lines and blocks. *)

Prefix(kind) ==
  CASE kind = "paragraph" -> << >>
    [] kind = "heading"   -> <<"#", " ">>
    [] kind = "list"      -> <<"-", " ">>
    [] kind = "task"      -> <<"*", " ">>
    [] kind = "done"      -> <<"*", "x", " ">>

sourceLine_parse(line) ==
  LET marked == {kind \in Kinds \ {"paragraph"} : IsPrefix(Prefix(kind), line)}
  IN IF marked = {} THEN [kind |-> "paragraph", text |-> line]
     ELSE LET kind == CHOOSE kind \in marked : TRUE
          IN [kind |-> kind, text |-> After(line, Len(Prefix(kind)))]

\* Where lines end, and the end of the k-th.
Ends(text) == {i \in DOMAIN text : text[i] = NL} \cup {Len(text) + 1}
EndOf(text, k) ==
  IF k = 0 THEN 0 ELSE CHOOSE e \in Ends(text) : Cardinality({i \in Ends(text) : i < e}) = k - 1

\* The lines of a text, and the text of lines.
Lines(text) ==
  [k \in 1..Cardinality(Ends(text)) |-> SubSeq(text, EndOf(text, k - 1) + 1, EndOf(text, k) - 1)]
Joined(lines) ==
  FlattenSeq([k \in DOMAIN lines |-> IF k = 1 THEN lines[k] ELSE <<NL>> \o lines[k]])

Block(id, parsed) == [id |-> id, kind |-> parsed.kind, text |-> parsed.text]
sourceLine_get(block) == Prefix(block.kind) \o block.text

source_parseFirst(text) ==
  LET lines == Lines(text)
  IN [blocks |-> [k \in 1..Min({MaxBlocks, Len(lines)}) |-> Block(k - 1, sourceLine_parse(lines[k]))],
      nextId |-> Min({MaxBlocks, Len(lines)})]
\* The lines past the last block are kept in it as they are.
source_parse(text) ==
  LET lines == Lines(text)
      many == Len(lines) > MaxBlocks
      rest == [kind |-> "paragraph", text |-> Joined(SubSeq(lines, MaxBlocks, Len(lines)))]
      count == IF many THEN MaxBlocks ELSE Len(lines)
  IN [blocks |-> [k \in 1..count |->
        Block(k - 1, IF many /\ k = MaxBlocks THEN rest ELSE sourceLine_parse(lines[k]))],
      nextId |-> count]

source_get(d) == Joined([k \in DOMAIN d.blocks |-> sourceLine_get(d.blocks[k])])

PositionOf(d, id) == CHOOSE k \in DOMAIN d.blocks : d.blocks[k].id = id
BlockOf(d, id) == d.blocks[PositionOf(d, id)]

\* What the screen shows once its blocks are drawn anew.
Drawn(d) ==
  [id \in {d.blocks[k].id : k \in DOMAIN d.blocks} |-> BlockOf(d, id).text]
Marks(d) ==
  [id \in {d.blocks[k].id : k \in DOMAIN d.blocks} |->
     [kind |-> BlockOf(d, id).kind, ticked |-> BlockOf(d, id).kind = "done"]]

\* Rows some of whose checkboxes were clicked: the browser does it before it tells.
Clicked(rows, ids) ==
  [id \in DOMAIN rows |->
     IF id \in ids THEN [rows[id] EXCEPT !.ticked = ~@] ELSE rows[id]]

\* An edit that is refused.
Refused == [blocks |-> << >>, nextId |-> 0]

-----------------------------------------------------------------------------
(* The operations of the document. *)

Retext(d, id, text) == [d EXCEPT !.blocks[PositionOf(d, id)].text = text]
Rekind(d, id, kind) == [d EXCEPT !.blocks[PositionOf(d, id)].kind = kind]

block_task_toggle(d, id) ==
  CASE BlockOf(d, id).kind = "task" -> Rekind(d, id, "done")
    [] BlockOf(d, id).kind = "done" -> Rekind(d, id, "task")
    [] OTHER -> Refused

\* The marker before the caret becomes the kind of the block.
block_shortcut_apply(d, id, text, end, separated) ==
  LET marker == Before(text, end) \o (IF separated THEN << >> ELSE <<" ">>)
      kinds == {kind \in Kinds \ {"paragraph"} : marker = Prefix(kind)}
  IN IF kinds = {} THEN Refused
     ELSE Rekind(Retext(d, id, After(text, end)), id, CHOOSE kind \in kinds : TRUE)

\* The text of a block becomes these lines; the first one keeps the block.
block_linesReplace(d, id, lines) ==
  LET i == PositionOf(d, id)
      kind == d.blocks[i].kind
      first == IF kind = "paragraph" THEN sourceLine_parse(lines[1])
               ELSE [kind |-> kind, text |-> lines[1]]
      new == [k \in DOMAIN lines |-> IF k = 1 THEN Block(id, first)
                ELSE Block(d.nextId + k - 2, sourceLine_parse(lines[k]))]
  IN IF Len(d.blocks) - 1 + Len(lines) > MaxBlocks THEN Refused
     ELSE [blocks |-> Before(d.blocks, i - 1) \o new \o After(d.blocks, i),
           nextId |-> d.nextId + Len(lines) - 1]

\* What is between two places, at positions i <= j, is replaced.
block_rangeReplace(d, i, from, j, to, replacement) ==
  LET text == Before(d.blocks[i].text, from) \o replacement \o After(d.blocks[j].text, to)
      lines == Lines(text)
      without == [d EXCEPT !.blocks = Before(@, i) \o After(@, j)]
  IN IF from > Len(d.blocks[i].text) \/ to > Len(d.blocks[j].text)
          \/ Len(d.blocks) - (j - i) + Len(lines) - 1 > MaxBlocks THEN Refused
     ELSE block_linesReplace(without, d.blocks[i].id, lines)

nextBlock_get(kind) ==
  CASE kind = "list" -> "list" [] kind \in {"task", "done"} -> "task" [] OTHER -> "paragraph"
emptyEnter_unstyles(kind) == kind \in {"list", "task", "done"}

\* What is selected goes, and the block is split there, or loses its style.
block_enterRange(d, id, from, to) ==
  LET i == PositionOf(d, id)
      block == d.blocks[i]
      unstyles == Len(block.text) = to - from /\ emptyEnter_unstyles(block.kind)
      right == [id |-> d.nextId, kind |-> nextBlock_get(block.kind), text |-> After(block.text, to)]
  IN CASE to > Len(block.text) -> Refused
       [] to <= Len(block.text) /\ unstyles -> Rekind(Retext(d, id, << >>), id, "paragraph")
       [] to <= Len(block.text) /\ ~unstyles /\ Len(d.blocks) >= MaxBlocks -> Refused
       [] OTHER -> [blocks |-> InsertAt(Retext(d, id, Before(block.text, from)).blocks, i + 1, right),
                    nextId |-> d.nextId + 1]

\* The block at position i is appended to the one before.
MergedIntoPrevious(d, i) ==
  LET text == d.blocks[i - 1].text \o d.blocks[i].text
  IN  [d EXCEPT !.blocks = RemoveAt([d.blocks EXCEPT ![i - 1].text = text], i)]

-----------------------------------------------------------------------------
(* The editor. *)

TodoInit ==
  /\ todoBound \in TodoCases
  /\ source = todoBound.source
  /\ document = source_parse(source)
  /\ dirty = FALSE
  /\ screen = Drawn(document) /\ marks = Marks(document)
  /\ composing = {}
  /\ edits = 0
  /\ sent = source
  /\ foreign = FALSE /\ unheeded = {}

source_syncClean(d) ==
  /\ source' = source_get(d)
  /\ dirty' = dirty
source_sync(d) ==
  /\ source' = source_get(d)
  /\ dirty' = (dirty \/ source_get(d) # source)

\* An edit of the document is taken: the source follows and the blocks are
\* drawn anew.
Rebuilt(d) ==
  /\ document' = d
  /\ source_sync(d)
  /\ screen' = Drawn(d) /\ marks' = Marks(d)
  /\ foreign' = FALSE /\ unheeded' = {}
  /\ UNCHANGED <<todoBound, sent>>

Fits(d) == d # Refused /\ Bytes(source_get(d)) <= MaxLength

\* The longest start of a text of at most that many bytes.
text_truncate(text, most) ==
  Before(text, Max({n \in 0..Len(text) : Bytes(Before(text, n)) <= most}))

\* block_multilineInput: a refused edit stays on the screen.
MultilineInput(id, raw) ==
  LET d == block_linesReplace(document, id, Lines(raw))
  IN IF Fits(d)
       THEN Rebuilt(d)
       ELSE /\ screen' = [screen EXCEPT ![id] = raw]
            /\ foreign' = TRUE
            /\ UNCHANGED <<todoBound, document, source, dirty, marks, sent, unheeded>>

TakenInCharacters(id, raw) ==
  LET old == Len(BlockOf(document, id).text)
      size == Len(source_get(document))
  IN Before(raw, Min({Len(raw), IF size > MaxLength THEN old ELSE MaxLength - (size - old)}))
\* What is taken of the text of a block: what fits, or as much as there was.
Taken(id, raw) ==
  LET old == Bytes(BlockOf(document, id).text)
      size == Bytes(source_get(document))
  IN text_truncate(raw, IF size > MaxLength THEN old ELSE MaxLength - (size - old))

\* block_textInput: the browser has changed the text of a block to raw.
TextInputUnrepaired(id, raw, caret, isComposing, separator) ==
  LET typed == Retext(document, id, Taken(id, raw))
  IN IF NL \in ToSet(raw) /\ ~isComposing THEN MultilineInput(id, raw)
     ELSE /\ document' = typed
          /\ source_sync(typed)
          /\ screen' = [screen EXCEPT ![id] = raw]
          /\ UNCHANGED <<todoBound, marks, sent, foreign, unheeded>>
TextInput(id, raw, caret, isComposing, separator) ==
  LET text == Taken(id, raw)
      typed == Retext(document, id, text)
      shortcut == IF separator /\ ~isComposing /\ caret <= Len(text)
                    THEN block_shortcut_apply(typed, id, text, caret, TRUE) ELSE Refused
  IN IF NL \in ToSet(raw) /\ ~isComposing THEN MultilineInput(id, raw)
     ELSE IF shortcut # Refused THEN Rebuilt(shortcut)
     ELSE /\ document' = typed
          /\ source_sync(typed)
          /\ screen' = [screen EXCEPT ![id] = text]
          /\ UNCHANGED <<todoBound, marks, sent, foreign, unheeded>>

\* The text of a block with a selection replaced.
Replaced(id, from, to, by) == Before(screen[id], from) \o by \o After(screen[id], to)

Ranges(text) == {r \in (0..Len(text)) \X (0..Len(text)) : r[1] <= r[2]}

NotComposing == composing = {} /\ composing' = {}

\* A character is typed, or what is selected deleted, by the browser.
Type(id) ==
  /\ NotComposing
  /\ \E r \in Ranges(screen[id]) :
       \/ \E c \in todoBound.chars :
            TextInput(id, Replaced(id, r[1], r[2], <<c>>), r[1] + 1, FALSE, c = " ")
       \/ r[1] < r[2] /\ TextInput(id, Replaced(id, r[1], r[2], << >>), r[1], FALSE, FALSE)

\* A character of a composition, and the end of the composition.
Compose(id) ==
  /\ todoBound.composes /\ composing \in {{}, {id}}
  /\ composing' = {id}
  /\ \E at \in 0..Len(screen[id]), c \in todoBound.chars \cup {NL} :
       TextInput(id, Replaced(id, at, at, <<c>>), at + 1, TRUE, c = " ")

CompositionEnd(id) ==
  /\ composing = {id} /\ composing' = {}
  /\ \E at \in 0..Len(screen[id]) : TextInput(id, screen[id], at, FALSE, FALSE)

\* A space after a marker; otherwise it is typed.
KeySpace(id) ==
  /\ NotComposing
  /\ \E at \in 0..Len(screen[id]) :
       LET d == block_shortcut_apply(document, id, screen[id], at, FALSE)
       IN Fits(d) /\ Rebuilt(d)

\* Enter; when the editor refuses it the browser breaks the line by itself.
KeyEnter(id) ==
  /\ NotComposing
  /\ \E r \in Ranges(screen[id]) :
       LET d == block_enterRange(document, id, r[1], r[2])
       IN IF Fits(d)
            THEN Rebuilt(d)
            ELSE TextInput(id, Replaced(id, r[1], r[2], <<NL>>), r[1] + 1, FALSE, FALSE)

KeyBackspaceAtStart(id) ==
  LET i == PositionOf(document, id)
      block == document.blocks[i]
  IN /\ NotComposing
     /\ IF block.kind # "paragraph"
          THEN Rebuilt(Rekind(document, id, "paragraph"))
          ELSE i > 1 /\ Rebuilt(MergedIntoPrevious(document, i))

KeyDeleteAtEnd(id) ==
  LET i == PositionOf(document, id)
  IN /\ NotComposing
     /\ i < Len(document.blocks)
     /\ Rebuilt(MergedIntoPrevious(document, i + 1))

\* A key over a selection of several blocks, or a text pasted anywhere.
RangeReplace(id, other) ==
  LET i == PositionOf(document, id)
      j == PositionOf(document, other)
  IN /\ NotComposing /\ i <= j
     /\ \E from \in 0..Len(screen[id]), to \in 0..Len(screen[other]), text \in todoBound.pastes :
          /\ i = j => from <= to
          /\ LET d == block_rangeReplace(document, i, from, j, to, text)
             IN Fits(d) /\ Rebuilt(d)

\* A click on a checkbox, which the browser has changed by then: a toggle that
\* is refused draws nothing, and leaves the box as it was clicked.
TaskToggle(id) ==
  LET d == block_task_toggle(document, id)
  IN /\ marks[id].kind \in {"task", "done"}
     /\ UNCHANGED composing
     /\ \/ Fits(d) /\ Rebuilt(d)
        \/ /\ ~Fits(d)
           /\ marks' = Clicked(marks, {id})
           /\ unheeded' = SymDiff(unheeded, {id})
           /\ UNCHANGED <<todoBound, document, source, dirty, screen, sent, foreign>>

\* What the editor does not see: the browser cuts a selection of several
\* blocks by itself, and tells it about the first one.
CutAcross(id, other) ==
  LET i == PositionOf(document, id)
      j == PositionOf(document, other)
      gone == {document.blocks[k].id : k \in (i + 1)..j}
  IN /\ todoBound.cuts /\ NotComposing /\ i < j
     /\ \E from \in 0..Len(screen[id]), to \in 0..Len(screen[other]) :
          LET text == Taken(id, Before(screen[id], from) \o After(screen[other], to))
          IN /\ document' = Retext(document, id, text)
             /\ source_sync(document')
             /\ screen' = [b \in DOMAIN screen \ gone |-> IF b = id THEN text ELSE screen[b]]
     /\ marks' = [b \in DOMAIN marks \ gone |-> marks[b]]
     /\ unheeded' = unheeded \ gone
     /\ foreign' = TRUE
     /\ UNCHANGED <<todoBound, sent>>

\* The holder gives the module another content (source_externalApply).
External ==
  /\ \E text \in todoBound.imports :
       /\ text # source_get(document)
       /\ source' = text
       /\ sent' = text
       /\ document' = source_parse(text)
       /\ screen' = Drawn(document') /\ marks' = Marks(document')
  /\ dirty' = FALSE /\ foreign' = FALSE /\ unheeded' = {} /\ composing' = {}
  /\ UNCHANGED todoBound

\* The debounced save.
SaveNow ==
  /\ dirty
  /\ dirty' = FALSE
  /\ sent' = source
  /\ UNCHANGED <<todoBound, document, source, rowVars, composing, edits, foreign, unheeded>>

TodoNext ==
  \/ /\ edits < todoBound.edits
     /\ edits' = edits + 1
     /\ \E id \in DOMAIN screen :
          \/ Type(id) \/ Compose(id) \/ KeySpace(id) \/ KeyEnter(id)
          \/ KeyBackspaceAtStart(id) \/ KeyDeleteAtEnd(id) \/ TaskToggle(id)
          \/ \E other \in DOMAIN screen : RangeReplace(id, other) \/ CutAcross(id, other)
  \/ \E id \in DOMAIN screen : CompositionEnd(id) /\ UNCHANGED edits
  \/ External /\ edits < todoBound.edits /\ edits' = edits + 1
  \/ SaveNow

TodoSpec == TodoInit /\ [][TodoNext]_todoVars /\ WF_todoVars(SaveNow)
-----------------------------------------------------------------------------
(* Properties. *)

\* Every variable has its type; no two blocks share an identifier, which the
\* rows of the screen are keyed by, no identifier comes back, and there are at
\* most MaxBlocks blocks.
TodoTypeOK ==
  /\ todoBound \in TodoCases
  /\ document \in [blocks : Seq([id : Nat, kind : Kinds, text : Text]), nextId : Nat]
  /\ Len(document.blocks) \in 1..MaxBlocks
  /\ \A k \in DOMAIN document.blocks :
       /\ document.blocks[k].id < document.nextId
       /\ \A j \in 1..(k - 1) : document.blocks[j].id # document.blocks[k].id
  /\ source \in Text /\ sent \in Text /\ screen \in [DOMAIN screen -> Text]
  /\ dirty \in BOOLEAN /\ foreign \in BOOLEAN
  /\ DOMAIN screen \subseteq {document.blocks[k].id : k \in DOMAIN document.blocks}
  /\ marks \in [DOMAIN screen -> [kind : Kinds, ticked : BOOLEAN]]
  /\ unheeded \subseteq DOMAIN screen
  /\ \A id \in composing : composing = {id}
  /\ edits \in 0..todoBound.edits

\* The content of the module, which is what is saved and sent, is that of the
\* blocks after each operation, and reading it back gives the same content:
\* nothing typed is left out, and a note that is only opened never changes
\* (document.rs:218-251, editor.rs:96).
SourceIsDocument ==
  source = source_get(document) /\ source_get(source_parse(source)) = source

\* No edit makes the content longer than MaxLength, or longer than it was when
\* the content that came was longer: whichever way a block, a marker or a line
\* is added, and characters of two bytes included.
LengthKept ==
  [][External \/ Bytes(source') <= Max({MaxLength, Bytes(source)})]_todoVars

\* The rows show the blocks of the document, their text, kind and checkbox, so
\* that the places the browser reports are places of the document; but after a
\* toggle refused for the length of the note, the box says the opposite of what
\* is saved until the rows are drawn anew or it is clicked again (editor.rs:324-
\* 334, 534-539).  Nothing is said while the browser shows an edit of its own: a
\* line broken that the editor refused, or a cut across blocks.
ScreenShowsDocument ==
  ~foreign => screen = Drawn(document) /\ marks = Clicked(Marks(document), unheeded)

\* What the user has typed is sent to the holder, again and again, provided the
\* save that is due happens (it is put off while the user types).
EditsAreSent == []<>(sent = source)
=============================================================================
