----------------------------- MODULE TextEditor -----------------------------
(***************************************************************************)
(* The text editor of the window example: TextEditState, which key events  *)
(* and clicks change at once; TextEditorSystem, which has the text laid    *)
(* out once per frame and looks clicks up in what it laid out last; and    *)
(* the RenderComponent that keeps the layout.  All on the main thread, but *)
(* any number of events may come between two frames.                       *)
(*                                                                         *)
(* The layout: the UTF-8 bytes become lines of glyph quads and of cursor   *)
(* slots in pixels, and these the vertices that are drawn.  A whole text   *)
(* can be laid out, or, after an edit, only what follows it, with the      *)
(* vertices of the other lines taken over from the layout before.          *)
(*                                                                         *)
(* A byte is a glyph of one byte, "s" (space), "n" (newline), or "L" or    *)
(* "C", the lead and the continuation byte of a character of two.  Every   *)
(* glyph is one unit wide; rows are RowHeight units apart.                 *)
(***************************************************************************)
EXTENDS Integers, Sequences, FiniteSetsExt, SequencesExt

CONSTANTS
    MaxLine,           \* the widest line, 0 for none: maxLinePx
    Inputs,            \* what one key or one paste inserts: sequences of bytes
    FirstText,
    PanelRows,         \* _panelHeight, in rows
    MaxLength, MaxInputs, MaxMoves    \* bounds of the model

ASSUME EditorAssumption ==
    /\ MaxLine \in Nat
    /\ PanelRows \in Nat \ {0} /\ MaxLength \in Nat /\ MaxInputs \in Nat /\ MaxMoves \in Nat

VARIABLES
    state,      \* TextEditState: text, cursor, edit (editBytePos), the flags
                \* changed (textChanged) and content (textContentChanged)
    rc,         \* the component: text, cursor, lines, body, anchor, offset, place,
                \* and the history of the anchor: origin, the one last laid out from
    slots,      \* TextEditorSystem::_cursorSlots
    scroll,     \* _scrollOffsetY
    height,     \* _contentHeight, in rows
    dirtyGlyphs,  \* RenderSystem::_glyphDirty
    handedOver,   \* the vertices handed to the renderer last
    seen,       \* history, for the properties: what came between frames
    failed,     \* an exception has left the event handler
    total       \* edits and moves so far, for the bounds

editorVars == <<state, rc, slots, scroll, height, dirtyGlyphs, handedOver, seen, failed, total>>

-----------------------------------------------------------------------------
RowHeight == 3
GlyphHeight(g) == IF g = "L" THEN 2 ELSE 1
NoPen == <<>>

(* The characters from a byte on: [at, next, glyph].  A lead byte takes    *)
(* whatever byte follows it; a byte that fits nothing is skipped.          *)
Characters(str, from) ==
    LET from1[i \in Nat] ==
          IF i >= Len(str) THEN <<>>
          ELSE LET byte == str[i + 1]
                   size == IF byte = "L" THEN 2 ELSE 1 IN
               IF byte = "C" \/ i + size > Len(str) THEN from1[i + 1]
               ELSE <<[at |-> i, next |-> i + size, glyph |-> byte]>> \o from1[i + size]
    IN from1[from]

NewLine(begin, row) ==
    [begin |-> begin, end |-> begin, row |-> row, quads |-> <<>>, slots |-> <<>>,
     verts |-> <<>>]

(* One turn of the layout loop; s is [done, line, x, pen], pen the pen     *)
(* position of the cursor once it is known.  A line that has to wrap keeps *)
(* the slot of the character it hands on only in a full layout.            *)
NextCharacter(s, c, cursor, full) ==
    LET row == s.line.row
        pen == IF s.pen = NoPen /\ c.at >= cursor THEN <<s.x, row>> ELSE s.pen
        slot == [at |-> c.at, x |-> s.x, row |-> row]
        line == [s.line EXCEPT !.slots = Append(@, slot)]
        wraps == MaxLine > 0 /\ s.x > 0 /\ s.x + 1 > MaxLine
    IN CASE c.glyph = "n" ->
              [done |-> Append(s.done, [line EXCEPT !.end = c.next]),
               line |-> NewLine(c.next, row + 1), x |-> 0, pen |-> pen]
         [] c.glyph = "s" ->
              [s EXCEPT !.line = line, !.x = @ + 1, !.pen = pen]
         [] c.glyph \notin {"n", "s"} /\ wraps ->
              [done |-> Append(s.done, [(IF full THEN line ELSE s.line) EXCEPT !.end = c.at]),
               line |-> [NewLine(c.at, row + 1) EXCEPT
                           !.slots = <<[slot EXCEPT !.x = 0, !.row = row + 1]>>,
                           !.quads = <<[glyph |-> c.glyph, x |-> 0]>>],
               x |-> 1, pen |-> pen]
         [] OTHER ->
              [s EXCEPT !.line = [line EXCEPT !.quads =
                                     Append(@, [glyph |-> c.glyph, x |-> s.x])],
                        !.x = @ + 1, !.pen = pen]

(* The lines from a byte and a row on, after those that are kept; the last *)
(* one gets a slot for the end of the text.                                *)
LayOut(str, kept, from, row, cursor, known, full) ==
    LET s == FoldLeft(LAMBDA acc, c : NextCharacter(acc, c, cursor, full),
                      [done |-> kept, line |-> NewLine(from, row), x |-> 0, pen |-> known],
                      Characters(str, from))
        final == [at |-> Len(str), x |-> s.x, row |-> s.line.row]
    IN [lines |-> Append(s.done, [s.line EXCEPT !.end = Len(str), !.slots = Append(@, final)]),
        pen |-> IF s.pen = NoPen THEN <<s.x, s.line.row>> ELSE s.pen]

WholeLayout(str, cursor) ==
    IF str = <<>> THEN [lines |-> <<>>, pen |-> <<0, 0>>]
    ELSE LayOut(str, <<>>, 0, 0, cursor, NoPen, TRUE)

-----------------------------------------------------------------------------
(* The line to start again from: looked for among the lines of the layout  *)
(* before the edit.                                                        *)
DirtyLine(lines, edit) ==
    LET stops == {k \in DOMAIN lines :
                     \/ lines[k].begin > edit
                     \/ edit < lines[k].end \/ k = Len(lines)}
        k == Min(stops)
    IN IF lines[k].begin <= edit THEN k ELSE IF k > 1 THEN k - 1 ELSE 1

(* The cursor's position is taken from a line that is kept, if its slot is *)
(* there: the last such slot.                                              *)
KnownPen(kept, cursor) ==
    LET there == SelectSeq(FlattenSeq([k \in DOMAIN kept |-> kept[k].slots]),
                           LAMBDA s : s.at = cursor)
    IN IF there = <<>> THEN NoPen ELSE <<Last(there).x, Last(there).row>>

LayoutAfter(str, lines, edit, cursor) ==
    LET dirty == DirtyLine(lines, edit)
        kept == SubSeq(lines, 1, dirty - 1)
        start == IF kept = <<>> THEN 0 ELSE Last(kept).end
    IN LayOut(str, kept, start, lines[dirty].row, cursor, KnownPen(kept, cursor), FALSE)

(* A new line that begins at the byte and in the row of an old one takes   *)
(* over its vertices, and so do all the matching lines after it.  Returned *)
(* is the first such line.                                                 *)
Matching(new, k, old, dirty) ==
    {j \in dirty .. Len(old) : old[j].begin = new[k].begin /\ old[j].row = new[k].row}
Convergence(new, old, dirty) ==
    LET found == {k \in dirty + 1 .. Len(new) : Matching(new, k, old, dirty) # {}}
    IN IF found = {} THEN Len(new) + 1 ELSE Min(found)
TakenOver(new, old, dirty) ==
    [k \in DOMAIN new |->
        IF k >= Convergence(new, old, dirty) /\ Matching(new, k, old, dirty) # {}
        THEN [new[k] EXCEPT !.verts = old[Max(Matching(new, k, old, dirty))].verts]
        ELSE new[k]]

-----------------------------------------------------------------------------
(* The top left corner of what is drawn, of the cursor's quad too          *)
Top(row, glyph) == GlyphHeight(glyph) - RowHeight * row
Anchor(lines, pen) ==
    LET quads(k) == lines[k].quads
        xs == UNION {{q.x : q \in ToSet(quads(k))} : k \in DOMAIN lines}
        tops == UNION {{Top(lines[k].row, q.glyph) : q \in ToSet(quads(k))} : k \in DOMAIN lines}
    IN [x |-> Min(xs \cup {pen[1]}), y |-> Max(tops \cup {0 - RowHeight * pen[2]})]

(* From pixels to the world: relative to the anchor, moved by the scroll   *)
(* offset and by where the entity is.                                      *)
InWorld(quads, row, anchor, shift) ==
    [n \in DOMAIN quads |->
        [glyph |-> quads[n].glyph, x |-> quads[n].x - anchor.x,
         y |-> Top(row, quads[n].glyph) - anchor.y + shift]]
SlotsInWorld(lines, anchor, shift) ==
    FlattenSeq([k \in DOMAIN lines |->
        [n \in DOMAIN lines[k].slots |->
            LET s == lines[k].slots[n] IN
            [at |-> s.at, x |-> s.x - anchor.x,
             y |-> shift - anchor.y - RowHeight * s.row]]])

(* Only the lines from .. until - 1 are transformed anew, unless the       *)
(* anchor is not the one the others were transformed with.                 *)
Transformed(lines, anchor, before, shift, from, until) ==
    [k \in DOMAIN lines |->
        IF anchor # before \/ k \in from .. until - 1
        THEN [lines[k] EXCEPT !.verts = InWorld(lines[k].quads, lines[k].row, anchor, shift)]
        ELSE lines[k]]
Body(lines) == FlattenSeq([k \in DOMAIN lines |-> lines[k].verts])

Shifted(verts, dy) == [n \in DOMAIN verts |-> [verts[n] EXCEPT !.y = @ + dy]]

-----------------------------------------------------------------------------
NoAnchor == [x |-> -1, y |-> 1000]          \* _cachedAnchorY = 1e30f
Shift(c) == c.offset + c.place

(* What the component does with a layout whose lines from .. until - 1 are *)
(* new                                                                     *)
Emitted(c, layout, from, until) ==
    LET anchor == Anchor(layout.lines, layout.pen)
        lines == Transformed(layout.lines, anchor, c.anchor, Shift(c), from, until)
    IN [c EXCEPT !.lines = lines, !.body = Body(lines), !.anchor = anchor,
              !.origin = anchor]

RebuildAll(c) ==
    LET layout == WholeLayout(c.text, c.cursor) IN
    Emitted(c, layout, 1, Len(layout.lines) + 1)

RebuildAfter(c, edit) ==
    IF c.lines = <<>> \/ c.text = <<>> THEN RebuildAll(c)
    ELSE LET layout == LayoutAfter(c.text, c.lines, edit, c.cursor)
             dirty == DirtyLine(c.lines, edit)
             until == Convergence(layout.lines, c.lines, dirty)
         IN Emitted(c, [layout EXCEPT !.lines = TakenOver(@, c.lines, dirty)], dirty, until)

(* Mutant of Translated: the vertices kept with the lines stay behind.     *)
TranslatedBody(c, dy) == [c EXCEPT !.body = Shifted(@, dy)]

(* scrollVertical() and translateGlyphVertices(): the component's vertices *)
(* move; its slots have gone to the editor, which leaves them as they are. *)
Translated(c, dy) ==
    [c EXCEPT !.body = Shifted(@, dy),
              !.lines = [k \in DOMAIN @ |-> [@[k] EXCEPT !.verts = Shifted(@, dy)]]]
Scrolled(c, dy) == [Translated(c, dy) EXCEPT !.offset = @ + dy, !.anchor = NoAnchor]
Dragged(c, dy) == [Translated(c, dy) EXCEPT !.place = @ + dy]

RowsOf(c) == Max({1} \cup {c.lines[k].row + 1 : k \in DOMAIN c.lines})
MaxScroll(rows) == Max({0, rows - PanelRows})

(* History.  edits: changes of the text since it was laid out.  skewed:    *)
(* two of them were laid out as one.  moved: scrolled or dragged since.    *)
(* loose: a click was looked up in slots that were not the text's, which   *)
(* may have torn a character apart until all is cleared.                   *)
(* intact: how many lines were laid out or kept rightly.                   *)
Unseen == [edits |-> 0, skewed |-> FALSE, moved |-> FALSE, loose |-> FALSE, intact |-> 0]

EditorInit ==
    LET c == RebuildAll([text |-> FirstText, cursor |-> Len(FirstText), lines |-> <<>>,
                         body |-> <<>>, anchor |-> NoAnchor, origin |-> NoAnchor,
                         offset |-> 0, place |-> 0]) IN
    /\ state = [text |-> FirstText, cursor |-> Len(FirstText), edit |-> 0,
                changed |-> FALSE, content |-> FALSE]
    /\ rc = c
    /\ slots = SlotsInWorld(c.lines, c.anchor, 0)
    /\ scroll = 0 /\ height = RowsOf(c)
    /\ dirtyGlyphs = FALSE /\ handedOver = c.body
    /\ seen = [Unseen EXCEPT !.intact = Len(c.lines)] /\ failed = FALSE /\ total = 0

-----------------------------------------------------------------------------
(* TextEditState                                                           *)
Text == state.text
Cursor == state.cursor
Continues(pos) == pos < Len(Text) /\ Text[pos + 1] = "C"
Without(from, to) == SubSeq(Text, 1, from) \o SubSeq(Text, to + 1, Len(Text))

(* Mutant of Before: one byte is taken for one character.                  *)
BeforeByte(pos) == pos - 1

(* The character that begins before, and the one that ends after, a byte   *)
Before(pos) == Max({p \in 0 .. pos - 1 : p = 0 \/ ~Continues(p)})
After(pos) == Min({p \in pos + 1 .. Len(Text) : ~Continues(p)})

Edited(text, at, cursor) ==
    /\ ~failed /\ total < MaxInputs /\ total' = total + 1
    /\ state' = [text |-> text, cursor |-> cursor, edit |-> at,
                 changed |-> TRUE, content |-> TRUE]
    /\ seen' = [seen EXCEPT !.edits = @ + 1]
    /\ UNCHANGED <<rc, slots, scroll, height, dirtyGlyphs, handedOver, failed>>

(* insertCodepoint(), insertUtf8()                                         *)
Insert(bytes) ==
    /\ Cursor <= Len(Text) /\ Len(Text) + Len(bytes) <= MaxLength
    /\ Edited(SubSeq(Text, 1, Cursor) \o bytes \o SubSeq(Text, Cursor + 1, Len(Text)),
              Cursor, Cursor + Len(bytes))

Backspace ==
    /\ Cursor \in 1 .. Len(Text)
    /\ Edited(Without(Before(Cursor), Cursor), Before(Cursor), Before(Cursor))

DeleteChar ==
    /\ Cursor < Len(Text)
    /\ Edited(Without(Cursor, After(Cursor)), Cursor, Cursor)

(* std::string throws if it is asked to insert or erase behind its end.    *)
EditBehindTheEnd ==
    /\ ~failed /\ Cursor > Len(Text)
    /\ failed' = TRUE
    /\ UNCHANGED <<state, rc, slots, scroll, height, dirtyGlyphs, handedOver, seen, total>>

(* Cursor keys, Home, End and clicks                                       *)
CursorTo(pos, loose) ==
    /\ ~failed
    /\ state' = [state EXCEPT !.cursor = pos, !.changed = TRUE]
    /\ seen' = [seen EXCEPT !.loose = loose]
    /\ UNCHANGED <<rc, slots, scroll, height, dirtyGlyphs, handedOver, failed, total>>

MoveCursor ==
    \/ Cursor \in 1 .. Len(Text) /\ CursorTo(Before(Cursor), seen.loose)
    \/ Cursor < Len(Text) /\ CursorTo(After(Cursor), seen.loose)
    \/ CursorTo(0, seen.loose) \/ CursorTo(Len(Text), seen.loose)

(* cursorFromHitPoint(): the byte of the slot nearest to where the mouse   *)
(* is, which may be any slot, or 0 if the ray misses the text's plane.     *)
HitPoints == {0} \cup {s.at : s \in ToSet(slots)}

EditorClick ==
    IF Text = <<>> THEN CursorTo(0, seen.loose)
    ELSE \E at \in HitPoints :
           CursorTo(at, seen.loose \/ (at # 0 /\ (seen.edits > 0 \/ seen.skewed)))

(* clearText(): the text goes, but the flag for it stays as it was.        *)
ClearText ==
    /\ ~failed /\ total < MaxInputs /\ total' = total + 1
    /\ state' = [state EXCEPT !.text = <<>>, !.cursor = 0, !.changed = TRUE]
    /\ seen' = [seen EXCEPT !.edits = @ + 1, !.loose = FALSE]
    /\ UNCHANGED <<rc, slots, scroll, height, dirtyGlyphs, handedOver, failed>>

(* With Ctrl, X clears the text and V inserts what the clipboard holds.    *)
ClipboardShortcut == ClearText \/ \E bytes \in Inputs : Insert(bytes)

-----------------------------------------------------------------------------
(* TextEditorSystem                                                        *)
ScrollTo(c, from, to) == IF to = from THEN c ELSE Scrolled(c, RowHeight * (to - from))

(* The mouse wheel and the scroll bar: applyScrollOffset()                 *)
Scroll(to) ==
    /\ ~failed /\ total < MaxInputs + MaxMoves /\ total' = total + 1
    /\ to \in (0 .. MaxScroll(height)) \ {scroll}
    /\ scroll' = to
    /\ rc' = ScrollTo(rc, scroll, to)
    /\ dirtyGlyphs' = TRUE
    /\ seen' = [seen EXCEPT !.moved = TRUE]
    /\ UNCHANGED <<state, slots, height, handedOver, failed>>

(* updateObjectDrag() on the editor                                        *)
DragEditor(dy) ==
    /\ ~failed /\ total < MaxInputs + MaxMoves /\ total' = total + 1
    /\ rc' = Dragged(rc, dy)
    /\ dirtyGlyphs' = TRUE
    /\ seen' = [seen EXCEPT !.moved = TRUE]
    /\ UNCHANGED <<state, slots, scroll, height, handedOver, failed>>

(* onFrame(): the text is laid out, from the last edit on if it was edited *)
(* and as a whole if only the cursor moved; the slots are taken; a scroll  *)
(* that has become too far is drawn back.  Then RenderSystem::update()     *)
(* hands over the vertices, except in a tick that resized the swapchain.   *)
LaidOut ==
    LET c == [rc EXCEPT !.text = Text, !.cursor = Cursor] IN
    IF state.content THEN RebuildAfter(c, state.edit) ELSE RebuildAll(c)

(* Of the lines, those up to the first that took over vertices are sound,  *)
(* as long as those before the edit were; all are when nothing was kept.   *)
Intact ==
    IF ~state.content \/ rc.lines = <<>> \/ Text = <<>> \/ LaidOut.anchor # rc.anchor
    THEN Len(LaidOut.lines)
    ELSE LET dirty == DirtyLine(rc.lines, state.edit) IN
         IF dirty - 1 <= seen.intact
         THEN Convergence(LaidOut.lines, rc.lines, dirty) - 1
         ELSE seen.intact
Witnessed ==
    [edits |-> 0, moved |-> FALSE, loose |-> seen.loose, intact |-> Intact,
     skewed |-> /\ state.content /\ Text # <<>> /\ rc.lines # <<>>
                /\ seen.skewed \/ seen.edits > 1]

Frame(resizedThisTick) ==
    LET laid == IF state.changed THEN LaidOut ELSE rc
        rows == IF state.changed THEN RowsOf(laid) ELSE height
        far == state.changed /\ scroll > MaxScroll(rows)
        drawn == IF far THEN ScrollTo(laid, scroll, MaxScroll(rows)) ELSE laid
        dirty == dirtyGlyphs \/ state.changed
    IN
    /\ ~failed
    /\ rc' = drawn
    /\ slots' = IF state.changed THEN SlotsInWorld(laid.lines, laid.anchor, Shift(laid)) ELSE slots
    /\ height' = rows
    /\ scroll' = IF far THEN MaxScroll(rows) ELSE scroll
    /\ state' = [state EXCEPT !.changed = FALSE, !.content = FALSE]
    /\ dirtyGlyphs' = (dirty /\ resizedThisTick)
    /\ handedOver' = IF dirty /\ ~resizedThisTick THEN drawn.body ELSE handedOver
    /\ seen' = IF state.changed THEN [Witnessed EXCEPT !.moved = far] ELSE seen
    /\ UNCHANGED <<failed, total>>

EditorNext ==
    \/ \E bytes \in Inputs : Insert(bytes)
    \/ Backspace \/ DeleteChar \/ EditBehindTheEnd \/ ClipboardShortcut
    \/ MoveCursor \/ EditorClick
    \/ \E to \in 0 .. MaxScroll(height) : Scroll(to)
    \/ \E dy \in {1} : DragEditor(dy)
    \/ \E resizedThisTick \in BOOLEAN : Frame(resizedThisTick)

-----------------------------------------------------------------------------
Boundary(str, pos) ==
    /\ pos <= Len(str)
    /\ pos \in 1 .. Len(str) - 1 => str[pos + 1] # "C"
Glyphs(str) ==
    LET drawn == SelectSeq(Characters(str, 0), LAMBDA c : c.glyph \notin {"s", "n"})
    IN [n \in DOMAIN drawn |-> drawn[n].glyph]
AsLaidOut(c, k) == InWorld(c.lines[k].quads, c.lines[k].row, c.origin, Shift(c))

(* Layouts that start again from an edit build on one another: still the   *)
(* lines cover the text without a gap or an overlap, in rows of their own, *)
(* each glyph once and none behind the end of the line, and each line up   *)
(* to the first that took over vertices is drawn as it was laid out, where *)
(* the editor is scrolled and dragged to.  Two edits in one frame excepted *)
(* (incrementalRebuildSdf, emitWorldVerticesFromLines).                    *)
LayoutFollowsText ==
    ~seen.skewed =>
        /\ FlattenSeq([k \in DOMAIN rc.lines |->
               [n \in DOMAIN rc.lines[k].quads |-> rc.lines[k].quads[n].glyph]])
             = Glyphs(rc.text)
        /\ \A k \in DOMAIN rc.lines :
             LET line == rc.lines[k] IN
             /\ line.begin = (IF k = 1 THEN 0 ELSE rc.lines[k - 1].end)
             /\ line.row = k - 1
             /\ k = Len(rc.lines) => line.end = Len(rc.text)
             /\ \A q \in ToSet(line.quads) : MaxLine > 0 => q.x < Max({1, MaxLine})
             /\ k <= seen.intact => line.verts = AsLaidOut(rc, k)

(* A click is looked up where the characters were drawn by the last        *)
(* layout, and finds a whole character: unless the text was scrolled or    *)
(* dragged since, which leaves the editor's slots behind, or edited.  So   *)
(* the cursor is never inside a character nor behind the end, unless a     *)
(* click came between an edit and its frame (cursorFromHitPoint).          *)
ClicksFindCharacters ==
    /\ seen.edits = 0 /\ ~seen.skewed =>
          \A s \in ToSet(slots) : Boundary(Text, s.at)
    /\ seen.edits = 0 /\ ~seen.skewed /\ ~seen.moved =>
          ToSet(slots) = ToSet(SlotsInWorld(rc.lines, rc.origin, Shift(rc)))
    /\ ~seen.loose => ~failed /\ Boundary(Text, Cursor)

(* What the renderer was given last is what the component has, unless it   *)
(* is marked for the next update().                                        *)
ScreenIsCurrent == ~dirtyGlyphs => handedOver = rc.body

(* The way of the text to the screen: its layout, and what the renderer is *)
(* given of it (incrementalRebuildSdf, scrollVertical, update).            *)
TextIsDrawn == LayoutFollowsText /\ ScreenIsCurrent

(* The comment of the convergence: from the first line that begins at the  *)
(* byte and in the row of an old one, "cachedWorldVerts from the saved     *)
(* entries are still valid" (rendercomponent.cpp:861).  Two edits in one   *)
(* frame excepted.                                                         *)
SavedVerticesAreValid ==
    ~seen.skewed => \A k \in DOMAIN rc.lines : rc.lines[k].verts = AsLaidOut(rc, k)

EditorSpec == EditorInit /\ [][EditorNext]_editorVars
=============================================================================
