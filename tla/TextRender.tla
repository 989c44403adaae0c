----------------------------- MODULE TextRender -----------------------------
(***************************************************************************)
(* The text layout of TextRenderBase (plugins/textrender.cpp).  render()   *)
(* reads a text with control codes and pushes its characters; a group of   *)
(* leading characters (opening brackets) and the character after them      *)
(* waits in m_buffer and is placed as a whole by flush(), on the current   *)
(* line or, when it does not fit, on the next.  The widths come from the   *)
(* one rasterizer of the process, whose font other callers change too.     *)
(*                                                                         *)
(* A call of render() is one TextRenderBase action per control code or     *)
(* character between Render and RenderEnd: the text is any.  Fonts, but    *)
(* for their size, colours, the height of the box and the tags the code    *)
(* only reads are left out, and so is m_autoIndent, which nothing sets.    *)
(***************************************************************************)
EXTENDS Integers, Sequences

CONSTANTS
    BoxWidths,    \* widths the script gives the box
    BuiltIn,      \* the [size, pitch] a new object has
    Defaults,     \* those the script gives to setDefault
    Percents,     \* the font sizes of %NN;, in percent of the default's
    Pitches,      \* the values of %p
    LineSpacing,  \* m_state.lineSpacing
    Extent(_),    \* how wide and high the rasterizer says that a character is
                  \* in a font of a size
    OtherSizes,   \* what it says in fonts that other users of it apply
    MaxPushed,    \* bound: characters pushed in a behaviour
    MaxCommands   \* bound: control codes, and calls other than render()

\* The integer division of C++ rounds towards zero.
Scaled(size, percent) ==
    LET n == size * percent
    IN  IF n >= 0 THEN n \div 100 ELSE -((-n) \div 100)

\* The sizes of fonts are any, as in the code.  That the lines are told apart by
\* their height is assumed: the spacing, which is 6 until a script sets it, stays
\* above zero, and the rasterizer gives no negative sizes.
ASSUME SizesAssumption ==
    /\ BoxWidths \subseteq Int
    /\ Percents \subseteq Int /\ Pitches \subseteq Int
    /\ LineSpacing \in Nat \ {0}
    /\ MaxPushed \in Nat /\ MaxCommands \in Nat
    /\ OtherSizes \subseteq Nat
    /\ \A d \in Defaults \cup {BuiltIn} :
          /\ d.size \in Int /\ d.pitch \in Int
          /\ Extent(d.size) \in Nat
          /\ \A percent \in Percents : Extent(Scaled(d.size, percent)) \in Nat

\* The sizes and the pitches a character can be placed with.
Sizes ==
    OtherSizes \cup {Extent(d.size) : d \in Defaults \cup {BuiltIn}}
      \cup {Extent(Scaled(d.size, percent)) :
               d \in Defaults \cup {BuiltIn}, percent \in Percents}

AllPitches == Pitches \cup {d.pitch : d \in Defaults \cup {BuiltIn}}

\* What the layout is proved for: no pitch takes back more than the character.
PitchesAreMild == \A size \in Sizes, pitch \in AllPitches : size + pitch >= 0

VARIABLES
    box,        \* m_boxWidth
    default,    \* m_default
    state,      \* m_state: the pitch
    applied,    \* the size of a character in the font the rasterizer has
    page,       \* m_x, m_y, m_characters, m_buffer, m_state.renderText
    indent,     \* m_indent
    mode,       \* m_mode: the kind of the last character
    rendering,  \* a call of render() is running
    pushed,     \* ghost: how many characters were pushed so far
    cleared,    \* ghost: how many of them were before the last clear(), and how
                \* many of these it has left in m_buffer
    cut,        \* ghost: the characters after which the text breaks or done()
                \* ends a group
    commands    \* ghost: how many commands were given so far

vars == <<box, default, state, applied, page, indent, mode, rendering,
          pushed, cleared, cut, commands>>

Leading   == "leading"
Normal    == "normal"
Following == "following"
Kinds     == {Leading, Normal, Following}

NewPage ==
    [x |-> 0, y |-> 0, characters |-> <<>>, buffer |-> <<>>, text |-> <<>>]

Init ==
    /\ box = 0
    /\ default = BuiltIn
    /\ state = [pitch |-> default.pitch]
    /\ applied \in OtherSizes
    /\ page = NewPage
    /\ indent = 0
    /\ mode = Leading
    /\ rendering = FALSE
    /\ pushed = 0
    /\ cleared = [upTo |-> 0, kept |-> 0]
    /\ cut = {}
    /\ commands = 0
-----------------------------------------------------------------------------
LineHeight == applied + LineSpacing

\* performLinebreak
Linebreak(p) == [p EXCEPT !.x = indent, !.y = @ + LineHeight]

Advance(c) == c.cw + state.pitch

\* mutant: a character that just fits breaks the line
PutTooEarly(pen, c) ==
    LET breaks == pen.x + Advance(c) >= box
        left   == IF breaks THEN indent ELSE pen.x
    IN  [left |-> left, x |-> left + Advance(c),
         y |-> IF breaks THEN pen.y + LineHeight ELSE pen.y]

\* mutant: the width is compared before the pitch is added
PutWithoutPitch(pen, c) ==
    LET breaks == pen.x + c.cw > box
        left   == IF breaks THEN indent ELSE pen.x
    IN  [left |-> left, x |-> left + Advance(c),
         y |-> IF breaks THEN pen.y + LineHeight ELSE pen.y]

\* A character is put where the pen is, after a line break if it would end
\* outside the box.
Put(pen, c) ==
    LET breaks == pen.x + Advance(c) > box
        left   == IF breaks THEN indent ELSE pen.x
    IN  [left |-> left, x |-> left + Advance(c),
         y |-> IF breaks THEN pen.y + LineHeight ELSE pen.y]

\* The pen behind each of the characters put one after the other.
Pens(characters, x, y) ==
    LET pen[i \in 0..Len(characters)] ==
          IF i = 0 THEN [left |-> x, x |-> x, y |-> y]
                   ELSE Put(pen[i - 1], characters[i])
    IN  pen

\* The characters placed from x, y on, and the pen behind the last one.
Place(characters, x, y) ==
    LET pen == Pens(characters, x, y)
    IN  [x |-> pen[Len(characters)].x, y |-> pen[Len(characters)].y,
         placed |-> [i \in DOMAIN characters |->
                       [characters[i] EXCEPT !.x = pen[i].left, !.y = pen[i].y,
                                             !.advance = Advance(characters[i])]]]

\* mutant: the group stays in m_buffer
FlushKeepsGroup(p) ==
    LET here == Place(p.buffer, p.x, p.y)
        next == Linebreak(p)
        end  == IF here.y = p.y THEN here ELSE Place(p.buffer, next.x, next.y)
    IN  [x |-> end.x, y |-> end.y,
         characters |-> p.characters \o end.placed,
         buffer |-> p.buffer,
         text |-> p.text \o [i \in DOMAIN p.buffer |-> p.buffer[i].id]]

\* mutant: the group is broken where it leaves the box
FlushBreaksGroup(p) ==
    LET end == Place(p.buffer, p.x, p.y)
    IN  [x |-> end.x, y |-> end.y,
         characters |-> p.characters \o end.placed,
         buffer |-> <<>>,
         text |-> p.text \o [i \in DOMAIN p.buffer |-> p.buffer[i].id]]

\* flush: the group goes on this line if it fits as a whole, else on the
\* next, where flush(true) breaks it wherever it must.
Flush(p) ==
    LET here == Place(p.buffer, p.x, p.y)
        next == Linebreak(p)
        end  == IF here.y = p.y THEN here ELSE Place(p.buffer, next.x, next.y)
    IN  [x |-> end.x, y |-> end.y,
         characters |-> p.characters \o end.placed,
         buffer |-> <<>>,
         text |-> p.text \o [i \in DOMAIN p.buffer |-> p.buffer[i].id]]

\* ghost: the text breaks after the last character pushed so far, or done() was
\* called there, which breaks no line
Cut == cut' = cut \cup {pushed}

Command == commands < MaxCommands /\ commands' = commands + 1

Render ==
    /\ ~rendering
    /\ rendering' = TRUE
    /\ UNCHANGED <<box, default, state, applied, page, indent, mode, pushed,
                   cleared, cut, commands>>

\* pushCharacter: the group before it is complete unless it ended with a
\* leading character.  The rasterizer measures the new one now.
PushCharacter(kind) ==
    /\ rendering /\ pushed < MaxPushed
    /\ LET p == IF mode = Following \/ mode # Leading
                THEN Flush(page) ELSE page
           c == [id |-> pushed + 1, kind |-> kind, cw |-> applied,
                 x |-> 0, y |-> 0, advance |-> 0]
       IN  page' = [p EXCEPT !.buffer = Append(@, c)]
    /\ mode' = kind
    /\ pushed' = pushed + 1
    /\ UNCHANGED <<box, default, state, applied, indent, rendering, cleared,
                   cut, commands>>

\* \n
Newline ==
    /\ Command
    /\ rendering
    /\ page' = Linebreak(Flush(page))
    /\ Cut
    /\ UNCHANGED <<box, default, state, applied, indent, mode, rendering,
                   pushed, cleared>>

\* \i and \r: \i takes the position after the flushed characters, not after
\* the group in m_buffer.
SetIndent ==
    /\ Command
    /\ rendering
    /\ indent' \in {page.x, 0}
    /\ UNCHANGED <<box, default, state, applied, page, mode, rendering, pushed,
                   cleared, cut>>

\* %p
SetPitch(pitch) ==
    /\ Command
    /\ rendering
    /\ state' = [pitch |-> pitch]
    /\ UNCHANGED <<box, default, applied, page, indent, mode, rendering,
                   pushed, cleared, cut>>

\* %NN; with updateFont
SetSize(percent) ==
    /\ Command
    /\ rendering
    /\ applied' = Extent(Scaled(default.size, percent))
    /\ UNCHANGED <<box, default, state, page, indent, mode, rendering, pushed,
                   cleared, cut>>

\* %r and the methods resetFont and resetStyle: renderText is part of the state
\* that is reset, and no font is applied.
ResetFont ==
    /\ Command
    /\ state' = [pitch |-> default.pitch]
    /\ page' = [page EXCEPT !.text = <<>>]
    /\ UNCHANGED <<box, default, applied, indent, mode, rendering, pushed,
                   cleared, cut>>

\* The end of the text; or an exception, for a code that is cut short or unknown
\* or for a surrogate: what was laid out so far stays.
RenderEnd ==
    /\ rendering
    /\ rendering' = FALSE
    /\ UNCHANGED <<box, default, state, applied, page, indent, mode, pushed,
                   cleared, cut, commands>>

Done ==
    /\ Command
    /\ ~rendering
    /\ page' = Flush(page)
    /\ Cut
    /\ UNCHANGED <<box, default, state, applied, indent, mode, rendering,
                   pushed, cleared>>

\* clear, after setRenderSize stored its arguments: the group in m_buffer
\* and m_mode stay.
ClearWith(width) ==
    /\ Command
    /\ ~rendering
    /\ box' = width
    /\ state' = [pitch |-> default.pitch]
    /\ applied' = Extent(default.size)
    /\ page' = [NewPage EXCEPT !.buffer = page.buffer]
    /\ indent' = 0
    /\ cut' = {}
    /\ cleared' = [upTo |-> pushed, kept |-> Len(page.buffer)]
    /\ UNCHANGED <<default, mode, rendering, pushed>>

Clear == ClearWith(box)

SetRenderSize(width) == ClearWith(width)

SetDefault(d) ==
    /\ Command
    /\ ~rendering
    /\ default' = d
    /\ UNCHANGED <<box, state, applied, page, indent, mode, rendering, pushed,
                   cleared, cut>>

\* Another user of the rasterizer applies its font.
OtherFont(size) ==
    /\ Command
    /\ ~rendering
    /\ applied' = size
    /\ UNCHANGED <<box, default, state, page, indent, mode, rendering, pushed,
                   cleared, cut>>

Next ==
    \/ Render \/ RenderEnd \/ Newline \/ SetIndent
    \/ ResetFont \/ Done \/ Clear
    \/ \E kind \in Kinds : PushCharacter(kind)
    \/ \E pitch \in Pitches : SetPitch(pitch)
    \/ \E percent \in Percents : SetSize(percent)
    \/ \E width \in BoxWidths : SetRenderSize(width)
    \/ \E d \in Defaults : SetDefault(d)
    \/ \E size \in OtherSizes : OtherFont(size)

Spec == Init /\ [][Next]_vars
-----------------------------------------------------------------------------
Character == [id : 1..MaxPushed, kind : Kinds, cw : Nat, x : Int, y : Nat,
              advance : Int]

\* Type correctness of the state of TextRenderBase.
TypeOK ==
    /\ box \in BoxWidths \cup {0}
    /\ default \in Defaults \cup {BuiltIn}
    /\ state.pitch \in Int
    /\ applied \in Nat
    /\ page.x \in Int /\ page.y \in Nat /\ indent \in Int
    /\ \A part \in {page.characters, page.buffer} :
          \A i \in DOMAIN part : part[i] \in Character
    /\ mode \in Kinds
    /\ rendering \in BOOLEAN
    /\ pushed \in 0..MaxPushed
    /\ cleared \in [upTo : 0..MaxPushed, kept : Nat]
    /\ cut \subseteq 0..MaxPushed
    /\ commands \in 0..MaxCommands

placed == page.characters

Ids(characters) == [i \in DOMAIN characters |-> characters[i].id]

\* Whatever mix of render, done, clear, setRenderSize, %r and exceptions:
\* every character pushed since the last clear(), and before these the ones that
\* it left in m_buffer, is in m_characters or m_buffer, once and in the order of
\* the text; the group that waits is leading characters and at most one other;
\* and renderText tells the last of the characters getCharacters returns.
InOrder ==
    LET all == Ids(placed) \o Ids(page.buffer)
    IN  /\ Len(all) = cleared.kept + pushed - cleared.upTo
        /\ \A i \in DOMAIN all : all[i] = pushed - Len(all) + i
        /\ \A i \in 1..(Len(page.buffer) - 1) : page.buffer[i].kind = Leading
        /\ Len(page.text) <= Len(placed)
        /\ \A i \in DOMAIN page.text :
              page.text[i] = Ids(placed)[Len(placed) - Len(page.text) + i]

\* What the message of clear() says, "clear character buffer and format", where
\* the character buffer is what the message of done() says is flushed: nothing
\* that was pushed before a clear() is laid out after it.
ClearedIsGone == \A i \in DOMAIN placed : placed[i].id > cleared.upTo

OnSameLine(i, j) == placed[i].y = placed[j].y

\* The characters of a line stand one after the other without gap or
\* overlap, and end inside the box, except one that is alone too wide.
InsideBox ==
    \A i \in DOMAIN placed :
        LET c == placed[i]
        IN  IF i > 1 /\ OnSameLine(i - 1, i)
            THEN /\ c.x = placed[i - 1].x + placed[i - 1].advance
                 /\ c.x + c.advance <= box
            ELSE \/ c.x + c.advance <= box
                 \/ i = Len(placed)
                 \/ ~OnSameLine(i, i + 1)

\* No line ends with a leading character, also when its group was pushed by
\* two calls of render() or its widths changed: only the text breaks the line
\* there, or the group alone is wider than the line, or done() was called after
\* that character and so has ended its group.
LeadingKept ==
    \A i \in 1..(Len(placed) - 1) :
        /\ placed[i].kind = Leading
        /\ ~OnSameLine(i, i + 1) /\ placed[i].id \notin cut
        => \A j \in 1..i : OnSameLine(j, i) => placed[j].kind = Leading

\* The width from each character to the end of its group.
Widths(characters, breaks) ==
    LET width[i \in DOMAIN characters] ==
          characters[i].advance
            + IF \/ characters[i].kind # Leading
                 \/ characters[i].id \in breaks \/ i = Len(characters)
              THEN 0 ELSE width[i + 1]
    IN  width

\* A line is only broken where the text says so or where the next group
\* would not have fitted; nothing is said of the places where done() was called.
LinesAreFilled ==
    \A i \in 1..(Len(placed) - 1) :
        ~OnSameLine(i, i + 1) /\ placed[i].id \notin cut
        => placed[i].x + placed[i].advance + Widths(placed, cut)[i + 1] > box
=============================================================================
