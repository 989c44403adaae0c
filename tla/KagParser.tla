------------------------------ MODULE KagParser ------------------------------
(***************************************************************************)
(* The KAG scenario parser (plugins/KAGParserEx): tTJSNI_KAGParser.        *)
(*                                                                         *)
(* The script asks for one tag after another (getNextTag).  The parser     *)
(* reads the scenario line by line and handles the tags of control itself: *)
(* conditions, macros, jumps, calls and returns.  On its way it calls the  *)
(* script back (onLabel, onScript), which may then move the parser, store  *)
(* its state, restore it or interrupt it.                                  *)
(* It also asks the script before a jump, a call and a return, and tells   *)
(* it after a return.  Assumed is that the handlers asked before do not    *)
(* move the parser themselves, that handlers return without an exception,  *)
(* and that neither expressions nor the callbacks of the loading of a      *)
(* scenario call the parser.                                               *)
(*                                                                         *)
(* A line is a record [kind, name, tags]; a tag, which may also be one     *)
(* character, is a record [tag, name, storage, target, cond, more]: its    *)
(* name, the macro, storage and label it names, whether it has a "cond"    *)
(* attribute, and over how many further lines it is written.  Positions    *)
(* count tags instead of characters.  What the expressions of a scenario   *)
(* yield is any value.                                                     *)
(***************************************************************************)
EXTENDS Integers, Sequences, FiniteSets

CONSTANTS
  Plans,            \* what there is to read: a function from names to records
                    \* [scenario, moves] of a function from storages to sequences
                    \* of lines, and (a bound) of how often the script moves
  Main,             \* the storage loaded at first
  EmbTexts,         \* what the expression of an [emb] may yield
  IgnoreCR,         \* the property ignoreCR
  StoreWhenHidden   \* whether the script stores the state inside of skipped text

NoName == ""    \* a storage, macro or tag that is not named

\* The name of a label, with the counts behind it when it is used again.
LabelNames == Seq(STRING \cup Nat)
TagSet  == [tag : STRING, name : STRING, storage : STRING, target : LabelNames, cond : BOOLEAN, more : Nat]
LineSet == [kind : {"text", "command", "label", "comment", "iscript", "endscript"},
            name : LabelNames, tags : Seq(TagSet)]

ASSUME KagAssumption ==
  /\ IgnoreCR \in BOOLEAN /\ StoreWhenHidden \in BOOLEAN
  /\ \A p \in DOMAIN Plans :
        /\ Plans[p].moves \in Nat
        /\ Main \in DOMAIN Plans[p].scenario /\ NoName \notin DOMAIN Plans[p].scenario
        /\ \A s \in DOMAIN Plans[p].scenario : Plans[p].scenario[s] \in Seq(LineSet)
  \* the name of a label begins with "*"
  /\ \A p \in DOMAIN Plans : \A s \in DOMAIN Plans[p].scenario : \A i \in DOMAIN Plans[p].scenario[s] :
        Plans[p].scenario[s][i].kind = "label" => Plans[p].scenario[s][i].name # <<>>
  \* what an [emb] yields is one piece of text
  /\ EmbTexts \subseteq Seq({t \in TagSet : t.more = 0})

ASSUME NamesAreStrings == {NoName, "slash", "r", "macropop"} \subseteq STRING

VARIABLES
  plan,         \* the scenarios there are: an element of DOMAIN Plans
  at,           \* StorageName, CurLine, CurPos, LineBuffer, LineBufferUsing
  label,        \* CurLabel
  cond,         \* ExcludeLevel, IfLevel, ExcludeLevelStack, IfLevelExecutedStack
  rec,          \* RecordingMacro, RecordingMacroName, RecordingMacroStr
  macros,       \* Macros: a function from names to sequences of tags
  args,         \* MacroArgs, MacroArgStackDepth, MacroArgStackBase
  calls,        \* CallStack
  interrupted,  \* Interrupted
  cached,       \* LabelCached of the scenario, as the loop over lines finds it
  ctl,          \* where the thread is in GetNextTag, or in the script
  ret,          \* what GetNextTag returned last
  saved,        \* what store() returned: at most one dictionary
  moves         \* how often the script may still call a method but getNextTag

vars == <<plan, at, label, cond, rec, macros, args, calls, interrupted, cached, ctl, ret, saved, moves>>

NoLabel == <<>>        \* the empty string
Omitted == <<"*|">>    \* a label line without a name, "*|page"
Bare    == <<"*">>     \* a line of one "*" only

Nowhere == [storage |-> NoName, line |-> 0, pos |-> 0, buffer |-> <<>>, using |-> FALSE]
Start(s) == [Nowhere EXCEPT !.storage = s]
NoCond  == [exclude |-> -1, level |-> 0, stack |-> <<>>, executed |-> <<>>]
NoRec   == [on |-> FALSE, name |-> NoName, str |-> <<>>]
NoLine  == [kind |-> "text", name |-> NoLabel, tags |-> <<>>]

TagOf(n)  == [tag |-> n, name |-> NoName, storage |-> NoName, target |-> NoLabel, cond |-> FALSE, more |-> 0]
Backslash == TagOf("slash")     \* at the end of a line: no [r] for its end
MacroPop  == TagOf("macropop")

program == Plans[plan].scenario

Loaded == at.storage # NoName
Lines  == IF Loaded THEN program[at.storage] ELSE <<>>
Shown  == cond.exclude = -1

Last1(s)  == s[Len(s)]
Front1(s) == SubSeq(s, 1, Len(s) - 1)
Put(f, k, v) == [x \in DOMAIN f \cup {k} |-> IF x = k THEN v ELSE f[x]]

-----------------------------------------------------------------------------
(* Labels. *)

Alias(name, count) == Append(name, count)

\* The next line, the i-th from 0: a name that is omitted is the previous one;
\* one used before gets a count as its suffix.
CacheLine(c, l, i) ==
  IF l.kind # "label" \/ l.name = Bare
  THEN [c EXCEPT !.aliases = Append(@, NoLabel)]
  ELSE LET name  == IF l.name = Omitted THEN c.prev ELSE l.name
           again == name \in DOMAIN c.cache
           count == IF again THEN c.cache[name].count + 1 ELSE 1
           alias == IF again THEN Alias(name, count) ELSE name
           seen  == IF again THEN [c.cache EXCEPT ![name].count = count] ELSE c.cache
       IN [prev |-> name,
           cache |-> Put(seen, alias, [line |-> i, count |-> 1]),
           aliases |-> Append(c.aliases, alias)]

\* EnsureLabelCache: LabelCache, and LabelAliases by line.
EnsureLabelCache(lines) ==
  LET Cache[i \in 0 .. Len(lines)] ==
        IF i = 0 THEN [prev |-> NoLabel, cache |-> <<>>, aliases |-> <<>>]
        ELSE CacheLine(Cache[i - 1], lines[i], i - 1)
  IN Cache[Len(lines)]

Tables == [p \in DOMAIN Plans |-> [s \in DOMAIN Plans[p].scenario |-> EnsureLabelCache(Plans[p].scenario[s])]]
Labels(s) == Tables[plan][s]

\* FindNearestLabel: the line of the nearest label before a line, or -1.  It
\* counts a line of one "*", which has no alias.
NearestLabel(s, line) ==
  LET before == {i \in 0 .. line - 1 : program[s][i + 1].kind = "label"}
  IN IF before = {} THEN -1 ELSE CHOOSE i \in before : \A j \in before : j <= i

\* GoToStorageAndLabel from a place: where it leads, whether it throws, and
\* whether BreakConditionAndMacro ran before.
GoTo(from, storage, target) ==
  LET a == IF storage = NoName THEN from
           ELSE IF storage \in DOMAIN program THEN Start(storage) ELSE Nowhere
  IN IF storage # NoName /\ a = Nowhere
     THEN [at |-> a, label |-> label, throws |-> TRUE, breaks |-> TRUE]
     ELSE IF target = NoLabel
     THEN [at |-> a, label |-> label, throws |-> FALSE, breaks |-> storage # NoName]
     ELSE IF target \in DOMAIN Labels(a.storage).cache
     THEN LET line == Labels(a.storage).cache[target].line
          IN [at |-> [Start(a.storage) EXCEPT !.line = line],
              label |-> Labels(a.storage).aliases[line + 1], throws |-> FALSE, breaks |-> TRUE]
     ELSE [at |-> a, label |-> label, throws |-> TRUE, breaks |-> storage # NoName]

\* BreakConditionAndMacro, if it runs: the conditions, the recording and the
\* arguments of macros above the base end.
CondAfter(g) == IF g.breaks THEN NoCond ELSE cond
RecAfter(g)  == IF g.breaks THEN NoRec ELSE rec
DepthAfter(g, depth, base) == IF g.breaks THEN base ELSE depth

-----------------------------------------------------------------------------
(* The call stack. *)

\* PushCallStack, with the parser at a.  site: history, the place of the call.
PushCallStack(a) ==
  LET nearest == NearestLabel(a.storage, a.line)
      lines   == program[a.storage]
  IN Append(calls,
       [storage |-> a.storage,
        label   |-> IF nearest < 0 THEN NoLabel ELSE Labels(a.storage).aliases[nearest + 1],
        offset  |-> a.line - (IF nearest < 0 THEN 0 ELSE nearest),
        org     |-> IF a.line < Len(lines) THEN lines[a.line + 1] ELSE NoLine,
        buffer  |-> a.buffer, pos |-> a.pos, using |-> a.using,
        base    |-> args.base, depth |-> args.depth, cond |-> cond, site |-> a])

\* Mutant: the place is sought from the label's line.
ReturnPlaceAtLabel(f, g) ==
  IF g.throws THEN g
  ELSE [g EXCEPT !.at = [storage |-> f.storage, line |-> g.at.line, pos |-> f.pos,
                         buffer |-> f.buffer, using |-> f.using]]

\* PopCallStack without a place to return to: g is where the frame's label is,
\* and the frame f tells how far behind it the caller was.
ReturnPlace(f, g) ==
  LET line  == g.at.line + f.offset
      lines == program[f.storage]
      lost  == line > Len(lines) \/ (line < Len(lines) /\ lines[line + 1] # f.org)
  IN IF g.throws THEN g
     ELSE [g EXCEPT !.at = IF lost THEN [g.at EXCEPT !.line = line]
                           ELSE [storage |-> f.storage, line |-> line, pos |-> f.pos,
                                 buffer |-> f.buffer, using |-> f.using],
                    !.throws = lost]

-----------------------------------------------------------------------------
(* Reading. *)

AtLineStart == ~at.using /\ at.pos = 0
Text        == IF at.using THEN at.buffer ELSE Lines[at.line + 1].tags
Current     == Text[at.pos + 1]
Command     == AtLineStart /\ Lines[at.line + 1].kind = "command"
\* Mutant: the line counter stays.
SameLine == [Start(at.storage) EXCEPT !.line = at.line]
NextLine == [Start(at.storage) EXCEPT !.line = at.line + 1]

\* TVP_KAG_STEP_NEXT: behind the current tag.  Behind a tag of several lines,
\* or a line command, the rest of the line is left out.
StepNext ==
  IF Current.more > 0 THEN [NextLine EXCEPT !.line = @ + Current.more]
  ELSE IF Command THEN NextLine
  ELSE [at EXCEPT !.pos = @ + 1]

\* The text of the current line is being read: the head of the loop is behind.
\* While the script is asked about a tag, that tag is the current one.
Reading ==
  \/ ctl \in {"tag", "asked"}
  \/ ctl = "parse" /\ ~interrupted /\ at.line < Len(Lines) /\ ~AtLineStart

AtEnd == at.pos = Len(Text)
EndsSilently ==     \* a line that ends with a backslash or with [p]
  \/ ~AtEnd /\ Current.tag = "slash" /\ at.pos = Len(Text) - 1
  \/ AtEnd /\ at.pos > 0 /\ Text[at.pos].tag = "p"

Recorded(t) == IF rec.on THEN [rec EXCEPT !.str = Append(@, [t EXCEPT !.more = 0])] ELSE rec

-----------------------------------------------------------------------------
(* GetNextTag up to the text. *)

GetNextTag ==
  /\ ctl = "script"
  /\ ctl' = "start" /\ ret' = "none"
  /\ UNCHANGED <<plan, cached, at, label, cond, rec, macros, args, calls, interrupted, saved, moves>>

Returns(r) == ctl' = "script" /\ ret' = r
Parses     == ctl' = "parse" /\ UNCHANGED ret
Throws     == ctl' = "thrown" /\ UNCHANGED ret

ParseStart ==
  /\ ctl = "start"
  /\ IF at.line >= Len(Lines) THEN Returns("end") ELSE Parses
  /\ UNCHANGED <<plan, cached, at, label, cond, rec, macros, args, calls, interrupted, saved, moves>>

ReturnInterrupt ==
  /\ ctl = "parse" /\ interrupted
  /\ interrupted' = FALSE
  /\ Returns("interrupt")
  /\ UNCHANGED <<plan, cached, at, label, cond, rec, macros, args, calls, saved, moves>>

EndOfScenario ==
  /\ \/ ctl = "parse" /\ ~interrupted
     \/ ctl = "skip"
  /\ at.line >= Len(Lines)
  /\ Returns("end")
  /\ UNCHANGED <<plan, cached, at, label, cond, rec, macros, args, calls, interrupted, saved, moves>>

\* SkipCommentOrLabel begins with EnsureLabelCache.
Skip ==
  /\ ctl = "parse" /\ ~interrupted /\ at.line < Len(Lines) /\ AtLineStart
  /\ ctl' = "skip" /\ cached' = TRUE
  /\ UNCHANGED <<plan, at, label, cond, rec, macros, args, calls, interrupted, ret, saved, moves>>

Skipping(kind) == ctl = "skip" /\ at.line < Len(Lines) /\ Lines[at.line + 1].kind = kind

SkipComment ==
  /\ Skipping("comment")
  /\ at' = NextLine
  /\ UNCHANGED <<plan, cached, label, cond, rec, macros, args, calls, interrupted, ctl, ret, saved, moves>>

\* A label: the script's onLabel runs.  In a scenario that onLabel or onScript
\* loaded inside of the loop the table of names may be empty: what is read of it
\* is no address, or (where the first page of the memory is) an empty name.
SkipLabel ==
  /\ Skipping("label")
  /\ IF rec.on THEN Throws /\ UNCHANGED label
     ELSE /\ ctl' \in (IF cached THEN {"callback"} ELSE {"callback", "crashed"})
          /\ label' = (IF cached THEN Labels(at.storage).aliases[at.line + 1] ELSE NoLabel)
          /\ UNCHANGED ret
  /\ UNCHANGED <<plan, cached, at, cond, rec, macros, args, calls, interrupted, saved, moves>>

\* [iscript] .. [endscript]: the script inside runs, unless it is left out.
SkipScript ==
  /\ Skipping("iscript")
  /\ LET ends == {i \in at.line + 1 .. Len(Lines) - 1 : Lines[i + 1].kind = "endscript"}
         last == IF ends = {} THEN Len(Lines) ELSE CHOOSE i \in ends : \A j \in ends : i <= j
     IN IF rec.on THEN Throws /\ UNCHANGED at
        ELSE /\ at' = [at EXCEPT !.line = IF ends # {} /\ ~Shown THEN last + 1 ELSE last]
             /\ ctl' = IF ends = {} THEN "thrown" ELSE IF Shown THEN "callback" ELSE "skip"
             /\ UNCHANGED ret
  /\ UNCHANGED <<plan, cached, label, cond, rec, macros, args, calls, interrupted, saved, moves>>

\* onLabel or onScript returns: the loop goes on with the line behind the one
\* the parser is at now, wherever the script moved it.
CallbackReturns ==
  /\ ctl = "callback"
  /\ ctl' = "skip"
  /\ at' = IF Loaded THEN NextLine ELSE at
  /\ UNCHANGED <<plan, cached, label, cond, rec, macros, args, calls, interrupted, ret, saved, moves>>

\* onAfterReturn returns, and the parsing starts again.
AfterReturn ==
  /\ ctl = "returned"
  /\ ctl' = "start"
  /\ UNCHANGED <<plan, cached, at, label, cond, rec, macros, args, calls, interrupted, ret, saved, moves>>

SkipDone ==
  /\ Skipping("text") \/ Skipping("command") \/ Skipping("endscript")
  /\ ctl' = "tag"
  /\ UNCHANGED <<plan, cached, at, label, cond, rec, macros, args, calls, interrupted, ret, saved, moves>>

-----------------------------------------------------------------------------
(* Characters and ends of lines. *)

LineEndsSilently ==
  /\ Reading
  /\ IF IgnoreCR THEN AtEnd ELSE EndsSilently
  /\ at' = NextLine
  /\ Parses
  /\ UNCHANGED <<plan, cached, label, cond, rec, macros, args, calls, interrupted, saved, moves>>

\* The end of a line is an [r].
LineEnds ==
  /\ Reading /\ AtEnd /\ ~IgnoreCR /\ ~EndsSilently
  /\ at' = NextLine
  /\ rec' = Recorded(TagOf("r"))
  /\ IF ~rec.on /\ Shown THEN Returns("r") ELSE Parses
  /\ UNCHANGED <<plan, cached, label, cond, macros, args, calls, interrupted, saved, moves>>

Character ==
  /\ Reading /\ ~AtEnd
  /\ Current.tag \in {"ch", "slash"} /\ (IgnoreCR \/ ~EndsSilently)
  /\ at' = [at EXCEPT !.pos = @ + 1]
  /\ rec' = Recorded(Current)
  /\ IF ~rec.on /\ Shown THEN Returns("tag") ELSE Parses
  /\ UNCHANGED <<plan, cached, label, cond, macros, args, calls, interrupted, saved, moves>>

-----------------------------------------------------------------------------
(* Tags.  c is the value of the tag's "cond", TRUE when it is not looked at: *)
(* that is the case in skipped text and in a recording, but for [elsif].    *)

Conditional == {"if", "ignore", "elsif", "else", "endif", "endignore"}
Special     == Conditional \cup {"emb", "macro", "endmacro", "macropop", "erasemacro",
                                 "jump", "call", "return"}

Tag(c) ==
  /\ Reading /\ ctl # "asked" /\ ~AtEnd
  /\ Current.tag \notin {"ch", "slash"}
  /\ c = FALSE => Current.cond /\ ((~rec.on /\ Shown) \/ Current.tag = "elsif")

Live(c)       == c /\ Shown
IsRecorded(c) == rec.on /\ Live(c) /\ Current.tag # "endmacro"
IsMacro       == Current.tag \in DOMAIN macros

\* A [macro] forgets the name of the one being recorded.
NameAfter == IF Current.tag = "macro" THEN NoName ELSE rec.name

RecordTag(c) ==
  /\ Tag(c) /\ IsRecorded(c)
  /\ rec' = [Recorded(Current) EXCEPT !.name = NameAfter]
  /\ at' = StepNext
  /\ Parses
  /\ UNCHANGED <<plan, cached, label, cond, macros, args, calls, interrupted, saved, moves>>

\* A tag of the script's own.
ReturnTag(c) ==
  /\ Tag(c) /\ ~IsRecorded(c) /\ Live(c)
  /\ Current.tag \notin Special /\ ~IsMacro
  /\ at' = StepNext
  /\ Returns("tag")
  /\ UNCHANGED <<plan, cached, label, cond, rec, macros, args, calls, interrupted, saved, moves>>

\* A tag in skipped text, or one whose "cond" is false.
SkipTag(c) ==
  /\ Tag(c) /\ ~Live(c)
  /\ Current.tag \notin Conditional
  /\ at' = StepNext
  /\ rec' = [rec EXCEPT !.name = NameAfter]
  /\ Parses
  /\ UNCHANGED <<plan, cached, label, cond, macros, args, calls, interrupted, saved, moves>>

Handle(c, tags) == Tag(c) /\ ~IsRecorded(c) /\ Current.tag \in tags

\* The conditions after an [if] with an expression that yields b, if it is looked
\* at, an [elsif] (an [else] is one with TRUE), an [endif].
AfterIf(cd, b) ==
  [exclude  |-> IF cd.exclude = -1 /\ ~b THEN cd.level + 1 ELSE cd.exclude,
   level    |-> cd.level + 1,
   stack    |-> Append(cd.stack, cd.exclude),
   executed |-> Append(cd.executed, cd.exclude = -1 /\ b)]

\* Mutant: [else] does not ask whether a branch was chosen before.
AfterElsifAgain(cd, b) ==
  IF cd.executed # <<>> /\ cd.level = cd.exclude /\ b
  THEN [cd EXCEPT !.exclude = -1, !.executed[Len(cd.executed)] = TRUE]
  ELSE IF cd.executed # <<>> /\ Last1(cd.executed) THEN [cd EXCEPT !.exclude = cd.level] ELSE cd

AfterElsif(cd, b) ==
  IF cd.executed = <<>> THEN cd
  ELSE IF Last1(cd.executed) THEN [cd EXCEPT !.exclude = cd.level]
  ELSE IF cd.level = cd.exclude /\ b
  THEN [cd EXCEPT !.exclude = -1, !.executed[Len(cd.executed)] = TRUE]
  ELSE cd

\* Mutant: IfLevel is not kept from falling below zero.
AfterEndifBelow(cd) ==
  [exclude  |-> IF cd.stack # <<>> THEN Last1(cd.stack) ELSE cd.exclude,
   level    |-> cd.level - 1,
   stack    |-> IF cd.stack # <<>> THEN Front1(cd.stack) ELSE <<>>,
   executed |-> IF cd.executed # <<>> THEN Front1(cd.executed) ELSE <<>>]

AfterEndif(cd) ==
  [exclude  |-> IF cd.stack # <<>> THEN Last1(cd.stack) ELSE cd.exclude,
   level    |-> IF cd.level > 0 THEN cd.level - 1 ELSE 0,
   stack    |-> IF cd.stack # <<>> THEN Front1(cd.stack) ELSE <<>>,
   executed |-> IF cd.executed # <<>> THEN Front1(cd.executed) ELSE <<>>]

\* [if], [ignore]: the expression is looked at only in text that is not skipped.
If(c, b) ==
  /\ Handle(c, {"if", "ignore"})
  /\ cond' = AfterIf(cond, b)
  /\ at' = StepNext
  /\ Parses
  /\ UNCHANGED <<plan, cached, label, rec, macros, args, calls, interrupted, saved, moves>>

\* [elsif] with an expression that yields b, or [else].
Elsif(c, b) ==
  /\ Handle(c, {"elsif", "else"})
  /\ Current.tag = "else" => b
  /\ cond' = AfterElsif(cond, b)
  /\ at' = StepNext
  /\ Parses
  /\ UNCHANGED <<plan, cached, label, rec, macros, args, calls, interrupted, saved, moves>>

Endif(c) ==
  /\ Handle(c, {"endif", "endignore"})
  /\ cond' = AfterEndif(cond)
  /\ at' = StepNext
  /\ Parses
  /\ UNCHANGED <<plan, cached, label, rec, macros, args, calls, interrupted, saved, moves>>

\* The tag is not well written, or the expression of one of its attributes
\* throws: of an entity, or of a "cond".
TagThrows ==
  /\ Tag(TRUE)
  /\ rec' = [rec EXCEPT !.name = NameAfter]
  /\ Throws
  /\ UNCHANGED <<plan, cached, at, label, cond, macros, args, calls, interrupted, saved, moves>>

\* The expression of an [if], [elsif] or [emb] throws.  An [if] has pushed.
ExpressionThrows(c) ==
  /\ Handle(c, {"if", "ignore", "elsif", "emb"})
  /\ IF Current.tag = "elsif"
     THEN cond.executed # <<>> /\ ~Last1(cond.executed) /\ cond.level = cond.exclude
     ELSE Shown /\ (Current.tag = "emb" => c /\ ~IsMacro)
  /\ cond' = IF Current.tag \in {"if", "ignore"}
             THEN [AfterIf(cond, TRUE) EXCEPT !.executed = Append(cond.executed, FALSE)] ELSE cond
  /\ Throws
  /\ UNCHANGED <<plan, cached, at, label, rec, macros, args, calls, interrupted, saved, moves>>

\* PushMacroArgs: the vector keeps what was popped, and reuses it.
\* Mutant: the depth only grows with the vector.
PushMacroArgsGrowing(value) ==
  IF Len(args.list) > args.depth THEN [args EXCEPT !.list[args.depth + 1] = value]
  ELSE [args EXCEPT !.list = Append(@, value), !.depth = @ + 1]

\* Mutant: the vector does not grow.
PushMacroArgsInPlace(value) ==
  [args EXCEPT !.list = [@ EXCEPT ![args.depth + 1] = value], !.depth = @ + 1]

PushMacroArgs(value) ==
  [args EXCEPT !.list = IF Len(@) > args.depth THEN [@ EXCEPT ![args.depth + 1] = value]
                        ELSE Append(@, value),
               !.depth = @ + 1]

\* A macro or [emb]: its text takes the tag's place in the line.
Expand(c, text) ==
  /\ Tag(c) /\ ~IsRecorded(c) /\ Live(c)
  /\ Current.tag = "emb" \/ (Current.tag \notin Special /\ IsMacro)
  /\ IF IsMacro THEN text = macros[Current.tag] ELSE text \in EmbTexts
  /\ at' = [at EXCEPT
              !.buffer = SubSeq(Text, 1, at.pos) \o text \o SubSeq(Text, at.pos + 2, Len(Text))
                           \o (IF Command /\ ~IgnoreCR THEN <<Backslash>> ELSE <<>>),
              !.using = TRUE]
  /\ args' = IF IsMacro THEN PushMacroArgs(Current.tag) ELSE args
  /\ Parses
  /\ UNCHANGED <<plan, cached, label, cond, rec, macros, calls, interrupted, saved, moves>>

\* [macro]: the recording begins, unless the macro has no name.
Macro(c) ==
  /\ Handle(c, {"macro"}) /\ Live(c)
  /\ IF Current.name = NoName
     THEN rec' = [rec EXCEPT !.name = NoName] /\ Throws /\ UNCHANGED at
     ELSE /\ rec' = [on |-> TRUE, name |-> Current.name, str |-> <<>>]
          /\ at' = StepNext
          /\ Parses
  /\ UNCHANGED <<plan, cached, label, cond, macros, args, calls, interrupted, saved, moves>>

\* [endmacro]: the macro ends with a [macropop], to drop its arguments.
EndMacro(c) ==
  /\ Handle(c, {"endmacro"}) /\ Live(c)
  /\ IF rec.on
     THEN /\ macros' = Put(macros, rec.name, Append(rec.str, MacroPop))
          /\ rec' = NoRec
          /\ at' = StepNext
          /\ Parses
     ELSE Throws /\ UNCHANGED <<macros, rec, at>>
  /\ UNCHANGED <<plan, cached, label, cond, args, calls, interrupted, saved, moves>>

PopMacroArgs(c) ==
  /\ Handle(c, {"macropop"}) /\ Live(c)
  /\ IF args.depth = 0 THEN Throws /\ UNCHANGED <<args, at>>
     ELSE args' = [args EXCEPT !.depth = @ - 1] /\ at' = StepNext /\ Parses
  /\ UNCHANGED <<plan, cached, label, cond, rec, macros, calls, interrupted, saved, moves>>

EraseMacro(c) ==
  /\ Handle(c, {"erasemacro"}) /\ Live(c)
  /\ IF Current.name \in DOMAIN macros
     THEN /\ macros' = [m \in DOMAIN macros \ {Current.name} |-> macros[m]]
          /\ at' = StepNext /\ Parses
     ELSE Throws /\ UNCHANGED <<macros, at>>
  /\ UNCHANGED <<plan, cached, label, cond, rec, args, calls, interrupted, saved, moves>>

\* [jump], [call], [return]: the script's handler (onJump, onCall, onReturn) is
\* asked.  It may store the state, interrupt the parser or clear the call stack;
\* that it does not move the parser itself is assumed.
Ask(c) ==
  /\ Handle(c, {"jump", "call", "return"}) /\ Live(c)
  /\ ctl' = "asked"
  /\ UNCHANGED <<plan, cached, at, label, cond, rec, macros, args, calls, interrupted, ret, saved, moves>>

Asked(tags) == ctl = "asked" /\ ~AtEnd /\ Current.tag \in tags

\* Where the parsing goes on after a jump, a call or a return that has not thrown.
Arrives(throws, next) == ctl' = (IF throws THEN "thrown" ELSE next) /\ UNCHANGED ret

\* The handler takes it upon itself.
Declined ==
  /\ Asked({"jump", "call", "return"})
  /\ at' = StepNext
  /\ Parses
  /\ UNCHANGED <<plan, cached, label, cond, rec, macros, args, calls, interrupted, saved, moves>>

Jump ==
  /\ Asked({"jump"})
  /\ \E g \in {GoTo(at, Current.storage, Current.target)} :
        /\ at' = g.at /\ label' = g.label
        /\ cond' = CondAfter(g) /\ rec' = RecAfter(g)
        /\ args' = [args EXCEPT !.depth = DepthAfter(g, @, args.base)]
        /\ Arrives(g.throws, "start")
  /\ UNCHANGED <<plan, cached, macros, calls, interrupted, saved, moves>>

\* [call]: the position behind the tag is pushed.
Call ==
  /\ Asked({"call"})
  /\ \E next \in {StepNext} : \E g \in {GoTo(next, Current.storage, Current.target)} :
        /\ calls' = PushCallStack(next)
        /\ at' = g.at /\ label' = g.label
        /\ cond' = CondAfter(g) /\ rec' = RecAfter(g)
        /\ args' = [args EXCEPT !.base = args.depth]
        /\ Arrives(g.throws, "start")
  /\ UNCHANGED <<plan, cached, macros, interrupted, saved, moves>>

\* [return] to a place.  If it is not found, the frame stays on the stack.
\* Otherwise the script's onAfterReturn runs.
ReturnTo ==
  /\ Asked({"return"})
  /\ calls # <<>> /\ (Current.storage # NoName \/ Current.target # NoLabel)
  /\ \E g \in {GoTo(at, Current.storage, Current.target)}, f \in {Last1(calls)} :
        /\ at' = g.at /\ label' = g.label
        /\ cond' = CondAfter(g) /\ rec' = RecAfter(g)
        /\ args' = [args EXCEPT !.depth = f.depth, !.base = IF g.throws THEN f.depth ELSE f.base]
        /\ calls' = IF g.throws THEN calls ELSE Front1(calls)
        /\ Arrives(g.throws, "returned")
  /\ UNCHANGED <<plan, cached, macros, interrupted, saved, moves>>

\* [return] to the caller.
ReturnBack ==
  /\ Asked({"return"})
  /\ calls # <<>> /\ Current.storage = NoName /\ Current.target = NoLabel
  /\ \E f \in {Last1(calls)} : \E p \in {ReturnPlace(f, GoTo(at, f.storage, f.label))} :
        /\ at' = p.at /\ label' = p.label
        /\ cond' = (IF p.throws THEN NoCond ELSE f.cond) /\ rec' = NoRec
        /\ args' = [args EXCEPT !.depth = f.depth, !.base = IF p.throws THEN f.depth ELSE f.base]
        /\ calls' = IF p.throws THEN calls ELSE Front1(calls)
        /\ Arrives(p.throws, "returned")
  /\ UNCHANGED <<plan, cached, macros, interrupted, saved, moves>>

ReturnUnderflow ==
  /\ Asked({"return"}) /\ calls = <<>>
  /\ Throws
  /\ UNCHANGED <<plan, cached, at, label, cond, rec, macros, args, calls, interrupted, saved, moves>>

GetNextTagStep ==
  \/ ParseStart \/ ReturnInterrupt \/ EndOfScenario
  \/ Skip \/ SkipComment \/ SkipLabel \/ SkipScript \/ SkipDone
  \/ LineEndsSilently \/ LineEnds \/ Character
  \/ \E c \in BOOLEAN :
       \/ RecordTag(c) \/ ReturnTag(c) \/ SkipTag(c)
       \/ \E b \in BOOLEAN : If(c, b) \/ Elsif(c, b)
       \/ Endif(c) \/ ExpressionThrows(c)
       \/ \E text \in EmbTexts \cup {macros[m] : m \in DOMAIN macros} : Expand(c, text)
       \/ Macro(c) \/ EndMacro(c) \/ PopMacroArgs(c) \/ EraseMacro(c)
       \/ Ask(c)
  \/ TagThrows
  \/ Declined \/ Jump \/ Call \/ ReturnTo \/ ReturnBack \/ ReturnUnderflow

-----------------------------------------------------------------------------
(* store() and restore(): the stacks of conditions become strings, eight    *)
(* hexadecimal digits for an element of ExcludeLevelStack.                  *)

Weight == <<268435456, 16777216, 1048576, 65536, 4096, 256, 16, 1>>
Digit(v, w) == IF v < 0 THEN 15 - (((-1 - v) \div w) % 16) ELSE (v \div w) % 16
StoreIntStackToDic(stack) ==
  [k \in 1 .. 8 * Len(stack) |-> Digit(stack[(k - 1) \div 8 + 1], Weight[((k - 1) % 8) + 1])]

\* The eight digits from the i-th one, as a signed number of 32 bits.
Hex(str, i) ==
  (IF str[i] >= 8 THEN str[i] - 16 ELSE str[i]) * Weight[1]
    + str[i + 1] * Weight[2] + str[i + 2] * Weight[3] + str[i + 3] * Weight[4]
    + str[i + 4] * Weight[5] + str[i + 5] * Weight[6] + str[i + 6] * Weight[7] + str[i + 7]

\* The code takes the digits of element i from the i-th on, not the 8 i-th.
RestoreIntStackFromStr(str) == [i \in 1 .. Len(str) \div 8 |-> Hex(str, i)]

Restored(c) == [c EXCEPT !.stack = RestoreIntStackFromStr(StoreIntStackToDic(@))]

\* Only text that is shown is being read, here and by all callers.
AllShown == Shown /\ \A i \in DOMAIN calls : calls[i].cond.exclude = -1

\* The script calls a method of the parser.
Moves(where) == ctl \in where /\ moves > 0 /\ moves' = moves - 1

\* Between two tags and in a handler; where it may move the parser; where it goes
\* on after an exception.
InScript == {"script", "callback", "asked", "returned"}
MayMove  == {"script", "callback", "returned"}
MayGoOn  == MayMove \cup {"thrown"}

Store ==
  /\ Moves(InScript)
  /\ Loaded /\ saved = <<>>     \* bound: one state is stored
  /\ StoreWhenHidden \/ AllShown
  /\ saved' = <<[macros |-> macros, storage |-> at.storage, label |-> label, cond |-> cond, calls |-> calls,
                 args |-> [args EXCEPT !.list = SubSeq(@, 1, args.depth)]]>>
  /\ UNCHANGED <<plan, cached, at, label, cond, rec, macros, args, calls, interrupted, ctl, ret>>

\* Where the thread is after a method of the parser called by the script.
Back(throws) == ctl' = (IF throws THEN "thrown" ELSE IF ctl = "thrown" THEN "script" ELSE ctl) /\ UNCHANGED ret

\* restore(): goes to the label of the stored state, with its conditions.  The
\* labels of a scenario that is loaded are known if it is in the cache of
\* scenarios and they were asked for before.
Restore ==
  /\ Moves(MayGoOn)
  /\ saved # <<>>
  /\ \E d \in {saved[1]} : \E g \in {GoTo(Nowhere, d.storage, d.label)} :
        /\ macros' = d.macros
        /\ calls' = [i \in DOMAIN d.calls |-> [d.calls[i] EXCEPT !.cond = Restored(@)]]
        /\ at' = g.at
        /\ label' = IF g.throws \/ d.label = NoLabel THEN d.label ELSE g.label
        /\ args' = IF g.throws THEN [d.args EXCEPT !.base = d.args.depth] ELSE d.args
        /\ cond' = IF g.throws THEN NoCond ELSE Restored(d.cond)
        /\ rec' = NoRec
        /\ cached' \in (IF d.label = NoLabel THEN BOOLEAN ELSE {TRUE})
        /\ Back(g.throws)
  /\ UNCHANGED <<plan, interrupted, saved>>

-----------------------------------------------------------------------------
(* The other methods the script calls: between two tags, in a callback, and, *)
(* to go on after an exception, those that set a new position.              *)

LoadScenario(s) ==
  /\ Moves(MayGoOn)
  /\ \E g \in {GoTo(at, s, NoLabel)} :
        /\ at' = g.at
        /\ cond' = NoCond /\ rec' = NoRec /\ args' = [args EXCEPT !.depth = args.base]
        /\ cached' \in (IF s = at.storage THEN {cached} ELSE BOOLEAN)
        /\ Back(g.throws)
  /\ UNCHANGED <<plan, label, macros, calls, interrupted, saved>>

GoToLabel(l) ==
  /\ Moves(MayGoOn)
  /\ Loaded
  /\ \E g \in {GoTo(at, NoName, l)} :
        /\ at' = g.at /\ label' = g.label
        /\ cond' = CondAfter(g) /\ rec' = RecAfter(g)
        /\ args' = [args EXCEPT !.depth = DepthAfter(g, @, args.base)]
        /\ cached' = TRUE
        /\ Back(g.throws)
  /\ UNCHANGED <<plan, macros, calls, interrupted, saved>>

CallLabel(l) ==
  /\ Moves(MayMove) /\ Loaded
  /\ \E g \in {GoTo(at, NoName, l)} :
        /\ calls' = PushCallStack(at)
        /\ at' = g.at /\ label' = g.label
        /\ cond' = CondAfter(g) /\ rec' = RecAfter(g)
        /\ args' = [args EXCEPT !.base = args.depth]
        /\ cached' = TRUE
        /\ Back(g.throws)
  /\ UNCHANGED <<plan, macros, interrupted, saved>>

Clear ==
  /\ Moves(MayGoOn)
  /\ at' = Nowhere /\ cond' = NoCond /\ rec' = NoRec
  /\ args' = [list |-> <<>>, depth |-> 0, base |-> 0]
  /\ calls' = <<>>
  /\ Back(FALSE)
  /\ UNCHANGED <<plan, cached, label, macros, interrupted, saved>>

\* The script does so only outside of a macro's text: the [macropop] at the
\* end of that text would throw.
ClearCallStack ==
  /\ Moves(InScript) /\ args.depth = args.base
  /\ calls' = <<>>
  /\ args' = [args EXCEPT !.depth = 0, !.base = 0]
  /\ UNCHANGED <<plan, cached, at, label, cond, rec, macros, interrupted, ctl, ret, saved>>

Interrupt ==
  /\ Moves(InScript)
  /\ interrupted' = TRUE
  /\ UNCHANGED <<plan, cached, at, label, cond, rec, macros, args, calls, ctl, ret, saved>>

ResetInterrupt ==
  /\ Moves(InScript)
  /\ interrupted' = FALSE
  /\ UNCHANGED <<plan, cached, at, label, cond, rec, macros, args, calls, ctl, ret, saved>>

-----------------------------------------------------------------------------
LabelsOf(p) == UNION {{p[s][i].name : i \in {j \in DOMAIN p[s] : p[s][j].kind = "label"}} : s \in DOMAIN p}

\* The parser after loadScenario(Main).
Init ==
  /\ plan \in DOMAIN Plans /\ moves = Plans[plan].moves
  /\ at = Start(Main) /\ label = NoLabel
  /\ cond = NoCond /\ rec = NoRec /\ macros = <<>>
  /\ args = [list |-> <<>>, depth |-> 0, base |-> 0]
  /\ calls = <<>> /\ interrupted = FALSE /\ cached = FALSE
  /\ ctl = "script" /\ ret = "none" /\ saved = <<>>

Script ==
  \/ GetNextTag \/ CallbackReturns \/ AfterReturn
  \/ \E s \in DOMAIN program : LoadScenario(s)
  \/ \E l \in LabelsOf(program) : GoToLabel(l) \/ CallLabel(l)
  \/ Clear \/ ClearCallStack \/ Interrupt \/ ResetInterrupt \/ Store \/ Restore

Next == GetNextTagStep \/ Script

Spec     == Init /\ [][Next]_vars

\* The parser goes on, and the handlers of the script return to it.
FairSpec == Spec /\ WF_vars(GetNextTagStep \/ CallbackReturns \/ AfterReturn)

-----------------------------------------------------------------------------
(* Properties. *)

TypeOK ==
  /\ plan \in DOMAIN Plans
  /\ moves \in Nat
  /\ at.storage \in DOMAIN program \cup {NoName} /\ at.line \in Nat /\ at.pos \in Nat
  /\ cond.exclude \in Int /\ cond.level \in Nat
  /\ args.depth \in Nat /\ args.base \in Nat
  /\ interrupted \in BOOLEAN /\ cached \in BOOLEAN
  /\ ctl \in {"script", "start", "parse", "skip", "callback", "tag", "asked", "returned", "thrown", "crashed"}
  /\ ret \in {"none", "tag", "r", "interrupt", "end"}

\* The conditions as KagConditions has them.
CondsOf(c) ==
  [i \in DOMAIN c.stack |->
     IF c.stack[i] # -1 THEN "skip" ELSE IF c.exclude # i THEN "in"
     ELSE IF c.executed[i] THEN "done" ELSE "wait"]
FramesOf(cs) == [i \in DOMAIN cs |-> CondsOf(cs[i].cond)]

Conditions == INSTANCE KagConditions WITH
  conds  <- CondsOf(cond),
  frames <- FramesOf(calls),
  saved  <- [i \in DOMAIN saved |-> <<CondsOf(saved[i].cond), FramesOf(saved[i].calls)>>]

\* Conditions do what a scenario relies on.
ImplementsConditions == Conditions!Spec

\* What the authors of scenarios see to, as the parser does not: a tag ends in
\* the scenario it begins in, there is a line at least, a label has a name, and
\* no label is spelt like the name another one is given by its count.
WellFormed ==
  \A p \in DOMAIN Plans : \A s \in DOMAIN Plans[p].scenario :
    LET lines   == Plans[p].scenario[s]
        aliases == Tables[p][s].aliases
    IN /\ lines # <<>>
       /\ \A i \in 1 .. Len(lines) :
            /\ \A k \in 1 .. Len(lines[i].tags) : i + lines[i].tags[k].more <= Len(lines)
            /\ lines[i].kind = "label" =>
                 aliases[i] # NoLabel /\ \A j \in 1 .. Len(lines) \ {i} : aliases[j] # aliases[i]

\* A tag that a scenario may hold: it has a name, it is not the [macropop] of
\* the parser, and a [call] says where to.
Allowed(t) ==
  /\ t.tag \notin {"macropop", NoName}
  /\ t.tag = "call" => t.storage # NoName \/ t.target # NoLabel

\* And no [emb] makes a [macro]: the recording would swallow the [macropop] of
\* the macro the [emb] is in.
Disciplined ==
  /\ \A p \in DOMAIN Plans : \A s \in DOMAIN Plans[p].scenario :
       \A i \in 1 .. Len(Plans[p].scenario[s]) : \A k \in 1 .. Len(Plans[p].scenario[s][i].tags) :
         Allowed(Plans[p].scenario[s][i].tags[k])
  /\ \A text \in EmbTexts : \A k \in 1 .. Len(text) : Allowed(text[k]) /\ text[k].tag # "macro"

\* The [macropop]s still ahead in a line.
PopsAhead(a) == IF ~a.using THEN 0
                ELSE Cardinality({i \in a.pos + 1 .. Len(a.buffer) : a.buffer[i].tag = "macropop"})

\* A macro that ends pops its own arguments, never those of a caller.
PopsOwnArgs ==
  /\ ctl # "thrown" => PopsAhead(at) <= args.depth - args.base
  /\ \A i \in DOMAIN calls : PopsAhead(calls[i]) <= calls[i].depth - calls[i].base

\* The innermost arguments exist, also after restore() and for callers.
ArgsExist ==
  /\ args.depth <= Len(args.list)
  /\ \A i \in DOMAIN calls : calls[i].depth <= Len(args.list)

\* A return without a place leads behind the call.
ReturnsToCall ==
  [][ReturnBack => ctl' = "returned" /\ at' = Last1(calls).site]_vars

\* getNextTag ends, if the script's handlers return and the scenario does not lead
\* back to where it was without a tag in between: no macro and no text of an [emb]
\* yields itself again (readme.txt says that an [emb] may do so without end), and
\* no [jump], [call] or handler goes round.  The bound on moves and the scenarios of
\* the run see to that; macros, calls, returns and callbacks are nested otherwise.
TagIsRead == ctl # "script" ~> ctl \in {"script", "thrown", "crashed"}

\* restore() brings back the conditions that were stored.
RestoresConditions ==
  [][Restore /\ ctl' # "thrown" => cond' = saved[1].cond /\ calls' = saved[1].calls]_vars
=============================================================================
