----------------------------- MODULE MCKagParser -----------------------------
EXTENDS KagParser

A   == <<"a">>
Sub == <<"sub">>

LabelLine(name) == [kind |-> "label", name |-> name, tags |-> <<>>]
LineOf(tags)    == [kind |-> "text", name |-> NoLabel, tags |-> tags]
Plain(kind)     == [kind |-> kind, name |-> NoLabel, tags |-> <<>>]
LineCommand(t)  == [kind |-> "command", name |-> NoLabel, tags |-> <<t>>]

Ch           == TagOf("ch")
CallTo(l)    == [TagOf("call") EXCEPT !.target = l]
ReturnAt(l)  == [TagOf("return") EXCEPT !.target = l]
JumpTo(s, l) == [TagOf("jump") EXCEPT !.storage = s, !.target = l]
MacroOf(m)   == [TagOf("macro") EXCEPT !.name = m]
Erase(m)     == [TagOf("erasemacro") EXCEPT !.name = m]
ElsifCond    == [TagOf("elsif") EXCEPT !.cond = TRUE]

\* A subroutine with an open [if].
Other == <<LabelLine(Sub), LineOf(<<TagOf("if"), Ch>>), LineCommand(TagOf("return"))>>

\* Every line of three of these tags, behind a macro that calls, and before a
\* second label of the same name.
Word == [1 .. 3 -> {"if", "elsif", "else", "endif", "m", "call"}]
TagFor(n) == CASE n = "elsif" -> ElsifCond [] n = "call" -> CallTo(Sub) [] OTHER -> TagOf(n)
WordPlan(w) ==
  [moves |-> 0,
   scenario |->
    [main |-> <<LabelLine(A),
                LineOf(<<MacroOf("m"), Ch, CallTo(Sub), TagOf("endmacro"), Backslash>>),
                LineOf([i \in 1 .. 3 |-> TagFor(w[i])]),
                LabelLine(A),
                LineCommand(TagOf("m")),
                LineOf(<<TagOf("endif"), Ch>>),
                LabelLine(Sub),
                LineOf(<<TagOf("if"), Ch>>),
                LineCommand(TagOf("return"))>>]]

\* The script moves the parser, stores and restores.
MovePlan ==
  [moves |-> 2,
   scenario |->
    [main |-> <<LineOf(<<MacroOf("m"), TagOf("if"), [CallTo(Sub) EXCEPT !.storage = "other"], TagOf("endif"), TagOf("endmacro")>>),
                LabelLine(A),
                LineOf(<<TagOf("ignore"), TagOf("if"), [TagOf("m") EXCEPT !.cond = TRUE]>>),
                LabelLine(Omitted),
                LineOf(<<TagOf("m"), TagOf("endif"), TagOf("endignore"), [TagOf("p") EXCEPT !.more = 1]>>),
                Plain("comment")>>,
     other |-> Other]]

\* Jumps and returns to places, macros that are made by text and erased.
JumpPlan ==
  [moves |-> 0,
   scenario |->
    [main |-> <<LineOf(<<MacroOf("n"), TagOf("if"), TagOf("emb"), TagOf("endmacro"), MacroOf("m"), MacroOf("n"), TagOf("endmacro")>>),
                LineOf(<<TagOf("n"), CallTo(Sub), TagOf("p")>>),
                LabelLine(A),
                LineOf(<<TagOf("endif"), Erase("n"), TagOf("n"), Backslash>>),
                LineCommand(TagOf("emb")),
                LineCommand(JumpTo("other", NoLabel)),
                LabelLine(Sub),
                LineOf(<<TagOf("if")>>),
                LineCommand(ReturnAt(A)),
                LineCommand(CallTo(<<"none">>)),
                LineCommand(TagOf("return"))>>,
     other |-> <<LineOf(<<[MacroOf(NoName) EXCEPT !.cond = TRUE], TagOf("endmacro"), Erase("n")>>), LineCommand(TagOf("return"))>>]]

\* Scripts in the text.
ScriptPlan ==
  [moves |-> 1,
   scenario |->
    [main |-> <<LineOf(<<TagOf("if"), [TagOf("p") EXCEPT !.more = 1]>>),
                Plain("comment"), Plain("iscript"), LineOf(<<Ch>>), [Plain("endscript") EXCEPT !.tags = <<TagOf("endscript")>>],
                LineOf(<<TagOf("endif"), MacroOf("m"), [TagOf("elsif") EXCEPT !.cond = TRUE], TagOf("p")>>),
                LineOf(<<TagOf("if")>>),
                LineOf(<<TagOf("endmacro"), TagOf("endif"), TagOf("endmacro"), JumpTo("lost", NoLabel)>>),
                Plain("iscript")>>]]

MCPlans == [p \in Word \cup {<<i>> : i \in 1 .. 3} |->
              IF Len(p) = 1 THEN <<MovePlan, JumpPlan, ScriptPlan>>[p[1]] ELSE WordPlan(p)]
MCEmbTexts == {<<>>, <<Ch, TagOf("if")>>}

\* The scenarios above are such as the theorems are about.
ASSUME ScenariosAreUsual == WellFormed /\ Disciplined
=============================================================================
