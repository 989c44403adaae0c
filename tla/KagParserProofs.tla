--------------------------- MODULE KagParserProofs ---------------------------
(***************************************************************************)
(* The parser, for every set of scenarios.  It implements KagConditions as *)
(* long as no state is stored inside of skipped text; its state has its    *)
(* types, a return finds its call, and a macro pops its own arguments.     *)
(* WellFormed and Disciplined name what the scenarios have to be like.     *)
(***************************************************************************)
EXTENDS KagParser, SequenceTheorems, FiniteSetTheorems, WellFoundedInduction,
        NaturalsInduction, TLAPS

Cond == [exclude : Int, level : Nat, stack : Seq(Int), executed : Seq(BOOLEAN)]

\* The stacks are as deep as IfLevel.  Text is shown and every open [if] is in
\* its chosen branch, or text is skipped from the [if] of level ExcludeLevel on:
\* the outer ones are in their chosen branch, the inner ones were not reached.
CondOK(c) ==
  /\ c \in Cond
  /\ Len(c.stack) = c.level /\ Len(c.executed) = c.level
  /\ c.exclude = -1 => \A i \in 1 .. c.level : c.stack[i] = -1 /\ c.executed[i] = TRUE
  /\ c.exclude # -1 =>
       /\ c.exclude \in 1 .. c.level
       /\ \A i \in 1 .. c.level : i <= c.exclude => c.stack[i] = -1
       /\ \A i \in 1 .. c.level : i < c.exclude => c.executed[i] = TRUE
       /\ \A i \in 1 .. c.level : i > c.exclude => c.stack[i] = c.exclude /\ c.executed[i] = FALSE

ShownOK(c) == CondOK(c) /\ c.exclude = -1

Frames(cs) == \E S : cs \in Seq(S)

IsFrame(f) == "cond" \in DOMAIN f /\ f = [x \in DOMAIN f |-> f[x]]

CallsOK(cs) == Frames(cs) /\ \A i \in 1 .. Len(cs) : IsFrame(cs[i]) /\ CondOK(cs[i].cond)

\* The inductive invariant.  An expression that throws leaves the conditions
\* of its [if] half made, until the script sets a new position.
KInv ==
  /\ ctl # "thrown" => CondOK(cond)
  /\ CallsOK(calls)
  /\ \/ saved = <<>>
     \/ \E d : /\ saved = <<d>> /\ ShownOK(d.cond) /\ CallsOK(d.calls)
               /\ \A i \in 1 .. Len(d.calls) : d.calls[i].cond.exclude = -1

-----------------------------------------------------------------------------
(* Conditions. *)

\* CondsOf is a sequence with one branch for each open [if].
LEMMA CondsOfSeq ==
  ASSUME NEW c, CondOK(c)
  PROVE  /\ CondsOf(c) \in Seq({"in", "wait", "done", "skip"})
         /\ Len(CondsOf(c)) = c.level
         /\ \A i \in 1 .. c.level :
              CondsOf(c)[i] = IF c.stack[i] # -1 THEN "skip" ELSE IF c.exclude # i THEN "in"
                              ELSE IF c.executed[i] THEN "done" ELSE "wait"
<1>1. DOMAIN c.stack = 1 .. c.level /\ c.level \in Nat
  BY DEF CondOK, Cond
<1> QED BY <1>1 DEF CondsOf

\* No open [if]s.
LEMMA NoCondOK == ShownOK(NoCond) /\ CondsOf(NoCond) = <<>>
  BY DEF ShownOK, CondOK, Cond, NoCond, CondsOf

\* Text is shown when every branch is a chosen one.
LEMMA ShownAll ==
  ASSUME NEW c, CondOK(c)
  PROVE  Conditions!Shown(CondsOf(c)) <=> c.exclude = -1
<1>1. DOMAIN CondsOf(c) = 1 .. c.level
  BY CondsOfSeq
<1>2. ASSUME c.exclude = -1, NEW i \in 1 .. c.level PROVE CondsOf(c)[i] = "in"
  <2>1. c.stack[i] = -1 /\ c.exclude # i
    BY <1>2 DEF CondOK, Cond
  <2> QED BY <2>1, CondsOfSeq
<1>3. ASSUME c.exclude # -1 PROVE c.exclude \in 1 .. c.level /\ CondsOf(c)[c.exclude] # "in"
  BY <1>3, CondsOfSeq DEF CondOK
<1> QED BY <1>1, <1>2, <1>3 DEF Conditions!Shown

\* Mapped [if].
LEMMA IfStep ==
  ASSUME NEW c, CondOK(c), NEW b \in BOOLEAN
  PROVE  /\ CondOK(AfterIf(c, b))
         /\ CondsOf(AfterIf(c, b)) =
              Append(CondsOf(c), IF c.exclude # -1 THEN "skip" ELSE IF b THEN "in" ELSE "wait")
<1> DEFINE a == AfterIf(c, b)
           x == IF c.exclude # -1 THEN "skip" ELSE IF b THEN "in" ELSE "wait"
           t == Append(CondsOf(c), x)
<1>1. c \in Cond /\ Len(c.stack) = c.level /\ Len(c.executed) = c.level
  BY DEF CondOK
<1>2. a \in Cond /\ a.level = c.level + 1 /\ Len(a.stack) = a.level /\ Len(a.executed) = a.level
  BY <1>1 DEF AfterIf, Cond
<1>3. /\ \A i \in 1 .. c.level : a.stack[i] = c.stack[i] /\ a.executed[i] = c.executed[i]
      /\ a.stack[a.level] = c.exclude /\ a.executed[a.level] = (c.exclude = -1 /\ b)
  BY <1>1 DEF AfterIf, Cond
<1>4. a.exclude = IF c.exclude = -1 /\ ~b THEN c.level + 1 ELSE c.exclude
  BY DEF AfterIf
<1>5. c.level \in Nat /\ c.exclude \in Int
  BY <1>1 DEF Cond
<1> HIDE DEF a
<1>6. CondOK(a)
  <2>0. /\ a.level \in Nat /\ a.level = c.level + 1
        /\ \A i \in 1 .. a.level : i = a.level \/ i \in 1 .. c.level
    BY <1>2, <1>5
  <2>1. CASE c.exclude = -1 /\ b
    <3>1. a.exclude = -1 /\ a.stack[a.level] = -1 /\ a.executed[a.level] = TRUE
      BY <1>3, <1>4, <2>1
    <3>2. \A i \in 1 .. a.level : a.stack[i] = -1 /\ a.executed[i] = TRUE
      BY <1>3, <2>0, <2>1, <3>1 DEF CondOK
    <3> QED BY <1>2, <3>1, <3>2 DEF CondOK
  <2>2. CASE c.exclude = -1 /\ ~b
    <3>1. a.exclude = a.level /\ a.stack[a.level] = -1
      BY <1>3, <1>4, <2>0, <2>2
    <3>2. \A i \in 1 .. a.level : a.stack[i] = -1 /\ (i < a.level => a.executed[i] = TRUE)
      BY <1>3, <2>0, <2>2, <3>1 DEF CondOK
    <3> QED BY <1>2, <2>0, <3>1, <3>2 DEF CondOK
  <2>3. CASE c.exclude # -1
    <3>1. a.exclude = c.exclude /\ a.stack[a.level] = c.exclude /\ a.executed[a.level] = FALSE
      BY <1>3, <1>4, <2>3
    <3>2. /\ c.exclude \in 1 .. c.level
          /\ \A i \in 1 .. c.level : i <= c.exclude => a.stack[i] = -1
          /\ \A i \in 1 .. c.level : i < c.exclude => a.executed[i] = TRUE
          /\ \A i \in 1 .. c.level : i > c.exclude => a.stack[i] = c.exclude /\ a.executed[i] = FALSE
      BY <1>3, <2>3 DEF CondOK
    <3>3. c.exclude \in 1 .. a.level /\ ~(a.level <= c.exclude)
      BY <1>5, <2>0, <3>2
    <3> QED BY <1>2, <2>0, <3>1, <3>2, <3>3 DEF CondOK
  <2> QED BY <2>1, <2>2, <2>3
<1>7. /\ t \in Seq({"in", "wait", "done", "skip"}) /\ Len(t) = c.level + 1
      /\ \A i \in 1 .. c.level : t[i] = CondsOf(c)[i]
      /\ t[c.level + 1] = x
  BY <1>5, CondsOfSeq
<1> HIDE DEF t
<1>8. /\ CondsOf(a) \in Seq({"in", "wait", "done", "skip"}) /\ Len(CondsOf(a)) = c.level + 1
  BY <1>2, <1>6, CondsOfSeq
<1>9. ASSUME NEW i \in 1 .. c.level + 1 PROVE CondsOf(a)[i] = t[i]
  <2>1. CondsOf(a)[i] = IF a.stack[i] # -1 THEN "skip" ELSE IF a.exclude # i THEN "in"
                        ELSE IF a.executed[i] THEN "done" ELSE "wait"
    BY <1>2, <1>6, CondsOfSeq
  <2>2. CASE i = c.level + 1
    BY <1>2, <1>3, <1>4, <1>5, <1>7, <2>1, <2>2 DEF CondOK
  <2>3. CASE i \in 1 .. c.level
    <3>1. CondsOf(c)[i] = IF c.stack[i] # -1 THEN "skip" ELSE IF c.exclude # i THEN "in"
                          ELSE IF c.executed[i] THEN "done" ELSE "wait"
      BY <2>3, CondsOfSeq
    <3>2. a.exclude = i <=> c.exclude = i
      BY <1>4, <1>5, <2>3
    <3>3. a.stack[i] = c.stack[i] /\ a.executed[i] = c.executed[i] /\ t[i] = CondsOf(c)[i]
      BY <1>3, <1>7, <2>3
    <3> QED BY <2>1, <3>1, <3>2, <3>3, Zenon
  <2> QED BY <2>2, <2>3, <1>5
<1>10. CondsOf(a) = t
  BY <1>7, <1>8, <1>9, SeqEqual
<1> QED BY <1>6, <1>10 DEF a, t

\* One branch of the stack becomes the chosen one.
LEMMA SetTrue ==
  ASSUME NEW s \in Seq(BOOLEAN), NEW n \in 1 .. Len(s)
  PROVE  /\ [s EXCEPT ![n] = TRUE] \in Seq(BOOLEAN)
         /\ Len([s EXCEPT ![n] = TRUE]) = Len(s)
         /\ \A i \in 1 .. Len(s) : [s EXCEPT ![n] = TRUE][i] = IF i = n THEN TRUE ELSE s[i]
<1>1. PICK v \in BOOLEAN : v = TRUE
  BY Zenon
<1>2. /\ [s EXCEPT ![n] = v] \in Seq(BOOLEAN)
      /\ Len([s EXCEPT ![n] = v]) = Len(s)
      /\ \A i \in 1 .. Len(s) : [s EXCEPT ![n] = v][i] = IF i = n THEN v ELSE s[i]
  BY ExceptSeq
<1> QED BY <1>1, <1>2

\* Mapped [elsif] and [else] inside of an [if].
LEMMA ElsifStep ==
  ASSUME NEW c, CondOK(c), c.level > 0, NEW b \in BOOLEAN
  PROVE  /\ CondOK(AfterElsif(c, b))
         /\ CondsOf(AfterElsif(c, b)) =
              [CondsOf(c) EXCEPT ![Len(CondsOf(c))] =
                 CASE @ = "in"   -> "done"
                   [] @ = "wait" -> IF b THEN "in" ELSE "wait"
                   [] OTHER      -> @]
<1> DEFINE a == AfterElsif(c, b)
           n == c.level
           q == CondsOf(c)
           y == CASE q[n] = "in"   -> "done"
                  [] q[n] = "wait" -> IF b THEN "in" ELSE "wait"
                  [] OTHER         -> q[n]
           t == [q EXCEPT ![n] = y]
<1>1. /\ c \in Cond /\ Len(c.stack) = n /\ Len(c.executed) = n /\ n \in Nat /\ n > 0 /\ n \in 1 .. n
      /\ c.exclude \in Int /\ c.executed # <<>> /\ Last1(c.executed) = c.executed[n]
      /\ c.executed[n] \in BOOLEAN
  BY DEF CondOK, Cond, Last1
<1>2. /\ q \in Seq({"in", "wait", "done", "skip"}) /\ Len(q) = n
      /\ \A i \in 1 .. n : q[i] = IF c.stack[i] # -1 THEN "skip" ELSE IF c.exclude # i THEN "in"
                                  ELSE IF c.executed[i] THEN "done" ELSE "wait"
  BY CondsOfSeq
<1>3. y \in {"in", "wait", "done", "skip"}
  BY <1>1, <1>2
<1>4. /\ t \in Seq({"in", "wait", "done", "skip"}) /\ Len(t) = n
      /\ \A i \in 1 .. n : t[i] = IF i = n THEN y ELSE q[i]
  BY <1>1, <1>2, <1>3, ExceptSeq
<1> HIDE DEF t
\* The branch is the chosen one, or is past it.
<1>5. CASE c.executed[n] = TRUE
  <2>1. a = [c EXCEPT !.exclude = n]
    BY <1>1, <1>5 DEF AfterElsif
  <2>2. /\ a \in Cond /\ a.level = n /\ a.stack = c.stack /\ a.executed = c.executed /\ a.exclude = n
    <3>1. a = [exclude |-> n, level |-> n, stack |-> c.stack, executed |-> c.executed]
      BY <1>1, <2>1 DEF Cond
    <3> HIDE DEF a
    <3>2. c.stack \in Seq(Int) /\ c.executed \in Seq(BOOLEAN) /\ n \in Int
      BY <1>1 DEF Cond
    <3> QED BY <1>1, <3>1, <3>2 DEF Cond
  <2>3. c.exclude = -1 \/ c.exclude = n
    BY <1>1, <1>5 DEF CondOK
  <2>4. \A i \in 1 .. n : c.stack[i] = -1 /\ (i < n => c.executed[i] = TRUE)
    BY <1>1, <2>3 DEF CondOK
  <2>5. CondOK(a)
    BY <1>1, <2>2, <2>4 DEF CondOK
  <2>6. y = "done"
    <3>1. c.stack[n] = -1 /\ n # -1
      BY <1>1, <2>4
    <3>2. q[n] = "in" \/ q[n] = "done"
      BY <1>1, <1>2, <1>5, <2>3, <3>1
    <3> QED BY <3>2
  <2> HIDE DEF a, q, y
  <2>7. CondsOf(a) \in Seq({"in", "wait", "done", "skip"}) /\ Len(CondsOf(a)) = n
    BY <2>2, <2>5, CondsOfSeq
  <2>8. ASSUME NEW i \in 1 .. n PROVE CondsOf(a)[i] = t[i]
    <3>1. CondsOf(a)[i] = IF c.stack[i] # -1 THEN "skip" ELSE IF n # i THEN "in"
                          ELSE IF c.executed[i] THEN "done" ELSE "wait"
      BY <2>2, <2>5, CondsOfSeq
    <3>2. CASE i = n
      BY <1>4, <1>5, <2>4, <2>6, <3>1, <3>2
    <3>3. CASE i # n
      <4>1. c.exclude # i /\ c.stack[i] = -1
        BY <1>1, <2>3, <2>4, <3>3
      <4> QED BY <1>2, <1>4, <3>1, <3>3, <4>1
    <3> QED BY <3>2, <3>3
  <2>9. CondsOf(a) = t
    BY <1>4, <2>7, <2>8, SeqEqual
  <2> QED BY <1>2, <2>5, <2>9 DEF a, t, y, q
\* No branch is chosen so far, and this one is.
<1>6. CASE c.executed[n] = FALSE /\ c.exclude = n /\ b
  <2>1. a = [c EXCEPT !.exclude = -1, !.executed[n] = TRUE]
    BY <1>1, <1>6 DEF AfterElsif
  <2> DEFINE e == [c.executed EXCEPT ![n] = TRUE]
  <2>e. c.executed \in Seq(BOOLEAN)
    BY <1>1 DEF Cond
  <2>s. /\ e \in Seq(BOOLEAN) /\ Len(e) = n
        /\ \A i \in 1 .. n : e[i] = IF i = n THEN TRUE ELSE c.executed[i]
    BY <1>1, <2>e, SetTrue, ZenonT(30)
  <2>2. /\ a \in Cond /\ a.level = n /\ a.stack = c.stack /\ a.exclude = -1 /\ a.executed = e
    <3>1. a = [exclude |-> -1, level |-> n, stack |-> c.stack, executed |-> e]
      BY <1>1, <2>1 DEF Cond
    <3> HIDE DEF e, a
    <3>2. c.stack \in Seq(Int) /\ -1 \in Int
      BY <1>1 DEF Cond
    <3> QED BY <1>1, <2>s, <3>1, <3>2 DEF Cond
  <2> HIDE DEF e
  <2>3. /\ \A i \in 1 .. n : a.executed[i] = IF i = n THEN TRUE ELSE c.executed[i]
        /\ Len(a.executed) = n
    BY <2>2, <2>s
  <2>4. \A i \in 1 .. n : c.stack[i] = -1 /\ (i # n => c.executed[i] = TRUE)
    BY <1>1, <1>6 DEF CondOK
  <2>5. CondOK(a)
    BY <1>1, <2>2, <2>3, <2>4 DEF CondOK
  <2>6. y = "in"
    <3>1. q[n] = "wait"
      BY <1>1, <1>2, <1>6, <2>4
    <3> QED BY <1>6, <3>1
  <2> HIDE DEF a, q, y
  <2>7. CondsOf(a) \in Seq({"in", "wait", "done", "skip"}) /\ Len(CondsOf(a)) = n
    BY <2>2, <2>5, CondsOfSeq
  <2>8. ASSUME NEW i \in 1 .. n PROVE CondsOf(a)[i] = t[i]
    <3>1. c.stack[i] = -1 /\ i # -1
      BY <2>4, <1>1
    <3>2. CondsOf(a)[i] = "in"
      BY <2>2, <2>5, <3>1, CondsOfSeq
    <3>3. i # n => q[i] = "in"
      BY <1>2, <1>6, <3>1
    <3> QED BY <1>4, <2>6, <3>2, <3>3
  <2>9. CondsOf(a) = t
    BY <1>4, <2>7, <2>8, SeqEqual
  <2> QED BY <1>2, <2>5, <2>9 DEF a, t, y, q
\* No branch is chosen, or the [if] was not reached: nothing changes.
<1>7. CASE c.executed[n] = FALSE /\ ~(c.exclude = n /\ b)
  <2>1. a = c
    BY <1>1, <1>7 DEF AfterElsif
  <2>2. c.exclude # -1
    BY <1>1, <1>7 DEF CondOK
  <2>3. y = q[n]
    <3>1. q[n] # "in"
      <4>1. CASE c.exclude = n
        BY <1>1, <1>2, <1>7, <2>2, <4>1 DEF CondOK
      <4>2. CASE c.exclude # n
        <5>1. c.exclude < n /\ c.exclude \in 1 .. n
          BY <1>1, <2>2, <4>2 DEF CondOK
        <5>2. c.stack[n] = c.exclude
          BY <1>1, <2>2, <5>1 DEF CondOK
        <5> QED BY <1>1, <1>2, <2>2, <5>2
      <4> QED BY <4>1, <4>2
    <3>2. q[n] = "wait" => ~b
      BY <1>1, <1>2, <1>7
    <3> QED BY <3>1, <3>2
  <2>4. t = q
    <3>1. \A i \in 1 .. n : t[i] = q[i]
      BY <1>4, <2>3
    <3> HIDE DEF q
    <3> QED BY <1>2, <1>4, <3>1, SeqEqual
  <2> QED BY <1>2, <2>1, <2>4 DEF t
<1> QED BY <1>1, <1>5, <1>6, <1>7

\* Mapped [endif] inside of an [if].
LEMMA EndifStep ==
  ASSUME NEW c, CondOK(c), c.level > 0
  PROVE  /\ CondOK(AfterEndif(c))
         /\ CondsOf(AfterEndif(c)) = SubSeq(CondsOf(c), 1, Len(CondsOf(c)) - 1)
<1> DEFINE a == AfterEndif(c)
           n == c.level
           q == CondsOf(c)
           t == SubSeq(q, 1, n - 1)
<1>1. /\ c \in Cond /\ Len(c.stack) = n /\ Len(c.executed) = n /\ n \in Nat /\ n > 0 /\ n \in 1 .. n
      /\ n - 1 \in Nat /\ c.exclude \in Int /\ c.stack # <<>> /\ c.executed # <<>>
  BY DEF CondOK, Cond
<1>2. a = [exclude |-> c.stack[n], level |-> n - 1,
           stack |-> SubSeq(c.stack, 1, n - 1), executed |-> SubSeq(c.executed, 1, n - 1)]
  BY <1>1 DEF AfterEndif, Last1, Front1
<1>3. /\ a \in Cond /\ a.level = n - 1 /\ a.exclude = c.stack[n]
      /\ Len(a.stack) = n - 1 /\ Len(a.executed) = n - 1
      /\ \A i \in 1 .. n - 1 : a.stack[i] = c.stack[i] /\ a.executed[i] = c.executed[i] /\ i \in 1 .. n
  BY <1>1, <1>2 DEF Cond
<1>4. /\ q \in Seq({"in", "wait", "done", "skip"}) /\ Len(q) = n
      /\ \A i \in 1 .. n : q[i] = IF c.stack[i] # -1 THEN "skip" ELSE IF c.exclude # i THEN "in"
                                  ELSE IF c.executed[i] THEN "done" ELSE "wait"
  BY CondsOfSeq
<1> HIDE DEF a, q
<1>5. /\ t \in Seq({"in", "wait", "done", "skip"}) /\ Len(t) = n - 1
      /\ \A i \in 1 .. n - 1 : t[i] = q[i]
  BY <1>1, <1>4
<1> HIDE DEF t
\* This [if] was reached: the text around it is shown.
<1>6. CASE c.stack[n] = -1
  <2>1. \A i \in 1 .. n - 1 : c.stack[i] = -1 /\ c.executed[i] = TRUE /\ c.exclude # i
    <3>1. CASE c.exclude = -1
      BY <1>1, <3>1 DEF CondOK
    <3>2. CASE c.exclude # -1
      <4>1. c.exclude = n
        BY <1>1, <1>6, <3>2 DEF CondOK
      <4> QED BY <1>1, <3>2, <4>1 DEF CondOK
    <3> QED BY <3>1, <3>2
  <2>2. CondOK(a) /\ a.exclude = -1
    BY <1>3, <1>6, <2>1 DEF CondOK
  <2>3. ASSUME NEW i \in 1 .. n - 1 PROVE CondsOf(a)[i] = t[i]
    <3>1. i # -1 /\ i \in 1 .. n
      BY <1>1
    <3>a. a.stack[i] = -1 /\ a.exclude # i /\ i \in 1 .. a.level
      BY <1>3, <2>1, <2>2, <3>1
    <3>2. CondsOf(a)[i] = "in"
      BY <2>2, <3>a, CondsOfSeq
    <3>3. q[i] = "in"
      BY <1>4, <2>1, <3>1
    <3> QED BY <1>5, <3>2, <3>3
  <2> QED BY <1>3, <1>4, <1>5, <2>2, <2>3, CondsOfSeq, SeqEqual DEF a, q, t
\* It was not: the text stays skipped.
<1>7. CASE c.stack[n] # -1
  <2>1. c.exclude \in 1 .. n - 1 /\ c.stack[n] = c.exclude /\ c.exclude # -1
    BY <1>1, <1>7 DEF CondOK
  <2>2. CondOK(a)
    BY <1>1, <1>3, <2>1 DEF CondOK
  <2>3. ASSUME NEW i \in 1 .. n - 1 PROVE CondsOf(a)[i] = t[i]
    <3>1. CondsOf(a)[i] = IF a.stack[i] # -1 THEN "skip" ELSE IF a.exclude # i THEN "in"
                          ELSE IF a.executed[i] THEN "done" ELSE "wait"
      BY <1>3, <2>2, CondsOfSeq
    <3>2. a.stack[i] = c.stack[i] /\ a.executed[i] = c.executed[i] /\ a.exclude = c.exclude /\ i \in 1 .. n
      BY <1>3, <2>1
    <3> QED BY <1>4, <1>5, <3>1, <3>2, Zenon
  <2> QED BY <1>3, <1>4, <1>5, <2>2, <2>3, CondsOfSeq, SeqEqual DEF a, q, t
<1> QED BY <1>6, <1>7

\* An [elsif] or [endif] outside of every [if] leaves no [if] open.
LEMMA OutsideStep ==
  ASSUME NEW c, CondOK(c), ~(c.level > 0), NEW b \in BOOLEAN
  PROVE  /\ AfterElsif(c, b) = c
         /\ CondOK(AfterEndif(c)) /\ CondsOf(AfterEndif(c)) = <<>> /\ CondsOf(c) = <<>>
<1>1. c \in Cond /\ c.level = 0 /\ c.stack = <<>> /\ c.executed = <<>>
  BY DEF CondOK, Cond
<1>2. c.exclude = -1
  BY <1>1 DEF CondOK
<1>3. AfterEndif(c) = NoCond
  BY <1>1, <1>2 DEF AfterEndif, NoCond
<1>4. CondsOf(c) = <<>>
  BY <1>1 DEF CondsOf
<1> QED BY <1>1, <1>3, <1>4, NoCondOK DEF AfterElsif, ShownOK

-----------------------------------------------------------------------------
(* Callers. *)

\* Pushing a frame.
LEMMA FramesPush ==
  ASSUME NEW cs, CallsOK(cs), NEW f, IsFrame(f), CondOK(f.cond)
  PROVE  /\ CallsOK(Append(cs, f))
         /\ FramesOf(Append(cs, f)) = Append(FramesOf(cs), CondsOf(f.cond))
<1> DEFINE n == Len(cs)
           a == Append(cs, f)
<1>1. PICK S : cs \in Seq(S)
  BY DEF CallsOK, Frames
<1>2. /\ a \in Seq(S \cup {f}) /\ Len(a) = n + 1 /\ n \in Nat
      /\ \A i \in 1 .. n : a[i] = cs[i]
      /\ a[n + 1] = f
      /\ DOMAIN a = 1 .. n + 1 /\ DOMAIN cs = 1 .. n
  BY <1>1
<1> HIDE DEF a
<1>3. CallsOK(a)
  <2>1. \A i \in 1 .. n + 1 : i \in 1 .. n \/ i = n + 1
    BY <1>2
  <2> QED BY <1>2, <2>1 DEF CallsOK, Frames
<1> DEFINE T == {CondsOf(a[i].cond) : i \in 1 .. n + 1}
           s == Append(FramesOf(cs), CondsOf(f.cond))
<1>4. FramesOf(a) \in Seq(T) /\ Len(FramesOf(a)) = n + 1 /\ \A i \in 1 .. n + 1 : FramesOf(a)[i] = CondsOf(a[i].cond)
  BY <1>2 DEF FramesOf
<1>5. FramesOf(cs) \in Seq(T) /\ Len(FramesOf(cs)) = n /\ \A i \in 1 .. n : FramesOf(cs)[i] = CondsOf(a[i].cond)
  <2>1. \A i \in 1 .. n : CondsOf(cs[i].cond) = CondsOf(a[i].cond) /\ CondsOf(a[i].cond) \in T
    BY <1>2
  <2> QED BY <1>2, <2>1 DEF FramesOf
<1>6. CondsOf(f.cond) \in T
  BY <1>2
<1> HIDE DEF T
<1>7. /\ s \in Seq(T) /\ Len(s) = n + 1 /\ \A i \in 1 .. n : s[i] = CondsOf(a[i].cond)
      /\ s[n + 1] = CondsOf(f.cond)
  BY <1>2, <1>5, <1>6
<1>8. \A i \in 1 .. n + 1 : FramesOf(a)[i] = s[i]
  BY <1>2, <1>4, <1>7
<1> HIDE DEF s
<1>9. FramesOf(a) = s
  BY <1>4, <1>7, <1>8, SeqEqual
<1> QED BY <1>3, <1>9 DEF a, s

\* Dropping the last frame.
LEMMA FramesPop ==
  ASSUME NEW cs, CallsOK(cs), cs # <<>>
  PROVE  /\ CallsOK(Front1(cs)) /\ CondOK(Last1(cs).cond)
         /\ FramesOf(cs) # <<>>
         /\ FramesOf(cs)[Len(FramesOf(cs))] = CondsOf(Last1(cs).cond)
         /\ FramesOf(Front1(cs)) = SubSeq(FramesOf(cs), 1, Len(FramesOf(cs)) - 1)
<1> DEFINE n == Len(cs)
           a == Front1(cs)
           T == {CondsOf(cs[i].cond) : i \in 1 .. n}
<1>1. PICK S : cs \in Seq(S)
  BY DEF CallsOK, Frames
<1>n. n \in Nat /\ n > 0 /\ n \in 1 .. n /\ n - 1 \in Nat /\ DOMAIN cs = 1 .. n
  BY <1>1
<1>s. /\ a \in Seq(S) /\ Len(a) = n - 1
      /\ \A i \in 1 .. n - 1 : a[i] = cs[i]
  BY <1>1, <1>n DEF Front1
<1>2. /\ a \in Seq(S) /\ Len(a) = n - 1 /\ n \in Nat /\ n > 0 /\ n \in 1 .. n /\ n - 1 \in Nat
      /\ \A i \in 1 .. n - 1 : a[i] = cs[i] /\ i \in 1 .. n
      /\ DOMAIN a = 1 .. n - 1 /\ DOMAIN cs = 1 .. n /\ Last1(cs) = cs[n]
  BY <1>n, <1>s DEF Last1
<1> HIDE DEF a
<1>3. CallsOK(a) /\ CondOK(Last1(cs).cond)
  BY <1>2 DEF CallsOK, Frames
<1>4. FramesOf(cs) \in Seq(T) /\ Len(FramesOf(cs)) = n /\ \A i \in 1 .. n : FramesOf(cs)[i] = CondsOf(cs[i].cond)
  BY <1>2 DEF FramesOf
<1>5. FramesOf(a) \in Seq(T) /\ Len(FramesOf(a)) = n - 1 /\ \A i \in 1 .. n - 1 : FramesOf(a)[i] = CondsOf(cs[i].cond)
  <2>1. \A i \in 1 .. n - 1 : CondsOf(cs[i].cond) = CondsOf(a[i].cond) /\ CondsOf(a[i].cond) \in T
    BY <1>2
  <2> QED BY <1>2, <2>1 DEF FramesOf
<1> HIDE DEF T
<1> DEFINE s == SubSeq(FramesOf(cs), 1, n - 1)
<1>6. s \in Seq(T) /\ Len(s) = n - 1 /\ \A i \in 1 .. n - 1 : s[i] = FramesOf(cs)[i]
  BY <1>2, <1>4
<1> HIDE DEF s
<1>7. \A i \in 1 .. n - 1 : FramesOf(a)[i] = s[i]
  BY <1>2, <1>4, <1>5, <1>6
<1>8. FramesOf(a) = s
  BY <1>5, <1>6, <1>7, SeqEqual
<1> QED BY <1>2, <1>3, <1>4, <1>8 DEF a, s

-----------------------------------------------------------------------------
(* store() and restore(). *)

\* Conditions of text that is shown survive the two conversions.
LEMMA RestoredShown ==
  ASSUME NEW c, ShownOK(c)
  PROVE  Restored(c) = c
<1> DEFINE q == c.stack
           n == Len(q)
           str == StoreIntStackToDic(q)
<1>1. c \in Cond /\ q \in Seq(Int) /\ n \in Nat /\ \A i \in 1 .. n : q[i] = -1
  BY DEF ShownOK, CondOK, Cond
<1>2. ASSUME NEW k \in 1 .. 8 * n PROVE str[k] = 15
  <2>1. (k - 1) \div 8 + 1 \in 1 .. n /\ (k - 1) % 8 \in 0 .. 7
    <3>1. k - 1 \in 0 .. 8 * n - 1
      BY <1>1
    <3>2. \A j \in 0 .. 8 * n - 1 : j \div 8 \in 0 .. n - 1 /\ j % 8 \in 0 .. 7
      BY <1>1
    <3>3. (k - 1) \div 8 \in 0 .. n - 1 /\ (k - 1) % 8 \in 0 .. 7
      BY <3>1, <3>2
    <3> QED BY <1>1, <3>3
  <2>2. q[(k - 1) \div 8 + 1] = -1
    BY <1>1, <2>1
  <2>3. ASSUME NEW j \in 1 .. 8 PROVE Digit(-1, Weight[j]) = 15
    <3>1. Weight[j] \in {268435456, 16777216, 1048576, 65536, 4096, 256, 16, 1}
      BY SMT DEF Weight
    <3>2. \A w \in {268435456, 16777216, 1048576, 65536, 4096, 256, 16, 1} : (0 \div w) % 16 = 0
      BY SMT
    <3>3. -1 - (-1) = 0 /\ -1 < 0 /\ 15 - 0 = 15
      BY SMT
    <3> QED BY <3>1, <3>2, <3>3, SMT DEF Digit
  <2>4. str[k] = Digit(q[(k - 1) \div 8 + 1], Weight[((k - 1) % 8) + 1])
    BY <1>1, SMT DEF StoreIntStackToDic
  <2>5. ((k - 1) % 8) + 1 \in 1 .. 8
    BY <2>1
  <2> QED BY <2>2, <2>3, <2>4, <2>5
<1>3. Len(str) = 8 * n /\ Len(str) \div 8 = n
  BY <1>1 DEF StoreIntStackToDic
<1> HIDE DEF str
<1>4. ASSUME NEW i \in 1 .. n PROVE Hex(str, i) = -1
  <2>1. /\ i \in 1 .. 8 * n /\ i + 1 \in 1 .. 8 * n /\ i + 2 \in 1 .. 8 * n /\ i + 3 \in 1 .. 8 * n
        /\ i + 4 \in 1 .. 8 * n /\ i + 5 \in 1 .. 8 * n /\ i + 6 \in 1 .. 8 * n /\ i + 7 \in 1 .. 8 * n
    BY <1>1
  <2>2. /\ str[i] = 15 /\ str[i + 1] = 15 /\ str[i + 2] = 15 /\ str[i + 3] = 15
        /\ str[i + 4] = 15 /\ str[i + 5] = 15 /\ str[i + 6] = 15 /\ str[i + 7] = 15
    BY <1>2, <2>1
  <2>3. /\ Weight[1] = 268435456 /\ Weight[2] = 16777216 /\ Weight[3] = 1048576 /\ Weight[4] = 65536
        /\ Weight[5] = 4096 /\ Weight[6] = 256 /\ Weight[7] = 16
    BY SMT DEF Weight
  <2> QED BY <2>2, <2>3, SMT DEF Hex
<1> DEFINE r == RestoreIntStackFromStr(str)
<1>5. r \in Seq(Int) /\ Len(r) = n /\ \A i \in 1 .. n : r[i] = q[i]
  <2>1. r = [i \in 1 .. n |-> -1]
    BY <1>3, <1>4 DEF RestoreIntStackFromStr
  <2> HIDE DEF r
  <2> QED BY <1>1, <2>1
<1> HIDE DEF r
<1>6. r = q
  BY <1>1, <1>5, SeqEqual
<1> QED BY <1>1, <1>6 DEF Restored, str, r, Cond

-----------------------------------------------------------------------------
(* Every step keeps the invariant, and is a step of KagConditions or none.  *)

StepOK == KInv' /\ [Conditions!Next]_(Conditions!vars)

Same == UNCHANGED <<cond, calls, saved>>

\* The conditions seen from KagConditions only depend on these variables.
LEMMA Mapped ==
  /\ cond' = cond => CondsOf(cond)' = CondsOf(cond)
  /\ calls' = calls => FramesOf(calls)' = FramesOf(calls)
  /\ CondsOf(cond)' = CondsOf(cond')
  /\ FramesOf(calls)' = FramesOf(calls')
  BY DEF CondsOf, FramesOf

\* Nothing of it changes.
LEMMA KeepStep ==
  ASSUME KInv, Same, ret' = ret, ctl = "thrown" => ctl' = "thrown"
  PROVE  StepOK
  BY Mapped DEF StepOK, KInv, Same, Conditions!vars

\* getNextTag starts, or ends without a tag.
LEMMA NoShowStep ==
  ASSUME KInv, Same, ret' \in {"none", "end", "interrupt"}, ctl # "thrown"
  PROVE  StepOK
<1>1. KInv'
  BY DEF KInv, Same
<1>2. Conditions!Ask \/ Conditions!NoShow
  BY Mapped DEF Same, Conditions!Ask, Conditions!NoShow
<1> QED BY <1>1, <1>2 DEF StepOK, Conditions!Next

\* A tag is returned: text is shown.
LEMMA ShowStep ==
  ASSUME KInv, Same, ret' \in {"tag", "r"}, Shown, ctl # "thrown"
  PROVE  StepOK
<1>1. KInv'
  BY DEF KInv, Same
<1>2. Conditions!Shown(CondsOf(cond))
  BY ShownAll DEF KInv, Shown
<1>3. Conditions!Show
  BY <1>2, Mapped DEF Same, Conditions!Show
<1> QED BY <1>1, <1>3 DEF StepOK, Conditions!Next

\* The conditions end, or stay.
LEMMA BreakStep ==
  ASSUME KInv, UNCHANGED <<calls, saved, ret>>,
         cond' = NoCond \/ (cond' = cond /\ (ctl = "thrown" => ctl' = "thrown"))
  PROVE  StepOK
<1>1. CASE cond' = NoCond
  <2>1. KInv'
    BY <1>1, NoCondOK DEF KInv, ShownOK
  <2>2. Conditions!Break
    BY <1>1, NoCondOK, Mapped DEF Conditions!Break
  <2> QED BY <2>1, <2>2 DEF StepOK, Conditions!Next
<1>2. CASE cond' = cond /\ (ctl = "thrown" => ctl' = "thrown")
  BY <1>2, KeepStep DEF Same
<1> QED BY <1>1, <1>2

\* [if] and [ignore], also with an expression that throws.
LEMMA IfKept ==
  ASSUME KInv, NEW c \in BOOLEAN, NEW b \in BOOLEAN, If(c, b)
  PROVE  StepOK
<1>1. ctl # "thrown" /\ cond' = AfterIf(cond, b) /\ UNCHANGED <<calls, saved, ret>>
  BY DEF If, Handle, Tag, Reading, Parses
<1>2. CondOK(cond)
  BY <1>1 DEF KInv
<1>3. KInv'
  BY <1>1, <1>2, IfStep DEF KInv
<1>4. Conditions!If(b)
  <2>1. CondsOf(cond)' = Append(CondsOf(cond), IF cond.exclude # -1 THEN "skip" ELSE IF b THEN "in" ELSE "wait")
    BY <1>1, <1>2, IfStep, Mapped
  <2>2. Conditions!Shown(CondsOf(cond)) <=> cond.exclude = -1
    BY <1>2, ShownAll
  <2> QED BY <1>1, <2>1, <2>2, Mapped DEF Conditions!If
<1> QED BY <1>3, <1>4 DEF StepOK, Conditions!Next

\* An expression that throws leaves the conditions of its [if] half made.
LEMMA ThrowKept ==
  ASSUME KInv, NEW c \in BOOLEAN, ExpressionThrows(c)
  PROVE  StepOK
<1>1. /\ ctl # "thrown" /\ ctl' = "thrown" /\ UNCHANGED <<calls, saved, ret>>
      /\ \/ cond' = cond
         \/ Shown /\ cond' = [AfterIf(cond, TRUE) EXCEPT !.executed = Append(cond.executed, FALSE)]
  BY DEF ExpressionThrows, Handle, Tag, Reading, Throws
<1>2. CASE cond' = cond
  BY <1>1, <1>2, KeepStep DEF Same
<1>3. CASE Shown /\ cond' = [AfterIf(cond, TRUE) EXCEPT !.executed = Append(cond.executed, FALSE)]
  <2>1. CondOK(cond)
    BY <1>1 DEF KInv
  <2>2. /\ CondsOf(AfterIf(cond, TRUE)) = Append(CondsOf(cond), "in")
        /\ CondOK(AfterIf(cond, TRUE))
    BY <1>3, <2>1, IfStep DEF Shown
  <2>3. cond'.stack = AfterIf(cond, TRUE).stack /\ cond'.exclude = -1 /\ AfterIf(cond, TRUE).exclude = -1
    BY <1>3 DEF AfterIf, Shown
  <2>4. DOMAIN AfterIf(cond, TRUE).stack \subseteq Nat
    <3>1. AfterIf(cond, TRUE).stack \in Seq(Int)
      BY <2>2 DEF CondOK, Cond
    <3>2. \A k \in Seq(Int) : DOMAIN k \subseteq Nat
      OBVIOUS
    <3> QED BY <3>1, <3>2, Zenon
  <2>5. CondsOf(cond)' = CondsOf(AfterIf(cond, TRUE))
    <3>1. \A i \in DOMAIN AfterIf(cond, TRUE).stack : i # -1
      <4>1. \A i \in Nat : i # -1
        OBVIOUS
      <4> QED BY <2>4, <4>1
    <3>2. CondsOf(cond') = [i \in DOMAIN AfterIf(cond, TRUE).stack |->
                             IF AfterIf(cond, TRUE).stack[i] # -1 THEN "skip" ELSE "in"]
      BY <2>3, <3>1 DEF CondsOf
    <3>3. CondsOf(AfterIf(cond, TRUE)) = [i \in DOMAIN AfterIf(cond, TRUE).stack |->
                             IF AfterIf(cond, TRUE).stack[i] # -1 THEN "skip" ELSE "in"]
      BY <2>3, <3>1 DEF CondsOf
    <3> QED BY <3>2, <3>3, Mapped
  <2>6. Conditions!Shown(CondsOf(cond))
    BY <1>3, <2>1, ShownAll DEF Shown
  <2>7. Conditions!If(TRUE)
    BY <1>1, <2>2, <2>5, <2>6, Mapped DEF Conditions!If
  <2>8. KInv'
    BY <1>1 DEF KInv
  <2> QED BY <2>7, <2>8 DEF StepOK, Conditions!Next
<1> QED BY <1>1, <1>2, <1>3

\* [elsif] and [else].
LEMMA ElsifKept ==
  ASSUME KInv, NEW c \in BOOLEAN, NEW b \in BOOLEAN, Elsif(c, b)
  PROVE  StepOK
<1>1. ctl # "thrown" /\ cond' = AfterElsif(cond, b) /\ UNCHANGED <<calls, saved, ret>>
  BY DEF Elsif, Handle, Tag, Reading, Parses
<1>2. CondOK(cond)
  BY <1>1 DEF KInv
<1>3. CASE cond.level > 0
  <2>1. KInv'
    BY <1>1, <1>2, <1>3, ElsifStep DEF KInv
  <2>2. CondsOf(cond) # <<>>
    <3>1. Len(CondsOf(cond)) = cond.level /\ cond.level \in Nat
      BY <1>2, CondsOfSeq DEF CondOK, Cond
    <3> QED BY <1>3, <3>1
  <2>3. Conditions!Elsif(b)
    BY <1>1, <1>2, <1>3, <2>2, ElsifStep, Mapped DEF Conditions!Elsif
  <2> QED BY <2>1, <2>3 DEF StepOK, Conditions!Next
<1>4. CASE ~(cond.level > 0)
  BY <1>1, <1>2, <1>4, OutsideStep, KeepStep DEF Same
<1> QED BY <1>3, <1>4

\* [endif].
LEMMA EndifKept ==
  ASSUME KInv, NEW c \in BOOLEAN, Endif(c)
  PROVE  StepOK
<1>1. ctl # "thrown" /\ cond' = AfterEndif(cond) /\ UNCHANGED <<calls, saved, ret>>
  BY DEF Endif, Handle, Tag, Reading, Parses
<1>2. CondOK(cond)
  BY <1>1 DEF KInv
<1>3. CASE cond.level > 0
  <2>1. KInv'
    BY <1>1, <1>2, <1>3, EndifStep DEF KInv
  <2>2. CondsOf(cond) # <<>>
    <3>1. Len(CondsOf(cond)) = cond.level /\ cond.level \in Nat
      BY <1>2, CondsOfSeq DEF CondOK, Cond
    <3> QED BY <1>3, <3>1
  <2>3. Conditions!Endif
    BY <1>1, <1>2, <1>3, <2>2, EndifStep, Mapped DEF Conditions!Endif
  <2> QED BY <2>1, <2>3 DEF StepOK, Conditions!Next
<1>4. CASE ~(cond.level > 0)
  <2>1. KInv'
    BY <1>1, <1>2, <1>4, OutsideStep DEF KInv
  <2>2. CondsOf(cond)' = CondsOf(cond)
    BY <1>1, <1>2, <1>4, OutsideStep, Mapped
  <2> QED BY <1>1, <2>1, <2>2, Mapped DEF StepOK, Conditions!vars
<1> QED BY <1>3, <1>4

\* A frame is pushed, and the parser goes to a place or nowhere.
LEMMA CallStep ==
  ASSUME KInv, ctl # "thrown", NEW f, IsFrame(f), f.cond = cond, calls' = Append(calls, f),
         cond' \in {NoCond, cond}, UNCHANGED <<saved, ret>>
  PROVE  StepOK
<1>1. CondOK(cond) /\ CallsOK(calls)
  BY DEF KInv
<1>2. /\ CallsOK(calls')
      /\ FramesOf(calls') = Append(FramesOf(calls), CondsOf(cond))
  BY <1>1, FramesPush
<1>3. KInv'
  BY <1>1, <1>2, NoCondOK DEF KInv, ShownOK
<1>4. CondsOf(cond)' \in {<<>>, CondsOf(cond)}
  BY NoCondOK, Mapped
<1>5. Conditions!Call
  BY <1>2, <1>4, Mapped DEF Conditions!Call
<1> QED BY <1>3, <1>5 DEF StepOK, Conditions!Next

\* A frame is dropped, and its conditions come back, or none.
LEMMA ReturnStep ==
  ASSUME KInv, calls # <<>>, calls' = Front1(calls),
         cond' \in {NoCond, Last1(calls).cond}, UNCHANGED <<saved, ret>>
  PROVE  StepOK
<1>1. CallsOK(calls)
  BY DEF KInv
<1>2. /\ CallsOK(calls') /\ CondOK(Last1(calls).cond)
      /\ FramesOf(calls) # <<>>
      /\ FramesOf(calls)[Len(FramesOf(calls))] = CondsOf(Last1(calls).cond)
      /\ FramesOf(calls') = SubSeq(FramesOf(calls), 1, Len(FramesOf(calls)) - 1)
  BY <1>1, FramesPop
<1>3. KInv'
  BY <1>1, <1>2, NoCondOK DEF KInv, ShownOK
<1>4. CondsOf(cond)' \in {<<>>, FramesOf(calls)[Len(FramesOf(calls))]}
  BY <1>2, NoCondOK, Mapped
<1>5. Conditions!Return
  BY <1>2, <1>4, Mapped DEF Conditions!Return
<1> QED BY <1>3, <1>5 DEF StepOK, Conditions!Next

\* No callers.
LEMMA NoCalls == CallsOK(<<>>) /\ FramesOf(<<>>) = <<>>
<1>1. <<>> \in Seq({}) /\ Len(<<>>) = 0
  OBVIOUS
<1> QED BY <1>1 DEF CallsOK, Frames, FramesOf

\* The call stack is cleared.
LEMMA ClearStep ==
  ASSUME KInv, calls' = <<>>, UNCHANGED <<saved, ret>>,
         cond' = NoCond \/ (cond' = cond /\ ctl # "thrown")
  PROVE  StepOK
<1>1. KInv'
  BY NoCondOK, NoCalls DEF KInv, ShownOK
<1>2. CondsOf(cond)' \in {<<>>, CondsOf(cond)} /\ FramesOf(calls)' = <<>>
  BY NoCondOK, NoCalls, Mapped
<1>3. Conditions!ClearCalls
  BY <1>2 DEF Conditions!ClearCalls
<1> QED BY <1>1, <1>3 DEF StepOK, Conditions!Next

\* A [return] to a place that is found ends the conditions.
LEMMA GoToBreaks ==
  ASSUME NEW storage, NEW target, storage # NoName \/ target # NoLabel,
         ~GoTo(at, storage, target).throws
  PROVE  GoTo(at, storage, target).breaks
  BY DEF GoTo

\* The conditions after a step to another place: as they were, or none.
LEMMA CondAfterOne ==
  ASSUME NEW g
  PROVE  CondAfter(g) \in {NoCond, cond}
  BY DEF CondAfter

\* A call keeps the conditions in its frame.
LEMMA PushedFrame ==
  ASSUME NEW a
  PROVE  \E f : IsFrame(f) /\ f.cond = cond /\ PushCallStack(a) = Append(calls, f)
<1>1. ASSUME NEW u, NEW v, NEW w, NEW x, NEW y, NEW z, NEW p, NEW q, NEW r, NEW s
      PROVE  LET f == [storage |-> u, label |-> v, offset |-> w, org |-> x, buffer |-> y, pos |-> z,
                       using |-> p, base |-> q, depth |-> r, cond |-> cond, site |-> s]
             IN IsFrame(f) /\ f.cond = cond
  BY DEF IsFrame
<1> QED BY <1>1, ZenonT(30) DEF PushCallStack

\* Jumps, calls and returns.
LEMMA JumpsKept ==
  ASSUME KInv, Jump \/ Call \/ ReturnTo \/ ReturnBack
  PROVE  StepOK
<1>1. ctl # "thrown"
  BY DEF Jump, Call, ReturnTo, ReturnBack, Asked
<1>2. CASE Jump
  <2>1. PICK g : cond' = CondAfter(g)
    BY <1>2 DEF Jump
  <2>2. UNCHANGED <<calls, saved, ret>>
    BY <1>2 DEF Jump, Arrives
  <2> QED BY <1>1, <2>1, <2>2, CondAfterOne, BreakStep
<1>3. CASE Call
  <2>1. PICK next, g : calls' = PushCallStack(next) /\ cond' = CondAfter(g)
    BY <1>3 DEF Call
  <2>2. UNCHANGED <<saved, ret>>
    BY <1>3 DEF Call, Arrives
  <2>3. PICK f : IsFrame(f) /\ f.cond = cond /\ calls' = Append(calls, f)
    BY <2>1, PushedFrame
  <2> QED BY <1>1, <2>1, <2>2, <2>3, CondAfterOne, CallStep
<1>4. CASE ReturnTo
  <2>1. PICK g : /\ g = GoTo(at, Current.storage, Current.target)
                 /\ cond' = CondAfter(g) /\ calls' = IF g.throws THEN calls ELSE Front1(calls)
    BY <1>4 DEF ReturnTo
  <2>2. UNCHANGED <<saved, ret>> /\ calls # <<>> /\ (Current.storage # NoName \/ Current.target # NoLabel)
    BY <1>4 DEF ReturnTo, Arrives
  <2>3. CASE g.throws
    BY <1>1, <2>1, <2>2, <2>3, CondAfterOne, BreakStep
  <2>4. CASE ~g.throws
    <3>1. cond' = NoCond
      BY <2>1, <2>2, <2>4, GoToBreaks DEF CondAfter
    <3> QED BY <2>1, <2>2, <2>4, <3>1, ReturnStep
  <2> QED BY <2>3, <2>4
<1>5. CASE ReturnBack
  <2>1. PICK p : /\ cond' = (IF p.throws THEN NoCond ELSE Last1(calls).cond)
                 /\ calls' = IF p.throws THEN calls ELSE Front1(calls)
    BY <1>5 DEF ReturnBack
  <2>2. UNCHANGED <<saved, ret>> /\ calls # <<>>
    BY <1>5 DEF ReturnBack, Arrives
  <2>3. CASE p.throws
    BY <2>1, <2>2, <2>3, BreakStep
  <2>4. CASE ~p.throws
    BY <2>1, <2>2, <2>4, ReturnStep
  <2> QED BY <2>3, <2>4
<1> QED BY <1>2, <1>3, <1>4, <1>5

\* What getNextTag does besides leaves the conditions and the calls alone.
LEMMA ReadingKept ==
  ASSUME KInv, NEW c \in BOOLEAN,
         \/ ParseStart \/ ReturnInterrupt \/ EndOfScenario
         \/ Skip \/ SkipComment \/ SkipLabel \/ SkipScript \/ SkipDone
         \/ LineEndsSilently \/ LineEnds \/ Character
         \/ RecordTag(c) \/ ReturnTag(c) \/ SkipTag(c)
         \/ \E text \in EmbTexts \cup {macros[m] : m \in DOMAIN macros} : Expand(c, text)
         \/ Macro(c) \/ EndMacro(c) \/ PopMacroArgs(c) \/ EraseMacro(c)
         \/ Ask(c) \/ TagThrows \/ Declined \/ ReturnUnderflow
  PROVE  StepOK
<1> USE DEF Same
<1>1. CASE ParseStart \/ ReturnInterrupt \/ EndOfScenario
  <2>1. Same /\ ctl # "thrown" /\ (ret' = ret \/ ret' \in {"none", "end", "interrupt"})
    BY <1>1 DEF ParseStart, ReturnInterrupt, EndOfScenario, Returns, Parses
  <2> QED BY <2>1, KeepStep, NoShowStep
<1>2. CASE Skip \/ SkipComment \/ SkipLabel \/ SkipScript \/ SkipDone
  <2>1. Same /\ ctl # "thrown" /\ ret' = ret
    BY <1>2 DEF Skip, SkipComment, SkipLabel, SkipScript, SkipDone, Skipping, Throws
  <2> QED BY <2>1, KeepStep
<1>3. CASE LineEndsSilently
  <2>1. Same /\ ctl # "thrown" /\ ret' = ret
    BY <1>3 DEF LineEndsSilently, Reading, Parses
  <2> QED BY <2>1, KeepStep
<1>4. CASE LineEnds \/ Character \/ ReturnTag(c)
  <2>1. Same /\ ctl # "thrown" /\ (ret' = ret \/ (Shown /\ ret' \in {"tag", "r"}))
    BY <1>4 DEF LineEnds, Character, ReturnTag, Tag, Live, Reading, Returns, Parses
  <2> QED BY <2>1, KeepStep, ShowStep
<1>5. CASE RecordTag(c) \/ SkipTag(c)
  <2>1. Same /\ ctl # "thrown" /\ ret' = ret
    BY <1>5 DEF RecordTag, SkipTag, Tag, Reading, Parses
  <2> QED BY <2>1, KeepStep
<1>6. ASSUME NEW text, Expand(c, text) PROVE StepOK
  <2>1. Same /\ ctl # "thrown" /\ ret' = ret
    BY <1>6 DEF Expand, Tag, Reading, Parses
  <2> QED BY <2>1, KeepStep
<1>7. CASE Macro(c) \/ EndMacro(c) \/ PopMacroArgs(c) \/ EraseMacro(c)
  <2>1. Same /\ ctl # "thrown" /\ ret' = ret
    BY <1>7 DEF Macro, EndMacro, PopMacroArgs, EraseMacro, Handle, Tag, Reading, Parses, Throws
  <2> QED BY <2>1, KeepStep
<1>8. CASE Ask(c) \/ TagThrows \/ Declined \/ ReturnUnderflow
  <2>1. Same /\ ctl # "thrown" /\ ret' = ret
    BY <1>8 DEF Ask, TagThrows, Declined, ReturnUnderflow, Handle, Tag, Reading, Asked, Parses, Throws
  <2> QED BY <2>1, KeepStep
<1> QED BY <1>1, <1>2, <1>3, <1>4, <1>5, <1>6, <1>7, <1>8

\* store(): nothing but shown text is stored.
LEMMA StoreKept ==
  ASSUME KInv, ~StoreWhenHidden, Store
  PROVE  StepOK
<1>1. /\ ctl # "thrown" /\ UNCHANGED <<cond, calls, ret, ctl>> /\ AllShown
  BY DEF Store, Moves, InScript
<1>2. PICK d : saved' = <<d>> /\ d.cond = cond /\ d.calls = calls
  BY DEF Store
<1>3. CondOK(cond) /\ cond.exclude = -1 /\ CallsOK(calls)
  BY <1>1 DEF KInv, AllShown, Shown
<1>4. \A i \in 1 .. Len(calls) : calls[i].cond.exclude = -1
  <2>1. PICK S : calls \in Seq(S)
    BY <1>3 DEF CallsOK, Frames
  <2>2. DOMAIN calls = 1 .. Len(calls)
    BY <2>1
  <2> QED BY <1>1, <2>2 DEF AllShown
<1>5. KInv'
  <2>1. ShownOK(d.cond) /\ CallsOK(d.calls) /\ \A i \in 1 .. Len(d.calls) : d.calls[i].cond.exclude = -1
    BY <1>2, <1>3, <1>4 DEF ShownOK
  <2> QED BY <1>1, <1>2, <1>3, <2>1 DEF KInv
<1>6. Conditions!Store
  <2>1. /\ DOMAIN saved' = {1} /\ saved'[1] = d
    BY <1>2
  <2>2. [i \in DOMAIN saved' |-> <<CondsOf(saved'[i].cond), FramesOf(saved'[i].calls)>>]
           = <<<<CondsOf(cond), FramesOf(calls)>>>>
    BY <1>2, <2>1
  <2>3. [i \in DOMAIN saved |-> <<CondsOf(saved[i].cond), FramesOf(saved[i].calls)>>]'
           = <<<<CondsOf(cond), FramesOf(calls)>>>>
    BY <2>2 DEF CondsOf, FramesOf
  <2> QED BY <1>1, <2>3, Mapped DEF Conditions!Store
<1> QED BY <1>5, <1>6 DEF StepOK, Conditions!Next

\* restore(): what was stored comes back.
LEMMA RestoreKept ==
  ASSUME KInv, Restore
  PROVE  StepOK
<1>1. PICK g : /\ calls' = [i \in DOMAIN saved[1].calls |-> [saved[1].calls[i] EXCEPT !.cond = Restored(@)]]
               /\ cond' = IF g.throws THEN NoCond ELSE Restored(saved[1].cond)
  BY DEF Restore
<1>2. UNCHANGED <<saved, ret>> /\ saved # <<>>
  BY DEF Restore, Back
<1>3. PICK d : /\ saved = <<d>> /\ ShownOK(d.cond) /\ CallsOK(d.calls)
               /\ \A i \in 1 .. Len(d.calls) : d.calls[i].cond.exclude = -1
  BY <1>2 DEF KInv
<1>4. saved[1] = d /\ DOMAIN saved = {1}
  BY <1>3
<1>5. PICK S : d.calls \in Seq(S)
  BY <1>3 DEF CallsOK, Frames
<1> DEFINE n == Len(d.calls)
           k == [i \in 1 .. n |-> [d.calls[i] EXCEPT !.cond = Restored(@)]]
<1>6. n \in Nat /\ DOMAIN d.calls = 1 .. n
  BY <1>5
<1>7. ASSUME NEW i \in 1 .. n PROVE k[i] = d.calls[i]
  <2>1. IsFrame(d.calls[i]) /\ Restored(d.calls[i].cond) = d.calls[i].cond
    BY <1>3, RestoredShown DEF ShownOK, CallsOK
  <2>2. k[i] = [d.calls[i] EXCEPT !.cond = d.calls[i].cond]
    BY <2>1
  <2> QED BY <2>1, <2>2 DEF IsFrame
<1> HIDE DEF n
<1>8. calls' = d.calls
  <2>1. calls' = k
    BY <1>1, <1>4, <1>6
  <2>2. d.calls = [i \in 1 .. n |-> d.calls[i]]
    BY <1>5, <1>6
  <2> QED BY <1>7, <2>1, <2>2
<1>9. cond' \in {NoCond, d.cond}
  BY <1>1, <1>3, <1>4, RestoredShown
<1>10. KInv'
  BY <1>2, <1>3, <1>8, <1>9, NoCondOK DEF KInv, ShownOK
<1>11. Conditions!Restore
  <2> DEFINE m == [i \in DOMAIN saved |-> <<CondsOf(saved[i].cond), FramesOf(saved[i].calls)>>]
  <2>1. m # <<>> /\ m[1] = <<CondsOf(d.cond), FramesOf(d.calls)>>
    BY <1>4
  <2>2. m' = m
    BY <1>2 DEF CondsOf, FramesOf
  <2> HIDE DEF m
  <2>3. FramesOf(calls)' = m[1][2]
    BY <1>8, <2>1, Mapped
  <2>4. CondsOf(cond)' \in {<<>>, m[1][1]}
    BY <1>9, <2>1, NoCondOK, Mapped
  <2> QED BY <1>2, <2>1, <2>2, <2>3, <2>4 DEF Conditions!Restore, m
<1> QED BY <1>10, <1>11 DEF StepOK, Conditions!Next

\* The other methods.
LEMMA MethodsKept ==
  ASSUME KInv,
         \/ GetNextTag \/ CallbackReturns \/ AfterReturn
         \/ \E s \in DOMAIN program : LoadScenario(s)
         \/ \E l \in LabelsOf(program) : GoToLabel(l) \/ CallLabel(l)
         \/ Clear \/ ClearCallStack \/ Interrupt \/ ResetInterrupt,
         plan \in DOMAIN Plans
  PROVE  StepOK
<1>1. CASE GetNextTag
  <2>1. Same /\ ctl # "thrown" /\ ret' = "none"
    BY <1>1 DEF GetNextTag, Same
  <2> QED BY <2>1, NoShowStep
<1>2. CASE CallbackReturns \/ AfterReturn \/ Interrupt \/ ResetInterrupt
  <2>1. Same /\ ctl # "thrown" /\ ret' = ret
    BY <1>2 DEF CallbackReturns, AfterReturn, Interrupt, ResetInterrupt, Moves, InScript, Same
  <2> QED BY <2>1, KeepStep
<1>3. ASSUME NEW s, LoadScenario(s) PROVE StepOK
  <2>1. cond' = NoCond /\ UNCHANGED <<calls, saved, ret>>
    BY <1>3 DEF LoadScenario, Back
  <2> QED BY <2>1, BreakStep
<1>4. ASSUME NEW l \in LabelsOf(program), GoToLabel(l) PROVE StepOK
  <2>1. PICK g : /\ g = GoTo(at, NoName, l)
                 /\ cond' = CondAfter(g) /\ ctl' = (IF g.throws THEN "thrown" ELSE IF ctl = "thrown" THEN "script" ELSE ctl)
    BY <1>4 DEF GoToLabel, Back
  <2>2. UNCHANGED <<calls, saved, ret>>
    BY <1>4 DEF GoToLabel, Back
  <2>3. l # NoLabel
    BY KagAssumption DEF LabelsOf, NoLabel, program
  <2>4. CASE g.throws
    BY <2>1, <2>2, <2>4, CondAfterOne, BreakStep
  <2>5. CASE ~g.throws
    <3>1. cond' = NoCond
      BY <2>1, <2>3, <2>5, GoToBreaks DEF CondAfter
    <3> QED BY <2>2, <3>1, BreakStep
  <2> QED BY <2>4, <2>5
<1>5. ASSUME NEW l, CallLabel(l) PROVE StepOK
  <2>1. PICK g : calls' = PushCallStack(at) /\ cond' = CondAfter(g)
    BY <1>5 DEF CallLabel
  <2>2. UNCHANGED <<saved, ret>> /\ ctl # "thrown"
    BY <1>5 DEF CallLabel, Back, Moves, MayMove
  <2>3. PICK f : IsFrame(f) /\ f.cond = cond /\ calls' = Append(calls, f)
    BY <2>1, PushedFrame
  <2> QED BY <2>1, <2>2, <2>3, CondAfterOne, CallStep
<1>6. CASE Clear \/ ClearCallStack
  <2>1. /\ calls' = <<>> /\ UNCHANGED <<saved, ret>>
        /\ cond' = NoCond \/ (cond' = cond /\ ctl # "thrown")
    BY <1>6 DEF Clear, ClearCallStack, Back, Moves, InScript
  <2> QED BY <2>1, ClearStep
<1> QED BY <1>1, <1>2, <1>3, <1>4, <1>5, <1>6

-----------------------------------------------------------------------------
\* The parser starts like KagConditions.
LEMMA Starts == Init => KInv /\ plan \in DOMAIN Plans /\ Conditions!Init
<1> SUFFICES ASSUME Init PROVE KInv /\ plan \in DOMAIN Plans /\ Conditions!Init
  OBVIOUS
<1>1. cond = NoCond /\ calls = <<>> /\ saved = <<>> /\ ret = "none" /\ plan \in DOMAIN Plans
  BY DEF Init
<1>2. [i \in DOMAIN saved |-> <<CondsOf(saved[i].cond), FramesOf(saved[i].calls)>>] = <<>>
  BY <1>1
<1> QED BY <1>1, <1>2, NoCondOK, NoCalls DEF KInv, ShownOK, Conditions!Init

\* Every step of the parser.
LEMMA Steps ==
  ASSUME ~StoreWhenHidden, KInv, plan \in DOMAIN Plans, [Next]_vars
  PROVE  StepOK /\ plan' \in DOMAIN Plans
<1>1. CASE GetNextTagStep
  <2>1. plan' = plan
    BY <1>1
    DEF GetNextTagStep, ParseStart, ReturnInterrupt, EndOfScenario, Skip, SkipComment, SkipLabel, SkipScript,
        SkipDone, LineEndsSilently, LineEnds, Character, RecordTag, ReturnTag, SkipTag, If, Elsif, Endif,
        TagThrows, ExpressionThrows, Expand, Macro, EndMacro, PopMacroArgs, EraseMacro, Ask, Declined, Jump,
        Call, ReturnTo, ReturnBack, ReturnUnderflow
  <2>2. StepOK
    BY <1>1, ReadingKept, IfKept, ElsifKept, EndifKept, ThrowKept, JumpsKept DEF GetNextTagStep
  <2> QED BY <2>1, <2>2
<1>2. CASE Script
  <2>1. plan' = plan
    BY <1>2
    DEF Script, GetNextTag, CallbackReturns, AfterReturn, LoadScenario, GoToLabel, CallLabel, Clear, ClearCallStack,
        Interrupt, ResetInterrupt, Store, Restore
  <2>2. StepOK
    BY <1>2, MethodsKept, StoreKept, RestoreKept DEF Script
  <2> QED BY <2>1, <2>2
<1>3. CASE UNCHANGED vars
  <2>1. Same /\ ret' = ret /\ ctl' = ctl /\ plan' = plan
    BY <1>3 DEF vars, Same
  <2> QED BY <2>1, KeepStep
<1> QED BY <1>1, <1>2, <1>3 DEF Next

\* Conditions do what a scenario relies on, for every scenario, nesting, macro
\* and sequence of calls of the script that stores no state in skipped text:
\* GetNextTag, the call stack and Restore implement KagConditions.
THEOREM ConditionsImplemented ==
  ASSUME ~StoreWhenHidden
  PROVE  Spec => ImplementsConditions
<1>1. Init => KInv /\ plan \in DOMAIN Plans /\ Conditions!Init
  BY Starts
<1>2. KInv /\ plan \in DOMAIN Plans /\ [Next]_vars
        => KInv' /\ (plan \in DOMAIN Plans)' /\ [Conditions!Next]_(Conditions!vars)
  BY Steps DEF StepOK
<1> QED BY <1>1, <1>2, PTL DEF Spec, ImplementsConditions, Conditions!Spec
-----------------------------------------------------------------------------
(* Induction over the natural numbers, and what follows from it.            *)

\* No endless descent in the natural numbers.
LEMMA LessIsWellFounded == IsWellFoundedOn(OpToRel(<, Nat), Nat)
  BY NatLessThanWellFounded

\* A set of numbers that is not empty has a smallest one.
LEMMA HasSmallest ==
  ASSUME NEW T \in SUBSET Nat, T # {}
  PROVE  \E x \in T : \A y \in T : x <= y
<1>1. \E x \in T : \A y \in T : ~(<<y, x>> \in OpToRel(<, Nat))
  BY LessIsWellFounded, WFMin
<1>2. PICK x \in T : \A y \in T : ~(<<y, x>> \in OpToRel(<, Nat))
  BY <1>1
<1>3. ASSUME NEW y \in T PROVE x <= y
  <2>1. x \in Nat /\ y \in Nat
    OBVIOUS
  <2>2. ~(y < x)
    BY <1>2, <2>1 DEF OpToRel
  <2> QED BY <2>1, <2>2
<1> QED BY <1>3

\* A set of numbers that holds 0 and what follows each of its elements holds all.
LEMMA Induction ==
  ASSUME NEW S, 0 \in S, \A n \in Nat : n \in S => n + 1 \in S
  PROVE  \A n \in Nat : n \in S
<1> SUFFICES ASSUME Nat \ S # {} PROVE FALSE
  OBVIOUS
<1> DEFINE T == Nat \ S
<1>1. T \in SUBSET Nat /\ T # {}
  OBVIOUS
<1>2. \E x \in T : \A y \in T : x <= y
  <2> HIDE DEF T
  <2> QED BY <1>1, HasSmallest
<1>3. PICK x \in T : \A y \in T : x <= y
  BY <1>2
<1>4. x \in Nat /\ x # 0 /\ x - 1 \in Nat
  OBVIOUS
<1>5. x - 1 \in S
  BY <1>3, <1>4
<1> QED BY <1>4, <1>5

\* A set of numbers below another one that is not empty has a largest one.
LEMMA HasLargest ==
  ASSUME NEW n \in Nat, NEW B \in SUBSET (0 .. n - 1), B # {}
  PROVE  \E x \in B : \A y \in B : y <= x
<1> DEFINE T == {m \in Nat : \A y \in B : y <= m}
<1>1. T \in SUBSET Nat /\ n \in T
  OBVIOUS
<1>2. PICK m \in T : \A y \in T : m <= y
  BY <1>1, HasSmallest
<1>3. m \in Nat /\ \A y \in B : y <= m
  OBVIOUS
<1>4. m \in B
  <2> SUFFICES ASSUME m \notin B PROVE FALSE
    OBVIOUS
  <2>1. \A y \in B : y <= m - 1 /\ y \in Nat
    BY <1>3
  <2>2. m - 1 \in Nat
    <3>1. PICK b \in B : TRUE
      OBVIOUS
    <3> QED BY <1>3, <2>1, <3>1
  <2>3. m - 1 \in T
    BY <2>1, <2>2
  <2> QED BY <1>2, <1>3, <2>3
<1> QED BY <1>3, <1>4

-----------------------------------------------------------------------------
(* The table of labels.                                                     *)

NoLabels == [prev |-> NoLabel, cache |-> <<>>, aliases |-> <<>>]

CacheBody(lines, g, i) == IF i = 0 THEN NoLabels ELSE CacheLine(g[i - 1], lines[i], i - 1)

\* The table is made line by line.
LEMMA CacheExists ==
  ASSUME NEW lines, NEW n \in Nat
  PROVE  \E g : g = [i \in 0 .. n |-> CacheBody(lines, g, i)]
<1> DEFINE Has(m) == \E g : g = [i \in 0 .. m |-> CacheBody(lines, g, i)]
           S == {m \in Nat : Has(m)}
<1>1. Has(0)
  <2> DEFINE g == [i \in 0 .. 0 |-> NoLabels]
  <2>1. g = [i \in 0 .. 0 |-> CacheBody(lines, g, i)]
    BY DEF CacheBody
  <2> QED BY <2>1
<1>2. ASSUME NEW m \in Nat, Has(m) PROVE Has(m + 1)
  <2>1. PICK g : g = [i \in 0 .. m |-> CacheBody(lines, g, i)]
    BY <1>2
  <2> DEFINE h == [i \in 0 .. m + 1 |-> IF i <= m THEN g[i] ELSE CacheBody(lines, g, i)]
  <2>2. ASSUME NEW i \in 0 .. m + 1 PROVE CacheBody(lines, h, i) = CacheBody(lines, g, i)
    <3>1. CASE i = 0
      BY <3>1 DEF CacheBody
    <3>2. CASE i # 0
      <4>1. i - 1 \in 0 .. m /\ h[i - 1] = g[i - 1]
        BY <3>2
      <4> QED BY <3>2, <4>1 DEF CacheBody
    <3> QED BY <3>1, <3>2
  <2>3. ASSUME NEW i \in 0 .. m + 1 PROVE h[i] = CacheBody(lines, h, i)
    <3>1. CASE i <= m
      <4>1. i \in 0 .. m /\ h[i] = g[i]
        BY <3>1
      <4>2. g[i] = CacheBody(lines, g, i)
        BY <2>1, <4>1
      <4> QED BY <2>2, <4>1, <4>2
    <3>2. CASE ~(i <= m)
      BY <2>2, <3>2
    <3> QED BY <3>1, <3>2
  <2>4. h = [i \in 0 .. m + 1 |-> CacheBody(lines, h, i)]
    <3> DEFINE F == [i \in 0 .. m + 1 |-> CacheBody(lines, h, i)]
    <3>1. DOMAIN h = DOMAIN F /\ \A i \in DOMAIN h : h[i] = F[i]
      BY <2>3
    <3> QED BY <3>1
  <2> QED BY <2>4
<1>3. \A m \in Nat : m \in S
  <2>1. 0 \in S /\ \A m \in Nat : m \in S => m + 1 \in S
    BY <1>1, <1>2
  <2> HIDE DEF S
  <2> QED BY <2>1, Induction
<1> QED BY <1>3

\* The table behind line i is the one behind line i - 1 and what line i adds.
LEMMA CacheUnfolds ==
  ASSUME NEW lines, Len(lines) \in Nat
  PROVE  \E g : /\ EnsureLabelCache(lines) = g[Len(lines)]
                /\ g[0] = NoLabels
                /\ \A i \in 1 .. Len(lines) : g[i] = CacheLine(g[i - 1], lines[i], i - 1)
<1> DEFINE g == CHOOSE g : g = [i \in 0 .. Len(lines) |-> CacheBody(lines, g, i)]
<1>1. g = [i \in 0 .. Len(lines) |-> CacheBody(lines, g, i)]
  BY CacheExists
<1>2. EnsureLabelCache(lines) = g[Len(lines)]
  BY DEF EnsureLabelCache, CacheBody, NoLabels
<1> HIDE DEF g
<1>3. \A i \in 0 .. Len(lines) : g[i] = CacheBody(lines, g, i)
  BY <1>1
<1>4. g[0] = NoLabels /\ \A i \in 1 .. Len(lines) : g[i] = CacheLine(g[i - 1], lines[i], i - 1)
  BY <1>3 DEF CacheBody
<1> QED BY <1>2, <1>4

Entries == [line : Nat, count : Nat]

IsTable(c) == c = [prev |-> c.prev, cache |-> c.cache, aliases |-> c.aliases]

\* The alias of a line leads to it, or to a later line that has the same.
AliasesLead(c, n) ==
  \A j \in 1 .. n : c.aliases[j] # NoLabel =>
    /\ c.aliases[j] \in DOMAIN c.cache
    /\ \/ c.cache[c.aliases[j]].line = j - 1
       \/ \E k \in j + 1 .. n : c.aliases[k] = c.aliases[j]

\* The table after n lines.
CacheOK(c, n) ==
  /\ IsTable(c)
  /\ c.prev \in LabelNames /\ c.aliases \in Seq(LabelNames) /\ Len(c.aliases) = n
  /\ c.cache \in [DOMAIN c.cache -> Entries]
  /\ \A x \in DOMAIN c.cache : c.cache[x].line < n
  /\ AliasesLead(c, n)

\* A line keeps the entries there are, adds the name of its label, and no other.
LEMMA CacheLineKeeps ==
  ASSUME NEW n \in Nat, NEW c, CacheOK(c, n), NEW l \in LineSet
  PROVE  CacheOK(CacheLine(c, l, n), n + 1)
<1> DEFINE d == CacheLine(c, l, n)
<1>1. /\ c.prev \in LabelNames /\ c.aliases \in Seq(LabelNames) /\ Len(c.aliases) = n
      /\ c = [prev |-> c.prev, cache |-> c.cache, aliases |-> c.aliases]
      /\ l.name \in LabelNames /\ NoLabel \in LabelNames
  BY DEF CacheOK, IsTable, LineSet, LabelNames, NoLabel
<1>2. CASE l.kind # "label" \/ l.name = Bare
  <2>1. d = [c EXCEPT !.aliases = Append(@, NoLabel)]
    BY <1>2 DEF CacheLine
  <2>2. d = [prev |-> c.prev, cache |-> c.cache, aliases |-> Append(c.aliases, NoLabel)]
    BY <1>1, <2>1
  <2>3. d.prev = c.prev /\ d.cache = c.cache /\ d.aliases = Append(c.aliases, NoLabel)
    BY <2>2
  <2> HIDE DEF d
  <2>4. /\ d.aliases \in Seq(LabelNames) /\ Len(d.aliases) = n + 1
        /\ d.aliases[n + 1] = NoLabel /\ \A j \in 1 .. n : d.aliases[j] = c.aliases[j]
    BY <1>1, <2>3
  <2>5. \A x \in DOMAIN d.cache : d.cache[x].line < n + 1
    <3>1. \A x \in DOMAIN c.cache : c.cache[x].line \in Nat /\ c.cache[x].line < n
      BY DEF CacheOK, Entries
    <3> QED BY <2>3, <3>1
  <2>6. ASSUME NEW j \in 1 .. n + 1, d.aliases[j] # NoLabel
        PROVE  /\ d.aliases[j] \in DOMAIN d.cache
               /\ \/ d.cache[d.aliases[j]].line = j - 1
                  \/ \E k \in j + 1 .. n + 1 : d.aliases[k] = d.aliases[j]
    <3>1. j \in 1 .. n /\ d.aliases[j] = c.aliases[j] /\ c.aliases[j] # NoLabel
      BY <2>4, <2>6
    <3>2. /\ c.aliases[j] \in DOMAIN c.cache
          /\ \/ c.cache[c.aliases[j]].line = j - 1
             \/ \E k \in j + 1 .. n : c.aliases[k] = c.aliases[j]
      BY <3>1 DEF CacheOK, AliasesLead
    <3>3. \A k \in j + 1 .. n : k \in j + 1 .. n + 1 /\ d.aliases[k] = c.aliases[k]
      BY <2>4, <3>1
    <3> QED BY <2>3, <3>1, <3>2, <3>3
  <2>7. c.cache \in [DOMAIN c.cache -> Entries]
    BY DEF CacheOK
  <2>8. IsTable(d)
    BY <2>2, <2>3 DEF IsTable
  <2>9. d.prev \in LabelNames /\ d.cache \in [DOMAIN d.cache -> Entries]
    BY <1>1, <2>3, <2>7
  <2>10. AliasesLead(d, n + 1)
    BY <2>6 DEF AliasesLead
  <2>11. CacheOK(d, n + 1)
    BY <2>4, <2>5, <2>8, <2>9, <2>10 DEF CacheOK
  <2> QED BY <2>11 DEF d
<1>3. CASE ~(l.kind # "label" \/ l.name = Bare)
  <2> DEFINE name  == IF l.name = Omitted THEN c.prev ELSE l.name
             again == name \in DOMAIN c.cache
             count == IF again THEN c.cache[name].count + 1 ELSE 1
             alias == IF again THEN Alias(name, count) ELSE name
             seen  == IF again THEN [c.cache EXCEPT ![name].count = count] ELSE c.cache
  <2>1. d = [prev |-> name, cache |-> Put(seen, alias, [line |-> n, count |-> 1]),
             aliases |-> Append(c.aliases, alias)]
    BY <1>3 DEF CacheLine
  <2>2. name \in LabelNames
    BY <1>1
  <2>3. count \in Nat
    BY DEF CacheOK, Entries
  <2> HIDE DEF name, count
  <2>4. alias \in LabelNames
    BY <2>2, <2>3 DEF LabelNames, Alias
  <2>5. seen \in [DOMAIN c.cache -> Entries] /\ \A x \in DOMAIN c.cache : seen[x].line = c.cache[x].line
    <3>1. c.cache \in [DOMAIN c.cache -> Entries]
      BY DEF CacheOK
    <3>2. CASE again
      <4>1. name \in DOMAIN c.cache /\ c.cache[name] \in Entries
        BY <3>1, <3>2
      <4>2. [c.cache[name] EXCEPT !.count = count] \in Entries
            /\ [c.cache[name] EXCEPT !.count = count].line = c.cache[name].line
        BY <2>3, <4>1 DEF Entries
      <4>3. seen = [c.cache EXCEPT ![name] = [c.cache[name] EXCEPT !.count = count]]
        BY <3>2
      <4> HIDE DEF seen
      <4> QED BY <3>1, <4>1, <4>2, <4>3
    <3>3. CASE ~again
      BY <3>1, <3>3
    <3> QED BY <3>2, <3>3
  <2> HIDE DEF alias, seen, again
  <2>6. DOMAIN seen = DOMAIN c.cache
    BY <2>5
  <2>7. /\ d.prev = name /\ d.aliases = Append(c.aliases, alias)
        /\ d.cache = [x \in DOMAIN c.cache \cup {alias} |-> IF x = alias THEN [line |-> n, count |-> 1] ELSE seen[x]]
    BY <2>1, <2>6 DEF Put
  <2>8. IsTable(d)
    BY <2>1 DEF IsTable
  <2> HIDE DEF d
  <2>9. /\ d.aliases \in Seq(LabelNames) /\ Len(d.aliases) = n + 1
        /\ d.aliases[n + 1] = alias /\ \A j \in 1 .. n : d.aliases[j] = c.aliases[j]
    BY <1>1, <2>4, <2>7
  <2>10. /\ DOMAIN d.cache = DOMAIN c.cache \cup {alias}
         /\ d.cache[alias] = [line |-> n, count |-> 1]
         /\ \A x \in DOMAIN c.cache : x # alias => d.cache[x] = seen[x]
    BY <2>7
  <2>11. \A x \in DOMAIN d.cache : d.cache[x] \in Entries
    <3>1. [line |-> n, count |-> 1] \in Entries
      BY DEF Entries
    <3> QED BY <2>5, <2>10, <3>1
  <2>12. d.cache \in [DOMAIN d.cache -> Entries]
    BY <2>7, <2>10, <2>11
  <2>13. \A x \in DOMAIN c.cache : x # alias => d.cache[x].line = c.cache[x].line
    BY <2>5, <2>10
  <2>14. \A x \in DOMAIN d.cache : d.cache[x].line < n + 1
    <3>1. \A x \in DOMAIN c.cache : c.cache[x].line \in Nat /\ c.cache[x].line < n
      BY DEF CacheOK, Entries
    <3>2. d.cache[alias].line = n
      BY <2>10
    <3> QED BY <2>10, <2>13, <3>1, <3>2
  <2>15. ASSUME NEW j \in 1 .. n + 1, d.aliases[j] # NoLabel
         PROVE  /\ d.aliases[j] \in DOMAIN d.cache
                /\ \/ d.cache[d.aliases[j]].line = j - 1
                   \/ \E k \in j + 1 .. n + 1 : d.aliases[k] = d.aliases[j]
    <3>1. CASE j = n + 1
      BY <2>9, <2>10, <3>1
    <3>2. CASE j \in 1 .. n
      <4>1. d.aliases[j] = c.aliases[j] /\ c.aliases[j] # NoLabel
        BY <2>9, <2>15, <3>2
      <4>2. /\ c.aliases[j] \in DOMAIN c.cache
            /\ \/ c.cache[c.aliases[j]].line = j - 1
               \/ \E k \in j + 1 .. n : c.aliases[k] = c.aliases[j]
        BY <3>2, <4>1 DEF CacheOK, AliasesLead
      <4>3. \A k \in j + 1 .. n : k \in j + 1 .. n + 1 /\ d.aliases[k] = c.aliases[k]
        BY <2>9, <3>2
      <4>4. CASE c.aliases[j] = alias
        <5>1. n + 1 \in j + 1 .. n + 1 /\ d.aliases[n + 1] = d.aliases[j]
          BY <2>9, <3>2, <4>1, <4>4
        <5> QED BY <2>10, <4>1, <4>2, <5>1
      <4>5. CASE c.aliases[j] # alias
        <5>1. d.cache[c.aliases[j]].line = c.cache[c.aliases[j]].line
          BY <2>13, <4>2, <4>5
        <5> QED BY <2>10, <4>1, <4>2, <4>3, <5>1
      <4> QED BY <4>4, <4>5
    <3> QED BY <3>1, <3>2
  <2>16. d.prev \in LabelNames
    BY <2>2, <2>7
  <2>17. AliasesLead(d, n + 1)
    BY <2>15 DEF AliasesLead
  <2>18. CacheOK(d, n + 1)
    BY <2>8, <2>9, <2>12, <2>14, <2>16, <2>17 DEF CacheOK
  <2> QED BY <2>18 DEF d
<1> QED BY <1>2, <1>3

\* The table of a scenario.
LEMMA TableOK ==
  ASSUME NEW lines \in Seq(LineSet)
  PROVE  CacheOK(EnsureLabelCache(lines), Len(lines))
<1> DEFINE N == Len(lines)
<1>1. N \in Nat /\ \A i \in 1 .. N : lines[i] \in LineSet
  OBVIOUS
<1>2. PICK g : /\ EnsureLabelCache(lines) = g[N]
               /\ g[0] = NoLabels
               /\ \A i \in 1 .. N : g[i] = CacheLine(g[i - 1], lines[i], i - 1)
  BY <1>1, CacheUnfolds
<1> HIDE DEF N
<1> DEFINE S == {i \in Nat : i <= N => CacheOK(g[i], i)}
<1>3. 0 \in S
  <2>1. NoLabels.prev = <<>> /\ NoLabels.cache = <<>> /\ NoLabels.aliases = <<>>
    BY DEF NoLabels, NoLabel
  <2>2. IsTable(NoLabels)
    BY DEF NoLabels, IsTable
  <2>3. CacheOK(NoLabels, 0)
    BY <2>1, <2>2 DEF CacheOK, AliasesLead, LabelNames
  <2> QED BY <1>2, <2>3
<1>4. ASSUME NEW i \in Nat, i \in S PROVE i + 1 \in S
  <2> SUFFICES ASSUME i + 1 <= N PROVE CacheOK(g[i + 1], i + 1)
    OBVIOUS
  <2>1. i + 1 \in 1 .. N /\ i <= N /\ (i + 1) - 1 = i
    BY <1>1
  <2>2. g[i + 1] = CacheLine(g[i], lines[i + 1], i) /\ CacheOK(g[i], i)
    BY <1>2, <1>4, <2>1
  <2>3. lines[i + 1] \in LineSet
    BY <1>1, <2>1
  <2> QED BY <2>2, <2>3, CacheLineKeeps
<1>5. \A i \in Nat : i \in S
  <2> HIDE DEF S
  <2> QED BY <1>3, <1>4, Induction
<1> QED BY <1>1, <1>2, <1>5 DEF N

-----------------------------------------------------------------------------
(* Places.                                                                  *)

LinesOf(p, s) == Plans[p].scenario[s]

PlaceSet(p) == [storage : DOMAIN Plans[p].scenario \cup {NoName}, line : Nat, pos : Nat,
                buffer : Seq(TagSet), using : BOOLEAN]

TextIn(p, a) == IF a.using THEN a.buffer ELSE LinesOf(p, a.storage)[a.line + 1].tags

\* A place in a text of so many lines is in the text of its line, and the tags
\* of that text end within the scenario.
InText(text, a, lines) ==
  /\ a.pos <= Len(text)
  /\ \A i \in 1 .. Len(text) : a.line + 1 + text[i].more <= lines

PlaceIn(p, a) ==
  /\ a \in PlaceSet(p)
  /\ a.storage = NoName => a = Nowhere
  /\ a.storage # NoName => a.line <= Len(LinesOf(p, a.storage))
  /\ a.storage # NoName /\ a.line < Len(LinesOf(p, a.storage)) =>
       InText(TextIn(p, a), a, Len(LinesOf(p, a.storage)))

\* Every storage has a sequence of lines.
LEMMA LinesKnown ==
  ASSUME NEW p \in DOMAIN Plans, NEW s \in DOMAIN Plans[p].scenario
  PROVE  /\ LinesOf(p, s) \in Seq(LineSet) /\ Len(LinesOf(p, s)) \in Nat
         /\ \A i \in 1 .. Len(LinesOf(p, s)) : LinesOf(p, s)[i] \in LineSet
         /\ Tables[p][s] = EnsureLabelCache(LinesOf(p, s))
<1>1. LinesOf(p, s) \in Seq(LineSet)
  BY KagAssumption DEF LinesOf
<1>2. Tables[p][s] = EnsureLabelCache(LinesOf(p, s))
  BY DEF Tables, LinesOf
<1> QED BY <1>1, <1>2

\* The table leads to a line there is.
LEMMA CachedLine ==
  ASSUME NEW p \in DOMAIN Plans, NEW s \in DOMAIN Plans[p].scenario,
         NEW x \in DOMAIN Tables[p][s].cache
  PROVE  /\ Tables[p][s].cache[x].line \in 0 .. Len(LinesOf(p, s)) - 1
         /\ Tables[p][s].aliases[Tables[p][s].cache[x].line + 1] \in LabelNames
<1> DEFINE t == Tables[p][s]
           n == Len(LinesOf(p, s))
<1>1. CacheOK(t, n) /\ n \in Nat
  BY LinesKnown, TableOK
<1> HIDE DEF t, n
<1>2. x \in DOMAIN t.cache
  BY DEF t
<1>3. t.cache[x].line \in Nat /\ t.cache[x].line < n
  BY <1>1, <1>2 DEF CacheOK, Entries
<1>4. t.aliases \in Seq(LabelNames) /\ Len(t.aliases) = n
  BY <1>1 DEF CacheOK
<1>5. t.aliases[t.cache[x].line + 1] \in LabelNames
  BY <1>1, <1>3, <1>4
<1> QED BY <1>1, <1>3, <1>5 DEF t, n

\* The alias of a label leads to its line.
LEMMA LabelLeads ==
  ASSUME WellFormed, NEW p \in DOMAIN Plans, NEW s \in DOMAIN Plans[p].scenario,
         NEW i \in 1 .. Len(LinesOf(p, s)), LinesOf(p, s)[i].kind = "label"
  PROVE  LET t == Tables[p][s]
         IN  /\ t.aliases[i] \in LabelNames /\ t.aliases[i] # NoLabel
             /\ t.aliases[i] \in DOMAIN t.cache /\ t.cache[t.aliases[i]].line = i - 1
<1> DEFINE t == Tables[p][s]
           n == Len(LinesOf(p, s))
<1>1. CacheOK(t, n) /\ n \in Nat
  BY LinesKnown, TableOK
<1>2. t.aliases[i] # NoLabel /\ \A j \in 1 .. n \ {i} : t.aliases[j] # t.aliases[i]
  BY DEF WellFormed, LinesOf
<1>3. ASSUME NEW k \in i + 1 .. n PROVE t.aliases[k] # t.aliases[i]
  BY <1>1, <1>2
<1> QED BY <1>1, <1>2, <1>3 DEF CacheOK, AliasesLead

\* Every line has a sequence of tags.
LEMMA TagsKnown ==
  ASSUME WellFormed, NEW p \in DOMAIN Plans, NEW s \in DOMAIN Plans[p].scenario,
         NEW i \in 1 .. Len(LinesOf(p, s))
  PROVE  /\ LinesOf(p, s)[i].tags \in Seq(TagSet)
         /\ \A k \in 1 .. Len(LinesOf(p, s)[i].tags) : i + LinesOf(p, s)[i].tags[k].more <= Len(LinesOf(p, s))
<1>1. LinesOf(p, s)[i] \in LineSet
  BY LinesKnown
<1>2. LinesOf(p, s)[i].tags \in Seq(TagSet)
  BY <1>1 DEF LineSet
<1> QED BY <1>2 DEF WellFormed, LinesOf

\* A place with another line or position is a place.
LEMMA PlaceExcept ==
  ASSUME NEW p, NEW a \in PlaceSet(p)
  PROVE  /\ \A n \in Nat :
              /\ [a EXCEPT !.line = n] \in PlaceSet(p)
              /\ [a EXCEPT !.line = n].line = n
              /\ [a EXCEPT !.line = n].storage = a.storage
              /\ [a EXCEPT !.line = n].pos = a.pos
              /\ [a EXCEPT !.line = n].buffer = a.buffer
              /\ [a EXCEPT !.line = n].using = a.using
         /\ \A n \in Nat :
              /\ [a EXCEPT !.pos = n] \in PlaceSet(p)
              /\ [a EXCEPT !.pos = n].pos = n
              /\ [a EXCEPT !.pos = n].storage = a.storage
              /\ [a EXCEPT !.pos = n].line = a.line
              /\ [a EXCEPT !.pos = n].buffer = a.buffer
              /\ [a EXCEPT !.pos = n].using = a.using
  BY DEF PlaceSet

\* The fields of the beginning of a storage.
LEMMA StartIs ==
  ASSUME NEW p, NEW s \in DOMAIN Plans[p].scenario \cup {NoName}
  PROVE  /\ Start(s) \in PlaceSet(p) /\ Start(s).storage = s /\ Start(s).line = 0
         /\ Start(s).pos = 0 /\ Start(s).using = FALSE /\ Start(s).buffer = <<>>
<1>1. Nowhere \in PlaceSet(p)
  BY DEF Nowhere, PlaceSet
<1>2. Start(s) \in PlaceSet(p)
  <2>1. \A a \in PlaceSet(p) : [a EXCEPT !.storage = s] \in PlaceSet(p)
    BY DEF PlaceSet
  <2> QED BY <1>1, <2>1 DEF Start
<1>3. /\ Start(s).storage = s /\ Start(s).line = 0
      /\ Start(s).pos = 0 /\ Start(s).using = FALSE /\ Start(s).buffer = <<>>
  BY DEF Start, Nowhere
<1> QED BY <1>2, <1>3

\* The fields of the beginning of a line.
LEMMA LineIs ==
  ASSUME NEW p, NEW s \in DOMAIN Plans[p].scenario \cup {NoName}, NEW n \in Nat
  PROVE  /\ [Start(s) EXCEPT !.line = n] \in PlaceSet(p)
         /\ [Start(s) EXCEPT !.line = n].storage = s /\ [Start(s) EXCEPT !.line = n].line = n
         /\ [Start(s) EXCEPT !.line = n].pos = 0 /\ ~[Start(s) EXCEPT !.line = n].using
<1> DEFINE a == Start(s)
<1>1. a \in PlaceSet(p) /\ a.storage = s /\ a.pos = 0 /\ a.using = FALSE
  BY StartIs
<1> HIDE DEF a
<1>2. /\ [a EXCEPT !.line = n] \in PlaceSet(p) /\ [a EXCEPT !.line = n].storage = s
      /\ [a EXCEPT !.line = n].line = n /\ [a EXCEPT !.line = n].pos = 0
      /\ [a EXCEPT !.line = n].using = FALSE
  BY <1>1, PlaceExcept
<1> QED BY <1>2 DEF a

\* The beginning of a line.
LEMMA FreshPlace ==
  ASSUME WellFormed, NEW p \in DOMAIN Plans, NEW s \in DOMAIN Plans[p].scenario, s # NoName,
         NEW line \in 0 .. Len(LinesOf(p, s))
  PROVE  /\ PlaceIn(p, [Start(s) EXCEPT !.line = line])
         /\ [Start(s) EXCEPT !.line = line].storage = s /\ [Start(s) EXCEPT !.line = line].line = line
         /\ [Start(s) EXCEPT !.line = line].pos = 0 /\ ~[Start(s) EXCEPT !.line = line].using
<1> DEFINE a == [Start(s) EXCEPT !.line = line]
           n == Len(LinesOf(p, s))
<1>1. n \in Nat /\ line \in Nat
  BY LinesKnown
<1>2. a \in PlaceSet(p) /\ a.storage = s /\ a.line = line /\ a.pos = 0 /\ ~a.using
  BY <1>1, LineIs
<1> HIDE DEF a
<1>4. ASSUME line < n PROVE InText(TextIn(p, a), a, n)
  <2>1. TextIn(p, a) = LinesOf(p, s)[line + 1].tags
    BY <1>2 DEF TextIn
  <2>2. line + 1 \in 1 .. n
    BY <1>1, <1>4
  <2>3. /\ Len(TextIn(p, a)) \in Nat
        /\ \A k \in 1 .. Len(TextIn(p, a)) : line + 1 + TextIn(p, a)[k].more <= n
    <3>1. /\ LinesOf(p, s)[line + 1].tags \in Seq(TagSet)
          /\ \A k \in 1 .. Len(LinesOf(p, s)[line + 1].tags) :
               (line + 1) + LinesOf(p, s)[line + 1].tags[k].more <= Len(LinesOf(p, s))
      BY <2>2, TagsKnown
    <3> QED BY <2>1, <3>1
  <2> QED BY <1>2, <2>3 DEF InText
<1>5. PlaceIn(p, a)
  BY <1>1, <1>2, <1>4 DEF PlaceIn
<1> QED BY <1>2, <1>5 DEF a

\* A storage begins at a place.
LEMMA StartPlace ==
  ASSUME WellFormed, NEW p \in DOMAIN Plans, NEW s \in DOMAIN Plans[p].scenario, s # NoName
  PROVE  /\ PlaceIn(p, Start(s)) /\ Start(s).storage = s /\ Start(s).line = 0 /\ ~Start(s).using
         /\ Start(s) # Nowhere /\ Len(LinesOf(p, s)) \in Nat \ {0}
<1>1. Start(s) \in PlaceSet(p) /\ Start(s).storage = s /\ Start(s).line = 0 /\ ~Start(s).using
  BY StartIs
<1>2. Len(LinesOf(p, s)) \in Nat \ {0}
  <2>1. LinesOf(p, s) # <<>> /\ LinesOf(p, s) \in Seq(LineSet)
    BY LinesKnown DEF WellFormed, LinesOf
  <2> QED BY <2>1
<1>3. PlaceIn(p, Start(s))
  <2>1. [Start(s) EXCEPT !.line = 0] = Start(s)
    <3>1. \A a \in PlaceSet(p) : a.line = 0 => [a EXCEPT !.line = 0] = a
      BY DEF PlaceSet
    <3> QED BY <1>1, <3>1
  <2>2. 0 \in 0 .. Len(LinesOf(p, s))
    BY <1>2
  <2>3. PlaceIn(p, [Start(s) EXCEPT !.line = 0])
    BY <2>2, FreshPlace, Zenon
  <2> QED BY <2>1, <2>3
<1> QED BY <1>1, <1>2, <1>3 DEF Nowhere

\* No storage is a place.
LEMMA NowherePlace ==
  ASSUME NEW p \in DOMAIN Plans PROVE PlaceIn(p, Nowhere)
  BY DEF PlaceIn, PlaceSet, Nowhere

\* GoToStorageAndLabel leads to a place, at a line there is, if anywhere.
LEMMA GoToPlace ==
  ASSUME WellFormed, plan \in DOMAIN Plans, NEW from, PlaceIn(plan, from), NEW storage, NEW target,
         storage # NoName \/ from.storage # NoName \/ target = NoLabel
  PROVE  LET g == GoTo(from, storage, target)
         IN  /\ PlaceIn(plan, g.at) /\ g.throws \in BOOLEAN
             /\ g.at = from \/ g.at.storage = NoName \/ (g.at.line < Len(LinesOf(plan, g.at.storage)) /\ ~g.at.using)
             /\ ~g.throws /\ storage # NoName => g.at.storage = storage
             /\ ~g.throws /\ target # NoLabel => ~g.at.using /\ g.at.line < Len(LinesOf(plan, g.at.storage))
<1> DEFINE g == GoTo(from, storage, target)
           a == IF storage = NoName THEN from
                ELSE IF storage \in DOMAIN program THEN Start(storage) ELSE Nowhere
<1>1. CASE storage # NoName /\ storage \notin DOMAIN program
  <2>1. g.at = Nowhere /\ g.throws = TRUE
    BY <1>1 DEF GoTo
  <2>2. Nowhere.storage = NoName
    BY DEF Nowhere
  <2> HIDE DEF g
  <2> QED BY <2>1, <2>2, NowherePlace DEF g
<1>2. CASE ~(storage # NoName /\ storage \notin DOMAIN program)
  <2>1. /\ PlaceIn(plan, a) /\ ~(storage # NoName /\ a = Nowhere)
        /\ storage # NoName => a.storage = storage /\ a.line < Len(LinesOf(plan, storage)) /\ ~a.using
        /\ storage = NoName => a = from
        /\ target # NoLabel => a.storage # NoName
    <3>1. CASE storage = NoName
      BY <3>1
    <3>2. CASE storage # NoName
      <4>1. a = Start(storage) /\ storage \in DOMAIN Plans[plan].scenario
        BY <1>2, <3>2 DEF program
      <4> QED BY <3>2, <4>1, StartPlace
    <3> QED BY <3>1, <3>2
  <2>2. CASE target = NoLabel
    <3>1. g.at = a /\ g.throws = FALSE
      BY <2>1, <2>2 DEF GoTo
    <3> QED BY <2>1, <2>2, <3>1
  <2>3. CASE target # NoLabel /\ target \in DOMAIN Labels(a.storage).cache
    <3>1. a.storage \in DOMAIN Plans[plan].scenario /\ a.storage # NoName
      BY <2>1, <2>3 DEF PlaceIn, PlaceSet
    <3> DEFINE line == Labels(a.storage).cache[target].line
    <3>2. g.at = [Start(a.storage) EXCEPT !.line = line] /\ g.throws = FALSE
      BY <2>1, <2>3 DEF GoTo
    <3>3. line \in 0 .. Len(LinesOf(plan, a.storage)) - 1 /\ Len(LinesOf(plan, a.storage)) \in Nat
      BY <2>3, <3>1, CachedLine, LinesKnown DEF Labels
    <3> HIDE DEF line
    <3>4. PlaceIn(plan, g.at)
      BY <3>1, <3>2, <3>3, FreshPlace
    <3>5. g.at.storage = a.storage /\ g.at.line = line /\ ~g.at.using
      BY <3>1, <3>2, <3>3, FreshPlace
    <3> HIDE DEF g, a
    <3>6. g.at.line < Len(LinesOf(plan, g.at.storage))
      BY <3>3, <3>5
    <3> QED BY <2>1, <2>3, <3>2, <3>4, <3>5, <3>6 DEF g
  <2>4. CASE target # NoLabel /\ target \notin DOMAIN Labels(a.storage).cache
    <3>1. g.at = a /\ g.throws = TRUE
      BY <2>1, <2>4 DEF GoTo
    <3> QED BY <2>1, <3>1
  <2> QED BY <2>2, <2>3, <2>4
<1> QED BY <1>1, <1>2

-----------------------------------------------------------------------------
(* The call stack.                                                          *)

FrameSet(p) ==
  [storage : DOMAIN Plans[p].scenario, label : LabelNames, offset : Nat, org : LineSet,
   buffer : Seq(TagSet), pos : Nat, using : BOOLEAN, base : Nat, depth : Nat, cond : Cond,
   site : PlaceSet(p)]

\* A frame tells where the call was: its label leads to the line from which the
\* offset counts, and the line of the call is as it was.
FrameIn(p, f) ==
  /\ f \in FrameSet(p) /\ f.storage # NoName /\ PlaceIn(p, f.site)
  /\ f.site.storage = f.storage /\ f.site.pos = f.pos
  /\ f.site.buffer = f.buffer /\ f.site.using = f.using
  /\ f.site.line < Len(LinesOf(p, f.storage)) => f.org = LinesOf(p, f.storage)[f.site.line + 1]
  /\ \/ f.label = NoLabel /\ f.offset = f.site.line
     \/ /\ f.label # NoLabel /\ f.label \in DOMAIN Tables[p][f.storage].cache
        /\ Tables[p][f.storage].cache[f.label].line + f.offset = f.site.line

FramesIn(p, cs) == cs \in Seq(FrameSet(p)) /\ \A i \in 1 .. Len(cs) : FrameIn(p, cs[i])

\* The label before a line: a line with a label in front of it, or -1.
LEMMA NearestIs ==
  ASSUME NEW s, NEW line \in Nat
  PROVE  \/ NearestLabel(s, line) = -1
         \/ /\ NearestLabel(s, line) \in 0 .. line - 1
            /\ program[s][NearestLabel(s, line) + 1].kind = "label"
<1> DEFINE before == {i \in 0 .. line - 1 : program[s][i + 1].kind = "label"}
<1>1. CASE before = {}
  BY <1>1 DEF NearestLabel
<1>2. CASE before # {}
  <2>1. \E i \in before : \A j \in before : j <= i
    <3>1. before \in SUBSET (0 .. line - 1)
      OBVIOUS
    <3> HIDE DEF before
    <3> QED BY <1>2, <3>1, HasLargest
  <2>2. NearestLabel(s, line) = CHOOSE i \in before : \A j \in before : j <= i
    BY <1>2 DEF NearestLabel
  <2>3. NearestLabel(s, line) \in before
    BY <2>1, <2>2
  <2> QED BY <2>3
<1> QED BY <1>1, <1>2

\* The frame that PushCallStack makes is one of which a return finds the place.
LEMMA PushedFrames ==
  ASSUME WellFormed, plan \in DOMAIN Plans, NEW a, PlaceIn(plan, a), a.storage # NoName,
         args.base \in Nat, args.depth \in Nat, cond \in Cond, FramesIn(plan, calls)
  PROVE  FramesIn(plan, PushCallStack(a))
<1> DEFINE nearest == NearestLabel(a.storage, a.line)
           lines   == LinesOf(plan, a.storage)
           label_  == IF nearest < 0 THEN NoLabel ELSE Labels(a.storage).aliases[nearest + 1]
           offset  == a.line - (IF nearest < 0 THEN 0 ELSE nearest)
           org     == IF a.line < Len(lines) THEN lines[a.line + 1] ELSE NoLine
           f == [storage |-> a.storage, label |-> label_, offset |-> offset, org |-> org,
                 buffer |-> a.buffer, pos |-> a.pos, using |-> a.using,
                 base |-> args.base, depth |-> args.depth, cond |-> cond, site |-> a]
<1>1. PushCallStack(a) = Append(calls, f)
  BY DEF PushCallStack, LinesOf, program
<1>2. /\ a \in PlaceSet(plan) /\ a.storage \in DOMAIN Plans[plan].scenario
      /\ a.line \in Nat /\ a.pos \in Nat /\ a.buffer \in Seq(TagSet) /\ a.using \in BOOLEAN
  BY DEF PlaceIn, PlaceSet
<1>3. lines \in Seq(LineSet) /\ Len(lines) \in Nat /\ a.line <= Len(lines)
  BY <1>2, LinesKnown DEF PlaceIn
<1>4. org \in LineSet /\ (a.line < Len(lines) => org = lines[a.line + 1])
  <2>1. NoLine \in LineSet
    BY DEF NoLine, LineSet, NoLabel, LabelNames
  <2>2. a.line < Len(lines) => lines[a.line + 1] \in LineSet
    BY <1>2, <1>3
  <2> QED BY <2>1, <2>2
<1>5. /\ label_ \in LabelNames /\ offset \in Nat
      /\ \/ label_ = NoLabel /\ offset = a.line
         \/ /\ label_ # NoLabel /\ label_ \in DOMAIN Tables[plan][a.storage].cache
            /\ Tables[plan][a.storage].cache[label_].line + offset = a.line
  <2>1. CASE nearest = -1
    <3>1. label_ = NoLabel /\ offset = a.line
      BY <1>2, <2>1
    <3>2. NoLabel \in LabelNames
      BY DEF NoLabel, LabelNames
    <3> QED BY <1>2, <3>1, <3>2
  <2>2. CASE nearest \in 0 .. a.line - 1 /\ program[a.storage][nearest + 1].kind = "label"
    <3>1. label_ = Tables[plan][a.storage].aliases[nearest + 1] /\ offset = a.line - nearest
      BY <2>2 DEF Labels
    <3> HIDE DEF nearest
    <3>2. nearest + 1 \in 1 .. Len(lines) /\ lines[nearest + 1].kind = "label"
      BY <1>2, <1>3, <2>2 DEF program, LinesOf
    <3> HIDE DEF label_, offset
    <3>3. /\ label_ \in LabelNames /\ label_ # NoLabel
          /\ label_ \in DOMAIN Tables[plan][a.storage].cache
          /\ Tables[plan][a.storage].cache[label_].line = (nearest + 1) - 1
      BY <1>2, <3>1, <3>2, LabelLeads
    <3>4. offset \in Nat /\ nearest + offset = a.line
      <4>1. a.line \in Nat /\ nearest \in 0 .. a.line - 1 /\ offset = a.line - nearest
        BY <1>2, <2>2, <3>1
      <4> QED BY <4>1
    <3> QED BY <2>2, <3>3, <3>4
  <2> QED BY <1>2, <2>1, <2>2, NearestIs
<1> HIDE DEF label_, offset, org, nearest
<1>6. f \in FrameSet(plan)
  BY <1>2, <1>4, <1>5 DEF FrameSet
<1>7. /\ f.storage = a.storage /\ f.label = label_ /\ f.offset = offset /\ f.org = org
      /\ f.buffer = a.buffer /\ f.pos = a.pos /\ f.using = a.using /\ f.site = a
  OBVIOUS
<1> HIDE DEF f
<1>8. FrameIn(plan, f)
  BY <1>4, <1>5, <1>6, <1>7 DEF FrameIn
<1>9. /\ Append(calls, f) \in Seq(FrameSet(plan)) /\ Len(Append(calls, f)) = Len(calls) + 1
      /\ Len(calls) \in Nat /\ Append(calls, f)[Len(calls) + 1] = f
      /\ \A i \in 1 .. Len(calls) : Append(calls, f)[i] = calls[i]
  BY <1>6 DEF FramesIn
<1>10. ASSUME NEW i \in 1 .. Len(Append(calls, f)) PROVE FrameIn(plan, Append(calls, f)[i])
  <2>1. CASE i = Len(calls) + 1
    BY <1>8, <1>9, <2>1
  <2>2. CASE i \in 1 .. Len(calls)
    BY <1>9, <2>2 DEF FramesIn
  <2> QED BY <1>9, <2>1, <2>2
<1> QED BY <1>1, <1>9, <1>10 DEF FramesIn

\* The last frame, and the frames without it.
LEMMA PoppedFrames ==
  ASSUME NEW p, NEW cs, FramesIn(p, cs), cs # <<>>
  PROVE  /\ FrameIn(p, Last1(cs)) /\ FramesIn(p, Front1(cs))
         /\ Len(cs) \in Nat \ {0} /\ Len(Front1(cs)) = Len(cs) - 1
         /\ \A i \in 1 .. Len(cs) - 1 : Front1(cs)[i] = cs[i]
<1>1. cs \in Seq(FrameSet(p)) /\ Len(cs) \in Nat \ {0}
  BY DEF FramesIn
<1>2. /\ Front1(cs) \in Seq(FrameSet(p)) /\ Len(Front1(cs)) = Len(cs) - 1
      /\ \A i \in 1 .. Len(cs) - 1 : Front1(cs)[i] = cs[i]
  <2> DEFINE S == FrameSet(p)
         n == Len(cs) - 1
  <2>1. n \in Nat /\ \A i \in 1 .. n : cs[i] \in S
    BY <1>1
  <2> HIDE DEF S, n
  <2>2. /\ SubSeq(cs, 1, n) \in Seq(S) /\ Len(SubSeq(cs, 1, n)) = n
        /\ \A i \in 1 .. n : SubSeq(cs, 1, n)[i] = cs[i]
    <3>1. /\ SubSeq(cs, 1, n) \in Seq(S) /\ Len(SubSeq(cs, 1, n)) = IF 1 <= n THEN n - 1 + 1 ELSE 0
          /\ \A i \in 1 .. n - 1 + 1 : SubSeq(cs, 1, n)[i] = cs[1 + i - 1]
      BY <2>1, SubSeqProperties
    <3> QED BY <2>1, <3>1
  <2> QED BY <2>2 DEF Front1, S, n
<1>3. FrameIn(p, Last1(cs))
  BY <1>1 DEF FramesIn, Last1
<1>4. \A i \in 1 .. Len(cs) - 1 : FrameIn(p, Front1(cs)[i])
  BY <1>1, <1>2 DEF FramesIn
<1> QED BY <1>1, <1>2, <1>3, <1>4 DEF FramesIn

\* A return leads to the place of the call.
LEMMA ReturnIsSite ==
  ASSUME WellFormed, plan \in DOMAIN Plans, PlaceIn(plan, at), NEW f, FrameIn(plan, f)
  PROVE  LET r == ReturnPlace(f, GoTo(at, f.storage, f.label))
         IN  r.at = f.site /\ r.throws = FALSE
<1> DEFINE g == GoTo(at, f.storage, f.label)
           r == ReturnPlace(f, g)
           n == Len(LinesOf(plan, f.storage))
           line == g.at.line + f.offset
           lost == line > n \/ (line < n /\ LinesOf(plan, f.storage)[line + 1] # f.org)
           back == [storage |-> f.storage, line |-> line, pos |-> f.pos,
                    buffer |-> f.buffer, using |-> f.using]
<1>1. /\ f \in FrameSet(plan) /\ f.storage # NoName /\ PlaceIn(plan, f.site)
      /\ f.storage \in DOMAIN Plans[plan].scenario /\ f.offset \in Nat /\ f.site \in PlaceSet(plan)
  BY DEF FrameIn, FrameSet
<1>2. Start(f.storage).line = 0 /\ Start(f.storage) # Nowhere /\ Start(f.storage).storage = f.storage
  BY <1>1, StartPlace
<1>3. /\ g.throws = FALSE /\ g.at.line + f.offset = f.site.line
      /\ g = [at |-> g.at, label |-> g.label, throws |-> g.throws, breaks |-> g.breaks]
  <2> DEFINE a == IF f.storage = NoName THEN at
                  ELSE IF f.storage \in DOMAIN program THEN Start(f.storage) ELSE Nowhere
  <2>1. a = Start(f.storage)
    BY <1>1 DEF program
  <2>2. CASE f.label = NoLabel
    <3>1. g = [at |-> a, label |-> label, throws |-> FALSE, breaks |-> f.storage # NoName]
      BY <1>2, <2>1, <2>2 DEF GoTo
    <3>2. g.throws = FALSE /\ g.at = Start(f.storage)
      BY <2>1, <3>1
    <3>3. f.offset = f.site.line /\ f.site.line \in Nat
      BY <1>1, <2>2 DEF FrameIn, PlaceSet
    <3> HIDE DEF a
    <3>4. g = [at |-> g.at, label |-> g.label, throws |-> g.throws, breaks |-> g.breaks]
      BY <3>1
    <3> QED BY <1>2, <3>2, <3>3, <3>4
  <2>3. CASE f.label # NoLabel
    <3> DEFINE l == Tables[plan][f.storage].cache[f.label].line
               b == [Start(f.storage) EXCEPT !.line = l]
    <3>1. f.label \in DOMAIN Tables[plan][f.storage].cache /\ l + f.offset = f.site.line
      BY <2>3 DEF FrameIn
    <3>2. g = [at |-> b, label |-> Tables[plan][f.storage].aliases[l + 1], throws |-> FALSE, breaks |-> TRUE]
      BY <1>2, <2>1, <2>3, <3>1 DEF GoTo, Labels
    <3>3. b.line = l
      <4>1. l \in 0 .. n - 1 /\ n \in Nat
        BY <1>1, <3>1, CachedLine, LinesKnown
      <4> HIDE DEF l
      <4> QED BY <1>1, <4>1, FreshPlace
    <3> HIDE DEF l, b
    <3>4. g.throws = FALSE /\ g.at = b
      BY <3>2
    <3>5. g = [at |-> g.at, label |-> g.label, throws |-> g.throws, breaks |-> g.breaks]
      BY <3>2
    <3> QED BY <3>1, <3>3, <3>4, <3>5
  <2> QED BY <2>2, <2>3
<1>4. line = f.site.line /\ line <= n
  BY <1>1, <1>3 DEF PlaceIn, FrameIn
<1>5. lost = FALSE
  <2>1. n \in Nat /\ line \in Nat
    BY <1>1, <1>4, LinesKnown DEF PlaceSet
  <2>2. line < n => LinesOf(plan, f.storage)[line + 1] = f.org
    BY <1>4 DEF FrameIn
  <2> QED BY <1>4, <2>1, <2>2
<1>6. r = [g EXCEPT !.at = IF lost THEN [g.at EXCEPT !.line = line] ELSE back, !.throws = lost]
  BY <1>3 DEF ReturnPlace, LinesOf, program
<1> HIDE DEF g, lost
<1>7. back = f.site
  BY <1>1, <1>4 DEF FrameIn, PlaceSet
<1> HIDE DEF back, r
<1>8. r.at = back /\ r.throws = FALSE
  <2>1. r = [g EXCEPT !.at = back, !.throws = FALSE]
    BY <1>5, <1>6
  <2>2. "at" \in DOMAIN g /\ "throws" \in DOMAIN g
    BY <1>3
  <2> QED BY <2>1, <2>2
<1> QED BY <1>7, <1>8 DEF r, g

-----------------------------------------------------------------------------
(* The types of the parser.                                                 *)

InlineTags == {t \in TagSet : t.more = 0}

RecSet  == [on : BOOLEAN, name : STRING, str : Seq(InlineTags)]
ArgsIn(ar) == ar \in [list : {ar.list}, depth : Nat, base : Nat]

MacrosOK(ms) == \A m \in DOMAIN ms : ms[m] \in Seq(InlineTags)

\* Where the thread is: in the loop over lines it is at the beginning of one,
\* and what is behind the loop is a line, also while the script is asked.
CtlIn(p, a, c) ==
  /\ c \in {"script", "start", "parse", "skip", "callback", "tag", "asked", "returned", "thrown", "crashed"}
  /\ c \in {"skip", "tag"} => ~a.using /\ a.pos = 0
  /\ c \in {"tag", "asked"} => a.storage # NoName
  /\ c \in {"tag", "asked", "callback"} /\ a.storage # NoName => a.line < Len(LinesOf(p, a.storage))

StateIn(p, d) ==
  /\ MacrosOK(d.macros) /\ d.storage \in DOMAIN Plans[p].scenario /\ d.storage # NoName
  /\ d.cond \in Cond /\ FramesIn(p, d.calls) /\ ArgsIn(d.args)

SavedIn(p, sv) == sv = <<>> \/ \E d : sv = <<d>> /\ StateIn(p, d)

TInv ==
  /\ plan \in DOMAIN Plans /\ moves \in Nat
  /\ PlaceIn(plan, at) /\ CtlIn(plan, at, ctl)
  /\ cond \in Cond /\ rec \in RecSet /\ MacrosOK(macros) /\ ArgsIn(args)
  /\ FramesIn(plan, calls) /\ SavedIn(plan, saved)
  /\ interrupted \in BOOLEAN /\ cached \in BOOLEAN
  /\ ret \in {"none", "tag", "r", "interrupt", "end"}

\* What is being read.
LEMMA ReadingPlace ==
  ASSUME TInv, Reading
  PROVE  /\ at \in PlaceSet(plan) /\ at.storage \in DOMAIN Plans[plan].scenario /\ at.storage # NoName
         /\ Lines = LinesOf(plan, at.storage) /\ at.line < Len(Lines)
         /\ Len(Lines) \in Nat /\ at.line \in Nat /\ at.pos \in Nat
         /\ Text = TextIn(plan, at) /\ Text \in Seq(TagSet) /\ Len(Text) \in Nat
         /\ at.pos <= Len(Text)
         /\ \A i \in 1 .. Len(Text) : at.line + 1 + Text[i].more <= Len(Lines)
<1>1. at.storage # NoName /\ at.line < Len(Lines)
  <2>1. CASE ctl \in {"tag", "asked"}
    BY <2>1 DEF TInv, CtlIn, Lines, LinesOf, Loaded, program
  <2>2. CASE ctl = "parse"
    <3>1. at.line < Len(Lines) /\ at.line \in Nat
      BY <2>2 DEF Reading, TInv, PlaceIn, PlaceSet
    <3>2. Len(<<>>) = 0
      OBVIOUS
    <3> QED BY <3>1, <3>2 DEF Lines, Loaded
  <2> QED BY <2>1, <2>2 DEF Reading
<1>2. at \in PlaceSet(plan) /\ at.storage \in DOMAIN Plans[plan].scenario
  BY <1>1 DEF TInv, PlaceIn, PlaceSet
<1>3. at.line \in Nat /\ at.pos \in Nat /\ at.buffer \in Seq(TagSet) /\ at.using \in BOOLEAN
  BY <1>2 DEF PlaceSet
<1>4. Lines = LinesOf(plan, at.storage)
  BY <1>1 DEF Lines, LinesOf, Loaded, program
<1>5. /\ Lines \in Seq(LineSet) /\ Len(Lines) \in Nat
      /\ Lines[at.line + 1] \in LineSet
  BY <1>1, <1>2, <1>3, <1>4, LinesKnown DEF TInv
<1>6. Text = TextIn(plan, at)
  BY <1>4 DEF Text, TextIn
<1>7. Text \in Seq(TagSet)
  BY <1>3, <1>5 DEF Text, LineSet
<1>8. InText(Text, at, Len(Lines))
  BY <1>1, <1>4, <1>6 DEF TInv, PlaceIn
<1> QED BY <1>1, <1>2, <1>3, <1>4, <1>5, <1>6, <1>7, <1>8 DEF InText

\* The beginning of any line of the storage, and its end, is a place.
LEMMA LaterLine ==
  ASSUME WellFormed, plan \in DOMAIN Plans, PlaceIn(plan, at), at.storage # NoName,
         NEW n \in Nat, n <= Len(LinesOf(plan, at.storage))
  PROVE  LET a == [Start(at.storage) EXCEPT !.line = n]
         IN  PlaceIn(plan, a) /\ a.storage = at.storage /\ a.line = n /\ a.pos = 0 /\ ~a.using
<1>1. at.storage \in DOMAIN Plans[plan].scenario
  BY DEF PlaceIn, PlaceSet
<1>2. n \in 0 .. Len(LinesOf(plan, at.storage))
  BY <1>1, LinesKnown
<1> QED BY <1>1, <1>2, FreshPlace

\* The next line is a place.
LEMMA NextLinePlace ==
  ASSUME WellFormed, plan \in DOMAIN Plans, PlaceIn(plan, at), at.storage # NoName,
         at.line < Len(LinesOf(plan, at.storage))
  PROVE  PlaceIn(plan, NextLine) /\ NextLine.pos = 0 /\ ~NextLine.using /\ NextLine.storage = at.storage
         /\ NextLine.line = at.line + 1
<1>1. at.line \in Nat /\ at.storage \in DOMAIN Plans[plan].scenario
  BY DEF PlaceIn, PlaceSet
<1>2. at.line + 1 \in Nat /\ at.line + 1 <= Len(LinesOf(plan, at.storage))
  BY <1>1, LinesKnown
<1> QED BY <1>2, LaterLine DEF NextLine

\* Behind the tag that is being read.
LEMMA StepNextPlace ==
  ASSUME WellFormed, TInv, Reading, ~AtEnd
  PROVE  /\ Current \in TagSet /\ at.pos + 1 \in 1 .. Len(Text)
         /\ PlaceIn(plan, StepNext) /\ StepNext.storage = at.storage
         /\ PlaceIn(plan, [at EXCEPT !.pos = @ + 1])
<1>1. /\ at.pos + 1 \in 1 .. Len(Text) /\ Current \in TagSet /\ Current.more \in Nat
      /\ at.line + 1 + Current.more <= Len(Lines)
  <2>1. at.pos + 1 \in 1 .. Len(Text)
    BY ReadingPlace DEF AtEnd
  <2>2. Current \in TagSet
    BY <2>1, ReadingPlace DEF Current
  <2> QED BY <2>1, <2>2, ReadingPlace DEF Current, TagSet
<1>2. plan \in DOMAIN Plans /\ PlaceIn(plan, at)
  BY DEF TInv
<1>3. /\ PlaceIn(plan, NextLine) /\ NextLine.storage = at.storage /\ NextLine.line = at.line + 1
      /\ NextLine \in PlaceSet(plan) /\ NextLine.pos = 0 /\ ~NextLine.using
  BY <1>2, NextLinePlace, ReadingPlace DEF PlaceIn
<1>4. /\ PlaceIn(plan, [NextLine EXCEPT !.line = @ + Current.more])
      /\ [NextLine EXCEPT !.line = @ + Current.more].storage = at.storage
  <2> DEFINE n == at.line + 1 + Current.more
             b == [Start(at.storage) EXCEPT !.line = n]
  <2>1. n \in Nat /\ n <= Len(LinesOf(plan, at.storage))
    BY <1>1, ReadingPlace
  <2>2. [NextLine EXCEPT !.line = @ + Current.more] = b
    <3>1. \A a \in PlaceSet(plan) : \A m \in Nat :
            [[a EXCEPT !.line = m] EXCEPT !.line = @ + Current.more] = [a EXCEPT !.line = m + Current.more]
      BY DEF PlaceSet
    <3>2. Start(at.storage) \in PlaceSet(plan)
      BY <1>2, ReadingPlace, StartIs
    <3>3. at.line + 1 \in Nat /\ NextLine = [Start(at.storage) EXCEPT !.line = at.line + 1]
      BY <1>1, ReadingPlace DEF NextLine
    <3> QED BY <3>1, <3>2, <3>3
  <2> HIDE DEF n
  <2> QED BY <1>2, <2>1, <2>2, LaterLine, ReadingPlace
<1>5. /\ PlaceIn(plan, [at EXCEPT !.pos = @ + 1]) /\ [at EXCEPT !.pos = @ + 1].storage = at.storage
  <2> DEFINE b == [at EXCEPT !.pos = at.pos + 1]
  <2>1. /\ b \in PlaceSet(plan) /\ b.pos = at.pos + 1 /\ b.storage = at.storage /\ b.line = at.line
        /\ b.buffer = at.buffer /\ b.using = at.using
    BY <1>1, ReadingPlace, PlaceExcept
  <2> HIDE DEF b
  <2>2. TextIn(plan, b) = TextIn(plan, at)
    BY <2>1 DEF TextIn
  <2>3. InText(TextIn(plan, b), b, Len(LinesOf(plan, b.storage)))
    BY <1>1, <2>1, <2>2, ReadingPlace DEF InText
  <2>4. PlaceIn(plan, b)
    BY <2>1, <2>3, ReadingPlace DEF PlaceIn
  <2> QED BY <2>1, <2>4 DEF b
<1> QED BY <1>1, <1>3, <1>4, <1>5 DEF StepNext

Cat(u, x) == u \o x

\* What two sequences joined are.
LEMMA Joined ==
  ASSUME NEW S, NEW u \in Seq(S), NEW x \in Seq(S)
  PROVE  /\ Cat(u, x) \in Seq(S) /\ Len(Cat(u, x)) = Len(u) + Len(x)
         /\ \A i \in 1 .. Len(u) + Len(x) : Cat(u, x)[i] = IF i <= Len(u) THEN u[i] ELSE x[i - Len(u)]
  BY ConcatProperties DEF Cat

\* A tag with a name only is a tag.
LEMMA TagOfIs ==
  ASSUME NEW n \in STRING
  PROVE  /\ TagOf(n) \in InlineTags /\ TagOf(n) \in TagSet /\ TagOf(n).tag = n
         /\ TagOf(n).storage = NoName /\ TagOf(n).target = NoLabel /\ TagOf(n).more = 0
<1>1. NoName \in STRING
  BY NamesAreStrings
<1>2. NoLabel \in LabelNames
  BY DEF NoLabel, LabelNames
<1>3. TagOf(n) \in TagSet
  BY <1>1, <1>2 DEF TagOf, TagSet
<1>4. /\ TagOf(n).tag = n /\ TagOf(n).storage = NoName /\ TagOf(n).target = NoLabel /\ TagOf(n).more = 0
  BY DEF TagOf
<1> QED BY <1>3, <1>4 DEF InlineTags

Splice(t, n, x, y) == SubSeq(t, 1, n) \o x \o SubSeq(t, n + 2, Len(t)) \o y

\* x in the place of the tag behind the n-th one, and y at the end.
LEMMA Spliced ==
  ASSUME NEW S, NEW t \in Seq(S), NEW x \in Seq(S), NEW y \in Seq(S), NEW n \in 0 .. Len(t) - 1
  PROVE  LET b == Splice(t, n, x, y)
             m == n + Len(x)
             k == Len(t) - 1 + Len(x)
         IN  /\ b \in Seq(S) /\ Len(b) = k + Len(y)
             /\ \A i \in 1 .. n : b[i] = t[i]
             /\ \A i \in n + 1 .. m : b[i] = x[i - n]
             /\ \A i \in m + 1 .. k : b[i] = t[i - m + n + 1]
             /\ \A i \in k + 1 .. k + Len(y) : b[i] = y[i - k]
<1> DEFINE u == SubSeq(t, 1, n)
           v == SubSeq(t, n + 2, Len(t))
           b1 == Cat(u, x)
           b2 == Cat(b1, v)
           b == Cat(b2, y)
           m == n + Len(x)
           k == Len(t) - 1 + Len(x)
<1>1. n \in Nat /\ Len(t) \in Nat /\ Len(x) \in Nat /\ Len(y) \in Nat /\ n + 1 <= Len(t)
  OBVIOUS
<1>2. u \in Seq(S) /\ Len(u) = n /\ \A i \in 1 .. n : u[i] = t[i]
  <2>1. \A i \in 1 .. n : t[i] \in S
    BY <1>1
  <2>2. /\ u \in Seq(S) /\ Len(u) = IF 1 <= n THEN n - 1 + 1 ELSE 0
        /\ \A i \in 1 .. n - 1 + 1 : u[i] = t[1 + i - 1]
    BY <1>1, <2>1, SubSeqProperties
  <2> QED BY <1>1, <2>2
<1>3. v \in Seq(S) /\ Len(v) = Len(t) - 1 - n /\ \A i \in 1 .. Len(t) - 1 - n : v[i] = t[n + 1 + i]
  <2>1. \A i \in n + 2 .. Len(t) : t[i] \in S
    BY <1>1
  <2>2. /\ v \in Seq(S) /\ Len(v) = IF n + 2 <= Len(t) THEN Len(t) - (n + 2) + 1 ELSE 0
        /\ \A i \in 1 .. Len(t) - (n + 2) + 1 : v[i] = t[n + 2 + i - 1]
    BY <1>1, <2>1, SubSeqProperties
  <2> QED BY <1>1, <2>2
<1> HIDE DEF u, v
<1>4. /\ b1 \in Seq(S) /\ Len(b1) = m
      /\ \A i \in 1 .. m : b1[i] = IF i <= n THEN t[i] ELSE x[i - n]
  <2>1. /\ b1 \in Seq(S) /\ Len(b1) = Len(u) + Len(x)
        /\ \A i \in 1 .. Len(u) + Len(x) : b1[i] = IF i <= Len(u) THEN u[i] ELSE x[i - Len(u)]
    BY <1>2, Joined
  <2> HIDE DEF b1
  <2> QED BY <1>1, <1>2, <2>1
<1> HIDE DEF b1
<1>5. /\ b2 \in Seq(S) /\ Len(b2) = k
      /\ \A i \in 1 .. k : b2[i] = IF i <= m THEN b1[i] ELSE t[i - m + n + 1]
  <2>1. /\ b2 \in Seq(S) /\ Len(b2) = Len(b1) + Len(v)
        /\ \A i \in 1 .. Len(b1) + Len(v) : b2[i] = IF i <= Len(b1) THEN b1[i] ELSE v[i - Len(b1)]
    BY <1>3, <1>4, Joined
  <2> HIDE DEF b2
  <2>2. Len(b1) + Len(v) = k
    BY <1>1, <1>3, <1>4
  <2>3. ASSUME NEW i \in 1 .. k PROVE b2[i] = IF i <= m THEN b1[i] ELSE t[i - m + n + 1]
    <3>1. CASE i <= m
      BY <1>4, <2>1, <2>2, <3>1
    <3>2. CASE ~(i <= m)
      <4>1. i - m \in 1 .. Len(t) - 1 - n /\ n + 1 + (i - m) = i - m + n + 1
        BY <1>1, <3>2
      <4>2. b2[i] = v[i - m]
        BY <1>4, <2>1, <2>2, <3>2
      <4> QED BY <1>3, <3>2, <4>1, <4>2
    <3> QED BY <3>1, <3>2
  <2> QED BY <2>1, <2>2, <2>3
<1> HIDE DEF b2
<1>6. /\ b \in Seq(S) /\ Len(b) = k + Len(y)
      /\ \A i \in 1 .. k + Len(y) : b[i] = IF i <= k THEN b2[i] ELSE y[i - k]
  <2>1. /\ b \in Seq(S) /\ Len(b) = Len(b2) + Len(y)
        /\ \A i \in 1 .. Len(b2) + Len(y) : b[i] = IF i <= Len(b2) THEN b2[i] ELSE y[i - Len(b2)]
    <3>1. b2 \in Seq(S)
      BY <1>5
    <3> QED BY <3>1, Joined
  <2> HIDE DEF b
  <2> QED BY <1>5, <2>1
<1> HIDE DEF b
<1>7. m \in Nat /\ k \in Nat /\ n <= m /\ m <= k
  BY <1>1
<1> HIDE DEF m, k
<1>8. \A i \in 1 .. n : b[i] = t[i]
  BY <1>1, <1>4, <1>5, <1>6, <1>7
<1>9. \A i \in n + 1 .. m : b[i] = x[i - n]
  BY <1>1, <1>4, <1>5, <1>6, <1>7
<1>10. \A i \in m + 1 .. k : b[i] = t[i - m + n + 1]
  BY <1>1, <1>5, <1>6, <1>7
<1>11. \A i \in k + 1 .. k + Len(y) : b[i] = y[i - k]
  BY <1>1, <1>6, <1>7
<1>12. b = Splice(t, n, x, y)
  BY DEF b, b2, b1, u, v, Cat, Splice
<1> HIDE DEF b
<1> QED BY <1>6, <1>8, <1>9, <1>10, <1>11, <1>12 DEF m, k

\* Where no tag of a line was read and nothing is expanded is a place.
LEMMA LineStart ==
  ASSUME WellFormed, NEW p \in DOMAIN Plans, NEW a \in PlaceSet(p), a.storage # NoName, a.pos = 0, ~a.using,
         a.line <= Len(LinesOf(p, a.storage))
  PROVE  PlaceIn(p, a)
<1> DEFINE n == Len(LinesOf(p, a.storage))
<1>1. n \in Nat /\ a.line \in Nat /\ a.storage \in DOMAIN Plans[p].scenario
  BY LinesKnown DEF PlaceSet
<1>4. ASSUME a.line < n PROVE InText(TextIn(p, a), a, n)
  <2>1. TextIn(p, a) = LinesOf(p, a.storage)[a.line + 1].tags
    BY DEF TextIn
  <2>2. a.line + 1 \in 1 .. n
    BY <1>1, <1>4
  <2>3. /\ Len(TextIn(p, a)) \in Nat
        /\ \A k \in 1 .. Len(TextIn(p, a)) : a.line + 1 + TextIn(p, a)[k].more <= n
    <3>1. /\ LinesOf(p, a.storage)[a.line + 1].tags \in Seq(TagSet)
          /\ \A k \in 1 .. Len(LinesOf(p, a.storage)[a.line + 1].tags) :
               (a.line + 1) + LinesOf(p, a.storage)[a.line + 1].tags[k].more <= Len(LinesOf(p, a.storage))
      BY <1>1, <2>2, TagsKnown
    <3> QED BY <2>1, <3>1
  <2> QED BY <2>3 DEF InText
<1> QED BY <1>1, <1>4 DEF PlaceIn

\* The text of a macro, or what an [emb] yields, in the place of the tag.
LEMMA ExpandPlace ==
  ASSUME WellFormed, TInv, NEW c \in BOOLEAN, NEW text, Expand(c, text)
  PROVE  /\ PlaceIn(plan, at') /\ at'.using = TRUE /\ at'.pos = at.pos
         /\ text \in Seq(TagSet) /\ at.pos \in 0 .. Len(Text) - 1
         /\ at'.buffer = Splice(Text, at.pos, text, IF Command /\ ~IgnoreCR THEN <<Backslash>> ELSE <<>>)
<1> DEFINE T == {t \in TagSet : at.line + 1 + t.more <= Len(Lines)}
           y == IF Command /\ ~IgnoreCR THEN <<Backslash>> ELSE <<>>
           b == Splice(Text, at.pos, text, y)
<1>1. Reading /\ ~AtEnd
  BY DEF Expand, Tag
<1>2. /\ at.pos + 1 \in 1 .. Len(Text) /\ at.pos \in Nat /\ at.line \in Nat
      /\ at.line + 1 <= Len(Lines) /\ Len(Lines) \in Nat
      /\ Text \in Seq(TagSet) /\ Len(Text) \in Nat
      /\ \A i \in 1 .. Len(Text) : at.line + 1 + Text[i].more <= Len(Lines)
  BY <1>1, StepNextPlace, ReadingPlace
<1>3. Text \in Seq(T)
  <2>1. \A i \in 1 .. Len(Text) : Text[i] \in T
    BY <1>2
  <2> HIDE DEF T
  <2> QED BY <1>2, <2>1
<1>4. text \in Seq(InlineTags)
  BY KagAssumption DEF Expand, IsMacro, TInv, MacrosOK, InlineTags
<1>5. InlineTags \subseteq T /\ T \subseteq TagSet
  BY <1>2 DEF InlineTags, TagSet
<1>6. text \in Seq(T) /\ text \in Seq(TagSet)
  <2> HIDE DEF T
  <2> QED BY <1>4, <1>5
<1>7. y \in Seq(T)
  <2>1. Backslash \in InlineTags
    <3>1. "slash" \in STRING
      BY NamesAreStrings
    <3> QED BY <3>1, TagOfIs DEF Backslash
  <2>2. Backslash \in T
    BY <1>5, <2>1
  <2> HIDE DEF T
  <2> QED BY <2>2
<1> HIDE DEF T, y
<1>8. /\ b \in Seq(T) /\ Len(b) = Len(Text) - 1 + Len(text) + Len(y)
      /\ Len(text) \in Nat /\ Len(y) \in Nat /\ at.pos \in 0 .. Len(Text) - 1
  <2>1. at.pos \in 0 .. Len(Text) - 1
    BY <1>2
  <2> DEFINE t == Text
  <2>2. t \in Seq(T) /\ at.pos \in 0 .. Len(t) - 1 /\ text \in Seq(T) /\ y \in Seq(T)
    BY <1>3, <1>6, <1>7, <2>1
  <2>4. b \in Seq(T) /\ Len(b) = Len(t) - 1 + Len(text) + Len(y)
    <3> DEFINE n == at.pos
    <3>0. n \in 0 .. Len(t) - 1 /\ t \in Seq(T) /\ text \in Seq(T) /\ y \in Seq(T)
      BY <2>2
    <3> HIDE DEF t, n
    <3>1. Splice(t, n, text, y) \in Seq(T)
      BY <3>0, Spliced
    <3>2. Len(Splice(t, n, text, y)) = (Len(t) - 1 + Len(text)) + Len(y)
      BY <3>0, Spliced
    <3> QED BY <3>1, <3>2 DEF t, n
  <2>3. Len(text) \in Nat /\ Len(y) \in Nat
    BY <1>6, <1>7
  <2> QED BY <2>1, <2>3, <2>4
<1>9. at' = [at EXCEPT !.buffer = b, !.using = TRUE]
  BY DEF Expand, y, Splice
<1> HIDE DEF b
<1>10. /\ at' \in PlaceSet(plan) /\ at'.buffer = b /\ at'.using = TRUE /\ at'.pos = at.pos
       /\ at'.line = at.line /\ at'.storage = at.storage
  <2>1. at \in PlaceSet(plan)
    BY <1>1, ReadingPlace
  <2>2. b \in Seq(TagSet)
    BY <1>5, <1>8
  <2>3. \A a \in PlaceSet(plan), q \in Seq(TagSet), r \in BOOLEAN :
          /\ [a EXCEPT !.buffer = q, !.using = r] \in PlaceSet(plan)
          /\ [a EXCEPT !.buffer = q, !.using = r].buffer = q
          /\ [a EXCEPT !.buffer = q, !.using = r].using = r
          /\ [a EXCEPT !.buffer = q, !.using = r].pos = a.pos
          /\ [a EXCEPT !.buffer = q, !.using = r].line = a.line
          /\ [a EXCEPT !.buffer = q, !.using = r].storage = a.storage
    BY DEF PlaceSet
  <2> QED BY <1>9, <2>1, <2>2, <2>3
<1>11. InText(b, at', Len(Lines))
  <2>1. \A i \in 1 .. Len(b) : b[i] \in T
    BY <1>8
  <2>2. \A t \in T : at.line + 1 + t.more <= Len(Lines)
    BY DEF T
  <2>3. at'.pos = at.pos /\ at'.line = at.line
    BY <1>10
  <2>4. at.pos <= Len(b)
    BY <1>8
  <2> HIDE DEF T
  <2> QED BY <2>1, <2>2, <2>3, <2>4 DEF InText
<1>12. PlaceIn(plan, at')
  <2>1. at.storage # NoName /\ Lines = LinesOf(plan, at.storage)
    BY <1>1, ReadingPlace
  <2>2. TextIn(plan, at') = b
    BY <1>10 DEF TextIn
  <2> QED BY <1>2, <1>10, <1>11, <2>1, <2>2 DEF PlaceIn
<1> QED BY <1>6, <1>8, <1>10, <1>12 DEF b, y

\* The fields of the arguments when one of them changes.
LEMMA ArgsExcept ==
  ASSUME NEW ar, ArgsIn(ar)
  PROVE  /\ ar.depth \in Nat /\ ar.base \in Nat
         /\ \A d \in Nat : LET a == [ar EXCEPT !.depth = d]
                          IN  ArgsIn(a) /\ a.depth = d /\ a.base = ar.base /\ a.list = ar.list
         /\ \A b \in Nat : LET a == [ar EXCEPT !.base = b]
                          IN  ArgsIn(a) /\ a.depth = ar.depth /\ a.base = b /\ a.list = ar.list
         /\ \A d \in Nat, b \in Nat : LET a == [ar EXCEPT !.depth = d, !.base = b]
                                    IN  ArgsIn(a) /\ a.depth = d /\ a.base = b /\ a.list = ar.list
<1> DEFINE L == {ar.list}
           R == [list : L, depth : Nat, base : Nat]
<1>1. ar \in R
  BY DEF ArgsIn
<1> HIDE DEF L
<1>2. ASSUME NEW d \in Nat
      PROVE  /\ [ar EXCEPT !.depth = d] \in R /\ [ar EXCEPT !.depth = d].depth = d
             /\ [ar EXCEPT !.depth = d].base = ar.base /\ [ar EXCEPT !.depth = d].list = ar.list
  BY <1>1
<1>3. ASSUME NEW b \in Nat
      PROVE  /\ [ar EXCEPT !.base = b] \in R /\ [ar EXCEPT !.base = b].base = b
             /\ [ar EXCEPT !.base = b].depth = ar.depth /\ [ar EXCEPT !.base = b].list = ar.list
  BY <1>1
<1>4. ASSUME NEW d \in Nat, NEW b \in Nat
      PROVE  /\ [ar EXCEPT !.depth = d, !.base = b] \in R /\ [ar EXCEPT !.depth = d, !.base = b].depth = d
             /\ [ar EXCEPT !.depth = d, !.base = b].base = b /\ [ar EXCEPT !.depth = d, !.base = b].list = ar.list
  BY <1>1
<1>5. ar.depth \in Nat /\ ar.base \in Nat
  BY <1>1
<1> HIDE DEF R
<1> QED BY <1>1, <1>2, <1>3, <1>4, <1>5 DEF ArgsIn, R, L

\* The fields of the arguments when one is pushed.
LEMMA ArgsPushed ==
  ASSUME ArgsIn(args), NEW value
  PROVE  ArgsIn(PushMacroArgs(value)) /\ PushMacroArgs(value).depth = args.depth + 1
         /\ PushMacroArgs(value).base = args.base
         /\ PushMacroArgs(value).list = IF Len(args.list) > args.depth
                                        THEN [args.list EXCEPT ![args.depth + 1] = value]
                                        ELSE Append(args.list, value)
<1> DEFINE n == IF Len(args.list) > args.depth THEN [args.list EXCEPT ![args.depth + 1] = value]
                ELSE Append(args.list, value)
           a == [args EXCEPT !.list = n, !.depth = @ + 1]
<1>1. args \in [list : {args.list}, depth : Nat, base : Nat]
  BY DEF ArgsIn
<1>2. PushMacroArgs(value) = a
  BY DEF PushMacroArgs
<1> DEFINE K == {args.list}
           L == {n}
<1>3. n \in L /\ args \in [list : K, depth : Nat, base : Nat]
  BY <1>1
<1> HIDE DEF n, K, L
<1>6. \A r \in [list : K, depth : Nat, base : Nat], m \in L, d \in Nat :
        /\ [r EXCEPT !.list = m, !.depth = d] \in [list : L, depth : Nat, base : Nat]
        /\ [r EXCEPT !.list = m, !.depth = d].list = m /\ [r EXCEPT !.list = m, !.depth = d].depth = d
        /\ [r EXCEPT !.list = m, !.depth = d].base = r.base
  OBVIOUS
<1>7. args.depth + 1 \in Nat
  BY <1>3
<1>4. a.list = n /\ a.depth = args.depth + 1 /\ a.base = args.base
  BY <1>3, <1>6, <1>7
<1>5. a \in [list : L, depth : Nat, base : Nat]
  BY <1>3, <1>6, <1>7
<1> HIDE DEF a
<1> QED BY <1>2, <1>4, <1>5 DEF ArgsIn, n, L

\* What is to be shown of a step: the program and the typed parts.
LEMMA TStep ==
  ASSUME TInv, plan' = plan, moves' \in Nat, PlaceIn(plan, at'), CtlIn(plan, at', ctl'), cond' \in Cond,
         rec' \in RecSet, MacrosOK(macros'), ArgsIn(args'), FramesIn(plan, calls'), SavedIn(plan, saved'),
         interrupted' \in BOOLEAN, cached' \in BOOLEAN, ret' \in {"none", "tag", "r", "interrupt", "end"}
  PROVE  TInv'
  BY DEF TInv

\* In the script the place is any.
LEMMA FreeCtl ==
  ASSUME NEW p, NEW a, NEW c \in {"script", "start", "parse", "returned", "thrown", "crashed"}
  PROVE  CtlIn(p, a, c)
  BY DEF CtlIn

\* No conditions are conditions.
LEMMA NoCondIn == NoCond \in Cond
  BY DEF NoCond, Cond

\* No recording is a recording.
LEMMA NoRecIn == NoRec \in RecSet
  BY NamesAreStrings DEF NoRec, RecSet

\* What is left alone keeps its type, and moves is left alone or counted down.
Left == UNCHANGED <<cond, rec, macros, args, calls, saved>>

\* A step that moves only keeps the types of the rest.
LEMMA TLeft ==
  ASSUME TInv, plan' = plan, Left, moves' \in Nat, PlaceIn(plan, at'), CtlIn(plan, at', ctl'),
         interrupted' \in BOOLEAN, cached' \in BOOLEAN, ret' \in {"none", "tag", "r", "interrupt", "end"}
  PROVE  TInv'
  BY TStep DEF Left, TInv

\* In the loop over lines.
LEMMA SkippingPlace ==
  ASSUME TInv, at.line < Len(Lines)
  PROVE  /\ at \in PlaceSet(plan) /\ at.storage \in DOMAIN Plans[plan].scenario /\ at.storage # NoName
         /\ Lines = LinesOf(plan, at.storage) /\ Len(Lines) \in Nat /\ at.line \in Nat /\ plan \in DOMAIN Plans
         /\ PlaceIn(plan, at)
<1>1. at.line \in Nat /\ at \in PlaceSet(plan) /\ PlaceIn(plan, at) /\ plan \in DOMAIN Plans
  BY DEF TInv, PlaceIn, PlaceSet
<1>2. at.storage # NoName
  <2>1. Len(<<>>) = 0
    OBVIOUS
  <2> QED BY <1>1, <2>1 DEF Lines, Loaded
<1>3. Lines = LinesOf(plan, at.storage)
  BY <1>2 DEF Lines, LinesOf, Loaded, program
<1>4. at.storage \in DOMAIN Plans[plan].scenario
  BY <1>1, <1>2 DEF PlaceSet
<1> QED BY <1>1, <1>2, <1>3, <1>4, LinesKnown

\* The steps up to the text.
LEMMA LoopTyped ==
  ASSUME WellFormed, TInv,
         \/ GetNextTag \/ ParseStart \/ ReturnInterrupt \/ EndOfScenario
         \/ Skip \/ SkipComment \/ SkipLabel \/ SkipScript \/ SkipDone \/ CallbackReturns \/ AfterReturn
  PROVE  TInv'
<1>0. /\ plan \in DOMAIN Plans /\ PlaceIn(plan, at) /\ CtlIn(plan, at, ctl) /\ moves \in Nat
      /\ interrupted \in BOOLEAN /\ cached \in BOOLEAN /\ ret \in {"none", "tag", "r", "interrupt", "end"}
  BY DEF TInv
<1>1. CASE GetNextTag \/ ParseStart \/ ReturnInterrupt \/ EndOfScenario \/ AfterReturn
  <2>1. /\ plan' = plan /\ Left /\ moves' = moves /\ at' = at
        /\ ctl' \in {"script", "start", "parse", "thrown"}
        /\ interrupted' \in {interrupted, FALSE} /\ cached' = cached /\ ret' \in {ret, "none", "end", "interrupt"}
    BY <1>1 DEF GetNextTag, ParseStart, ReturnInterrupt, EndOfScenario, AfterReturn, Returns, Parses, Left
  <2>2. CtlIn(plan, at', ctl')
    BY <2>1, FreeCtl
  <2> QED BY <1>0, <2>1, <2>2, TLeft
<1>2. CASE Skip
  <2>1. /\ plan' = plan /\ Left /\ moves' = moves /\ at' = at /\ ctl' = "skip"
        /\ interrupted' = interrupted /\ cached' = TRUE /\ ret' = ret
    BY <1>2 DEF Skip, Left
  <2>2. CtlIn(plan, at', ctl')
    BY <1>2, <2>1 DEF CtlIn, Skip, AtLineStart
  <2> QED BY <1>0, <2>1, <2>2, TLeft
<1>3. CASE SkipLabel
  <2>1. /\ plan' = plan /\ Left /\ moves' = moves /\ at' = at
        /\ interrupted' = interrupted /\ cached' = cached /\ ret' = ret /\ ctl' \in {"callback", "thrown", "crashed"}
        /\ at.line < Len(Lines)
    BY <1>3 DEF SkipLabel, Left, Throws, Skipping
  <2>2. CtlIn(plan, at', ctl')
    BY <1>0, <2>1, SkippingPlace DEF CtlIn
  <2> QED BY <1>0, <2>1, <2>2, TLeft
<1>4. CASE SkipDone
  <2>1. /\ plan' = plan /\ Left /\ moves' = moves /\ at' = at
        /\ interrupted' = interrupted /\ cached' = cached /\ ret' = ret /\ ctl' = "tag" /\ ctl = "skip"
        /\ at.line < Len(Lines)
    BY <1>4 DEF SkipDone, Left, Skipping
  <2>2. CtlIn(plan, at', ctl')
    BY <1>0, <2>1, SkippingPlace DEF CtlIn
  <2> QED BY <1>0, <2>1, <2>2, TLeft
<1>5. CASE SkipComment
  <2>1. /\ plan' = plan /\ Left /\ moves' = moves /\ at' = NextLine
        /\ interrupted' = interrupted /\ cached' = cached /\ ret' = ret /\ ctl' = "skip"
        /\ at.line < Len(Lines)
    BY <1>5 DEF SkipComment, Left, Skipping
  <2>2. PlaceIn(plan, NextLine) /\ NextLine.pos = 0 /\ ~NextLine.using
    BY <1>0, <2>1, SkippingPlace, NextLinePlace
  <2>3. CtlIn(plan, at', ctl')
    BY <2>1, <2>2 DEF CtlIn
  <2> QED BY <1>0, <2>1, <2>2, <2>3, TLeft
<1>6. CASE CallbackReturns
  <2>1. /\ plan' = plan /\ Left /\ moves' = moves /\ at' = (IF Loaded THEN NextLine ELSE at)
        /\ interrupted' = interrupted /\ cached' = cached /\ ret' = ret /\ ctl' = "skip" /\ ctl = "callback"
    BY <1>6 DEF CallbackReturns, Left
  <2>2. PlaceIn(plan, at') /\ at'.pos = 0 /\ ~at'.using
    <3>1. CASE Loaded
      <4>1. at.storage # NoName /\ at.line < Len(LinesOf(plan, at.storage))
        BY <1>0, <2>1, <3>1 DEF CtlIn, Loaded
      <4>2. PlaceIn(plan, NextLine) /\ NextLine.pos = 0 /\ ~NextLine.using
        BY <1>0, <4>1, NextLinePlace
      <4> QED BY <2>1, <3>1, <4>2
    <3>2. CASE ~Loaded
      <4>1. at = Nowhere
        BY <1>0, <3>2 DEF PlaceIn, Loaded
      <4>2. Nowhere.pos = 0 /\ Nowhere.using = FALSE
        BY DEF Nowhere
      <4> QED BY <1>0, <2>1, <3>2, <4>1, <4>2
    <3> QED BY <3>1, <3>2
  <2>3. CtlIn(plan, at', ctl')
    BY <2>1, <2>2 DEF CtlIn
  <2> QED BY <1>0, <2>1, <2>2, <2>3, TLeft
<1>7. CASE SkipScript
  <2>1. /\ plan' = plan /\ Left /\ moves' = moves
        /\ interrupted' = interrupted /\ cached' = cached /\ ret' = ret /\ ctl = "skip"
        /\ at.line < Len(Lines)
    BY <1>7 DEF SkipScript, Left, Skipping, Throws
  <2>2. /\ at \in PlaceSet(plan) /\ at.storage # NoName /\ Lines = LinesOf(plan, at.storage)
        /\ Len(Lines) \in Nat /\ at.line \in Nat /\ ~at.using /\ at.pos = 0
    BY <1>0, <2>1, SkippingPlace DEF CtlIn
  <2> DEFINE ends == {i \in at.line + 1 .. Len(Lines) - 1 : Lines[i + 1].kind = "endscript"}
             last == IF ends = {} THEN Len(Lines) ELSE CHOOSE i \in ends : \A j \in ends : i <= j
  <2>3. CASE rec.on
    <3>1. ctl' = "thrown" /\ at' = at
      BY <1>7, <2>3 DEF SkipScript, Throws
    <3> QED BY <1>0, <2>1, <3>1, FreeCtl, TLeft
  <2>4. CASE ~rec.on
    <3>1. /\ at' = [at EXCEPT !.line = IF ends # {} /\ ~Shown THEN last + 1 ELSE last]
          /\ ctl' = IF ends = {} THEN "thrown" ELSE IF Shown THEN "callback" ELSE "skip"
      BY <1>7, <2>4 DEF SkipScript
    <3>2. last \in Nat /\ last <= Len(Lines) /\ (ends # {} => last < Len(Lines))
      <4>1. CASE ends = {}
        BY <2>2, <4>1
      <4>2. CASE ends # {}
        <5>1. ends \in SUBSET Nat /\ \A i \in ends : i < Len(Lines)
          BY <2>2
        <5> HIDE DEF ends
        <5>2. \E i \in ends : \A j \in ends : i <= j
          BY <4>2, <5>1, HasSmallest
        <5>3. last \in ends
          BY <4>2, <5>2
        <5> HIDE DEF last
        <5> QED BY <2>2, <5>1, <5>3
      <4> QED BY <4>1, <4>2
    <3> HIDE DEF last, ends
    <3> DEFINE n == IF ends # {} /\ ~Shown THEN last + 1 ELSE last
    <3>3. n \in Nat /\ n <= Len(Lines) /\ (ends # {} /\ Shown => n < Len(Lines))
      BY <2>2, <3>2
    <3>4. at' = [at EXCEPT !.line = n]
      BY <3>1
    <3> HIDE DEF n
    <3>5. /\ at' \in PlaceSet(plan) /\ at'.line = n /\ at'.storage = at.storage /\ at'.pos = 0 /\ ~at'.using
      BY <2>2, <3>3, <3>4, PlaceExcept
    <3>6. PlaceIn(plan, at')
      BY <1>0, <2>2, <3>3, <3>5, LineStart
    <3>7. CtlIn(plan, at', ctl')
      BY <2>2, <3>1, <3>3, <3>5 DEF CtlIn
    <3> QED BY <1>0, <2>1, <3>6, <3>7, TLeft
  <2> QED BY <2>3, <2>4
<1> QED BY <1>1, <1>2, <1>3, <1>4, <1>5, <1>6, <1>7

\* One branch of the stack becomes the chosen one.
LEMMA FrontIn ==
  ASSUME NEW S, NEW s \in Seq(S), s # <<>>
  PROVE  Front1(s) \in Seq(S) /\ Last1(s) \in S /\ Len(Front1(s)) = Len(s) - 1
<1> DEFINE n == Len(s) - 1
           f == SubSeq(s, 1, n)
<1>1. n \in Nat /\ n + 1 = Len(s) /\ \A i \in 1 .. n : s[i] \in S
  OBVIOUS
<1> HIDE DEF n
<1>2. f \in Seq(S) /\ Len(f) = IF 1 <= n THEN n - 1 + 1 ELSE 0
  BY <1>1, SubSeqProperties
<1> HIDE DEF f
<1>3. Len(f) = n
  BY <1>1, <1>2
<1>4. Last1(s) \in S
  BY <1>1 DEF Last1
<1> QED BY <1>2, <1>3, <1>4 DEF Front1, f, n

\* The conditions keep their types.
LEMMA CondsTyped ==
  ASSUME NEW cd \in Cond, NEW b \in BOOLEAN
  PROVE  /\ AfterIf(cd, b) \in Cond /\ AfterElsif(cd, b) \in Cond /\ AfterEndif(cd) \in Cond
         /\ [AfterIf(cd, TRUE) EXCEPT !.executed = Append(cd.executed, FALSE)] \in Cond
<1>1. /\ cd.exclude \in Int /\ cd.level \in Nat /\ cd.stack \in Seq(Int) /\ cd.executed \in Seq(BOOLEAN)
  BY DEF Cond
<1>2. ASSUME NEW d \in BOOLEAN PROVE AfterIf(cd, d) \in Cond
  <2>1. Append(cd.stack, cd.exclude) \in Seq(Int) /\ Append(cd.executed, cd.exclude = -1 /\ d) \in Seq(BOOLEAN)
    BY <1>1
  <2> QED BY <1>1, <2>1 DEF AfterIf, Cond
<1>3. AfterElsif(cd, b) \in Cond
  <2>1. CASE cd.executed = <<>>
    BY <2>1 DEF AfterElsif
  <2>2. CASE cd.executed # <<>> /\ Last1(cd.executed)
    <3>1. AfterElsif(cd, b) = [cd EXCEPT !.exclude = cd.level]
      BY <2>2 DEF AfterElsif
    <3> QED BY <1>1, <3>1 DEF Cond
  <2>3. CASE cd.executed # <<>> /\ ~Last1(cd.executed) /\ cd.level = cd.exclude /\ b
    <3> DEFINE n == Len(cd.executed)
               e == [cd.executed EXCEPT ![n] = TRUE]
    <3>1. AfterElsif(cd, b) = [cd EXCEPT !.exclude = -1, !.executed[Len(cd.executed)] = TRUE]
      BY <2>3 DEF AfterElsif
    <3>2. n \in 1 .. Len(cd.executed)
      BY <1>1, <2>3
    <3>3. e \in Seq(BOOLEAN)
      BY <1>1, <3>2, SetTrue, ZenonT(30)
    <3>4. AfterElsif(cd, b) = [exclude |-> -1, level |-> cd.level, stack |-> cd.stack, executed |-> e]
      BY <3>1 DEF Cond
    <3> HIDE DEF e
    <3> QED BY <1>1, <3>3, <3>4 DEF Cond
  <2>4. CASE cd.executed # <<>> /\ ~Last1(cd.executed) /\ ~(cd.level = cd.exclude /\ b)
    BY <2>4 DEF AfterElsif
  <2> QED BY <2>1, <2>2, <2>3, <2>4
<1>4. AfterEndif(cd) \in Cond
  <2> DEFINE ex == IF cd.stack # <<>> THEN Last1(cd.stack) ELSE cd.exclude
             lv == IF cd.level > 0 THEN cd.level - 1 ELSE 0
             st == IF cd.stack # <<>> THEN Front1(cd.stack) ELSE <<>>
             ed == IF cd.executed # <<>> THEN Front1(cd.executed) ELSE <<>>
  <2>1. ex \in Int /\ st \in Seq(Int)
    BY <1>1, FrontIn
  <2>2. lv \in Nat
    BY <1>1
  <2>3. ed \in Seq(BOOLEAN)
    BY <1>1, FrontIn
  <2>4. AfterEndif(cd) = [exclude |-> ex, level |-> lv, stack |-> st, executed |-> ed]
    BY DEF AfterEndif
  <2> HIDE DEF ex, lv, st, ed
  <2> QED BY <2>1, <2>2, <2>3, <2>4 DEF Cond
<1>5. [AfterIf(cd, TRUE) EXCEPT !.executed = Append(cd.executed, FALSE)] \in Cond
  <2>1. AfterIf(cd, TRUE) \in Cond
    BY <1>2
  <2>2. Append(cd.executed, FALSE) \in Seq(BOOLEAN)
    BY <1>1
  <2>3. \A r \in Cond, e \in Seq(BOOLEAN) : [r EXCEPT !.executed = e] \in Cond
    BY DEF Cond
  <2> QED BY <2>1, <2>2, <2>3
<1> QED BY <1>2, <1>3, <1>4, <1>5

\* Recording on is a recording.
LEMMA RecTyped ==
  ASSUME rec \in RecSet, NEW t \in TagSet, NEW n \in STRING
  PROVE  /\ [t EXCEPT !.more = 0] \in InlineTags
         /\ Recorded(t) \in RecSet /\ [Recorded(t) EXCEPT !.name = n] \in RecSet
         /\ [rec EXCEPT !.name = n] \in RecSet
<1>1. [t EXCEPT !.more = 0] \in InlineTags
  <2>1. \A m \in Nat : [t EXCEPT !.more = m] \in TagSet /\ [t EXCEPT !.more = m].more = m
    BY DEF TagSet
  <2>2. [t EXCEPT !.more = 0] \in TagSet /\ [t EXCEPT !.more = 0].more = 0
    BY <2>1
  <2> QED BY <2>2 DEF InlineTags
<1> DEFINE u == [t EXCEPT !.more = 0]
<1> HIDE DEF u
<1>2. Recorded(t) \in RecSet
  <2>1. u \in InlineTags /\ Recorded(t) = IF rec.on THEN [rec EXCEPT !.str = Append(@, u)] ELSE rec
    BY <1>1 DEF Recorded, u
  <2>2. Append(rec.str, u) \in Seq(InlineTags)
    BY <2>1 DEF RecSet
  <2>3. \A r \in RecSet, s \in Seq(InlineTags) : [r EXCEPT !.str = s] \in RecSet
    BY DEF RecSet
  <2> QED BY <2>1, <2>2, <2>3
<1>3. \A r \in RecSet : [r EXCEPT !.name = n] \in RecSet
  BY DEF RecSet
<1> QED BY <1>1, <1>2, <1>3

\* The place behind what was read.
LEMMA ReadOn ==
  ASSUME WellFormed, TInv, Reading,
         \/ at' = at \/ at' = NextLine
         \/ ~AtEnd /\ (at' = StepNext \/ at' = [at EXCEPT !.pos = @ + 1])
  PROVE  PlaceIn(plan, at')
<1>1. CASE at' = at
  BY <1>1 DEF TInv
<1>2. CASE at' = NextLine
  <2>1. plan \in DOMAIN Plans /\ PlaceIn(plan, at)
    BY DEF TInv
  <2> QED BY <1>2, <2>1, NextLinePlace, ReadingPlace
<1>3. CASE ~AtEnd /\ (at' = StepNext \/ at' = [at EXCEPT !.pos = @ + 1])
  BY <1>3, StepNextPlace
<1> QED BY <1>1, <1>2, <1>3

\* The steps in the text but for those that leave it.
LEMMA TextTyped ==
  ASSUME WellFormed, TInv, NEW c \in BOOLEAN, NEW b \in BOOLEAN,
         \/ LineEndsSilently \/ LineEnds \/ Character \/ RecordTag(c) \/ ReturnTag(c) \/ SkipTag(c)
         \/ If(c, b) \/ Elsif(c, b) \/ Endif(c) \/ ExpressionThrows(c)
         \/ Macro(c) \/ EndMacro(c) \/ PopMacroArgs(c) \/ EraseMacro(c) \/ TagThrows
         \/ Ask(c) \/ Declined \/ ReturnUnderflow
  PROVE  TInv'
<1>0. /\ plan \in DOMAIN Plans /\ PlaceIn(plan, at) /\ moves \in Nat
      /\ interrupted \in BOOLEAN /\ cached \in BOOLEAN /\ ret \in {"none", "tag", "r", "interrupt", "end"}
      /\ cond \in Cond /\ rec \in RecSet /\ MacrosOK(macros) /\ ArgsIn(args)
      /\ FramesIn(plan, calls) /\ SavedIn(plan, saved)
  BY DEF TInv
<1> DEFINE Moved == /\ \/ at' = at \/ at' = NextLine
                       \/ ~AtEnd /\ (at' = StepNext \/ at' = [at EXCEPT !.pos = @ + 1])
                    /\ Reading /\ plan' = plan /\ moves' = moves /\ interrupted' = interrupted
                    /\ cached' = cached /\ ctl' \in {"script", "parse", "thrown"} /\ ret' \in {ret, "tag", "r"}
                    /\ calls' = calls /\ saved' = saved
<1>1. ASSUME Moved, cond' \in Cond, rec' \in RecSet, MacrosOK(macros'), ArgsIn(args')
      PROVE  TInv'
  <2>1. PlaceIn(plan, at')
    BY <1>1, ReadOn
  <2>2. CtlIn(plan, at', ctl')
    BY <1>1, FreeCtl
  <2> QED BY <1>0, <1>1, <2>1, <2>2, TStep
<1>2. CASE LineEndsSilently \/ ReturnTag(c) \/ Declined \/ ReturnUnderflow
  <2>1. Moved /\ UNCHANGED <<cond, rec, macros, args>>
    <3>1. CASE LineEndsSilently \/ ReturnTag(c)
      BY <3>1 DEF LineEndsSilently, ReturnTag, Tag, Parses, Returns
    <3>2. CASE Declined \/ ReturnUnderflow
      <4>1. Asked({"jump", "call", "return"}) \/ Asked({"return"})
        BY <3>2 DEF Declined, ReturnUnderflow
      <4>2. Reading /\ ~AtEnd
        BY <4>1 DEF Asked, Reading
      <4> QED BY <3>2, <4>2 DEF Declined, ReturnUnderflow, Parses, Throws
    <3> QED BY <1>2, <3>1, <3>2
  <2> HIDE DEF Moved
  <2> QED BY <1>0, <1>1, <2>1
<1>3. CASE LineEnds \/ Character
  <2>1. Moved /\ UNCHANGED <<cond, macros, args>>
    BY <1>3 DEF LineEnds, Character, Parses, Returns
  <2>2. rec' \in RecSet
    <3>1. CASE LineEnds
      <4>1. TagOf("r") \in TagSet /\ "r" \in STRING
        BY NamesAreStrings, TagOfIs
      <4>2. rec' = Recorded(TagOf("r"))
        BY <3>1 DEF LineEnds
      <4> QED BY <1>0, <4>1, <4>2, RecTyped
    <3>2. CASE Character
      <4>1. Current \in TagSet
        BY <3>2, StepNextPlace DEF Character
      <4>2. rec' = Recorded(Current) /\ NoName \in STRING
        BY <3>2, NamesAreStrings DEF Character
      <4> QED BY <1>0, <4>1, <4>2, RecTyped
    <3> QED BY <1>3, <3>1, <3>2
  <2> HIDE DEF Moved
  <2> QED BY <1>0, <1>1, <2>1, <2>2
<1>4. CASE RecordTag(c) \/ SkipTag(c) \/ TagThrows
  <2>1. Moved /\ UNCHANGED <<cond, macros, args>> /\ Reading /\ ~AtEnd
    BY <1>4 DEF RecordTag, SkipTag, TagThrows, Tag, Parses, Throws
  <2>2. Current \in TagSet
    BY <2>1, StepNextPlace
  <2>3. NameAfter \in STRING
    BY <1>0, NamesAreStrings DEF NameAfter, RecSet
  <2>4. rec' = [Recorded(Current) EXCEPT !.name = NameAfter] \/ rec' = [rec EXCEPT !.name = NameAfter]
    BY <1>4 DEF RecordTag, SkipTag, TagThrows
  <2>5. rec' \in RecSet
    BY <1>0, <2>2, <2>3, <2>4, RecTyped
  <2> HIDE DEF Moved
  <2> QED BY <1>0, <1>1, <2>1, <2>5
<1>5. CASE If(c, b) \/ Elsif(c, b) \/ Endif(c) \/ ExpressionThrows(c)
  <2>1. Moved /\ UNCHANGED <<rec, macros, args>>
    BY <1>5 DEF If, Elsif, Endif, ExpressionThrows, Handle, Tag, Parses, Throws
  <2>2. cond' \in Cond
    <3>1. cond' \in {cond, AfterIf(cond, b), AfterElsif(cond, b), AfterEndif(cond),
                     [AfterIf(cond, TRUE) EXCEPT !.executed = Append(cond.executed, FALSE)]}
      BY <1>5 DEF If, Elsif, Endif, ExpressionThrows
    <3> QED BY <1>0, <3>1, CondsTyped
  <2> HIDE DEF Moved
  <2> QED BY <1>0, <1>1, <2>1, <2>2
<1>6. CASE Macro(c)
  <2>1. Moved /\ UNCHANGED <<cond, macros, args>> /\ Reading /\ ~AtEnd
    BY <1>6 DEF Macro, Handle, Tag, Parses, Throws
  <2>2. rec' = [on |-> TRUE, name |-> Current.name, str |-> <<>>] \/ rec' = [rec EXCEPT !.name = NoName]
    BY <1>6 DEF Macro
  <2>3. Current.name \in STRING /\ NoName \in STRING
    BY <2>1, StepNextPlace, NamesAreStrings DEF TagSet
  <2>4. <<>> \in Seq(InlineTags)
    OBVIOUS
  <2>5. [on |-> TRUE, name |-> Current.name, str |-> <<>>] \in RecSet
    BY <2>3, <2>4 DEF RecSet
  <2>6. [rec EXCEPT !.name = NoName] \in RecSet
    BY <1>0, <2>3 DEF RecSet
  <2>7. rec' \in RecSet
    BY <2>2, <2>5, <2>6
  <2> HIDE DEF Moved
  <2> QED BY <1>0, <1>1, <2>1, <2>7
<1>7. CASE EndMacro(c)
  <2>1. Moved /\ UNCHANGED <<cond, args>>
    BY <1>7 DEF EndMacro, Handle, Tag, Parses, Throws
  <2>2. rec' \in {rec, NoRec} /\ (macros' = macros \/ macros' = Put(macros, rec.name, Append(rec.str, MacroPop)))
    BY <1>7 DEF EndMacro
  <2>3. Append(rec.str, MacroPop) \in Seq(InlineTags)
    <3>1. MacroPop \in InlineTags
      BY NamesAreStrings, TagOfIs DEF MacroPop
    <3> QED BY <1>0, <3>1 DEF RecSet
  <2>4. MacrosOK(macros')
    <3> DEFINE text == Append(rec.str, MacroPop)
    <3>1. MacrosOK(macros)
      BY <1>0
    <3>2. text \in Seq(InlineTags)
      BY <2>3
    <3> HIDE DEF text
    <3>3. MacrosOK(Put(macros, rec.name, text))
      BY <3>1, <3>2 DEF MacrosOK, Put
    <3> QED BY <2>2, <3>1, <3>3 DEF text
  <2> HIDE DEF Moved
  <2> QED BY <1>0, <1>1, <2>1, <2>2, <2>4, NoRecIn
<1>8. CASE PopMacroArgs(c)
  <2>1. Moved /\ UNCHANGED <<cond, rec, macros>>
    BY <1>8 DEF PopMacroArgs, Handle, Tag, Parses, Throws
  <2>2. args' = args \/ (args.depth # 0 /\ args' = [args EXCEPT !.depth = args.depth - 1])
    BY <1>8 DEF PopMacroArgs
  <2>3. args.depth \in Nat
    BY <1>0 DEF ArgsIn
  <2>4. args.depth # 0 => args.depth - 1 \in Nat
    BY <2>3
  <2>5. ArgsIn(args')
    <3>1. ASSUME NEW d \in Nat PROVE ArgsIn([args EXCEPT !.depth = d])
      BY <1>0, ArgsExcept
    <3> QED BY <1>0, <2>2, <2>4, <3>1
  <2> HIDE DEF Moved
  <2> QED BY <1>0, <1>1, <2>1, <2>5
<1>9. CASE EraseMacro(c)
  <2>1. Moved /\ UNCHANGED <<cond, rec, args>>
    BY <1>9 DEF EraseMacro, Handle, Tag, Parses, Throws
  <2>2. macros' = macros \/ macros' = [m \in DOMAIN macros \ {Current.name} |-> macros[m]]
    BY <1>9 DEF EraseMacro
  <2>3. MacrosOK(macros')
    BY <1>0, <2>2 DEF MacrosOK
  <2> HIDE DEF Moved
  <2> QED BY <1>0, <1>1, <2>1, <2>3
<1>10. CASE Ask(c)
  <2>1. /\ plan' = plan /\ Left /\ moves' = moves /\ at' = at /\ cached' = cached
        /\ interrupted' = interrupted /\ ret' = ret /\ ctl' = "asked" /\ Reading
    BY <1>10 DEF Ask, Handle, Tag, Left
  <2>2. CtlIn(plan, at', ctl')
    BY <2>1, ReadingPlace DEF CtlIn
  <2> QED BY <1>0, <2>1, <2>2, TLeft
<1> QED BY <1>2, <1>3, <1>4, <1>5, <1>6, <1>7, <1>8, <1>9, <1>10

\* The types hold when a macro or an [emb] is expanded.
LEMMA ExpandTyped ==
  ASSUME WellFormed, TInv, NEW c \in BOOLEAN, NEW text, Expand(c, text)
  PROVE  TInv'
<1>0. /\ moves \in Nat
      /\ interrupted \in BOOLEAN /\ cached \in BOOLEAN /\ ret \in {"none", "tag", "r", "interrupt", "end"}
      /\ cond \in Cond /\ rec \in RecSet /\ MacrosOK(macros) /\ ArgsIn(args)
      /\ FramesIn(plan, calls) /\ SavedIn(plan, saved)
  BY DEF TInv
<1>1. /\ plan' = plan /\ moves' = moves /\ interrupted' = interrupted /\ cached' = cached /\ ret' = ret
      /\ ctl' = "parse"
      /\ UNCHANGED <<cond, rec, macros, calls, saved>>
      /\ args' \in {args, PushMacroArgs(Current.tag)}
  BY DEF Expand, Parses
<1>2. PlaceIn(plan, at')
  BY ExpandPlace
<1>3. CtlIn(plan, at', ctl')
  BY <1>1, FreeCtl
<1>4. ArgsIn(args')
  BY <1>0, <1>1, ArgsPushed
<1> QED BY <1>0, <1>1, <1>2, <1>3, <1>4, TStep

\* What GoToStorageAndLabel ends, and where it leads.
LEMMA BrokenTyped ==
  ASSUME NEW g, g.breaks \in BOOLEAN, cond \in Cond, rec \in RecSet
  PROVE  /\ CondAfter(g) \in Cond /\ RecAfter(g) \in RecSet
         /\ \A d \in Nat, b \in Nat : DepthAfter(g, d, b) \in {d, b}
  BY NoCondIn, NoRecIn DEF CondAfter, RecAfter, DepthAfter

\* Whether a jump breaks the conditions is known.
LEMMA BreaksIs ==
  ASSUME NEW from, NEW storage, NEW target
  PROVE  GoTo(from, storage, target).breaks \in BOOLEAN
<1> DEFINE a == IF storage = NoName THEN from
                ELSE IF storage \in DOMAIN program THEN Start(storage) ELSE Nowhere
           named == storage # NoName
<1>1. CASE storage # NoName /\ a = Nowhere
  BY <1>1 DEF GoTo
<1>2. CASE ~(storage # NoName /\ a = Nowhere) /\ target = NoLabel
  <2>1. GoTo(from, storage, target).breaks = named
    BY <1>2 DEF GoTo
  <2> QED BY <2>1
<1>3. CASE ~(storage # NoName /\ a = Nowhere) /\ target # NoLabel /\ target \in DOMAIN Labels(a.storage).cache
  BY <1>3 DEF GoTo
<1>4. CASE ~(storage # NoName /\ a = Nowhere) /\ target # NoLabel /\ target \notin DOMAIN Labels(a.storage).cache
  <2>1. GoTo(from, storage, target).breaks = named
    BY <1>4 DEF GoTo
  <2> QED BY <2>1
<1> QED BY <1>1, <1>2, <1>3, <1>4

\* Jumps, calls and returns.
LEMMA JumpsTyped ==
  ASSUME WellFormed, TInv, Jump \/ Call \/ ReturnTo \/ ReturnBack
  PROVE  TInv'
<1>0. /\ plan \in DOMAIN Plans /\ PlaceIn(plan, at) /\ moves \in Nat
      /\ interrupted \in BOOLEAN /\ cached \in BOOLEAN /\ ret \in {"none", "tag", "r", "interrupt", "end"}
      /\ cond \in Cond /\ rec \in RecSet /\ MacrosOK(macros) /\ ArgsIn(args)
      /\ FramesIn(plan, calls) /\ SavedIn(plan, saved)
      /\ args.depth \in Nat /\ args.base \in Nat
  BY ArgsExcept DEF TInv
<1>1. /\ Reading /\ ~AtEnd /\ plan' = plan /\ UNCHANGED <<macros, interrupted, cached, saved, moves, ret>>
      /\ ctl' \in {"thrown", "start", "returned"}
  BY DEF Jump, Call, ReturnTo, ReturnBack, Asked, Reading, Arrives
<1>2. at.storage # NoName
  BY <1>1, ReadingPlace
<1>3. ASSUME PlaceIn(plan, at'), cond' \in Cond, rec' \in RecSet, ArgsIn(args'), FramesIn(plan, calls') PROVE TInv'
  <2>1. CtlIn(plan, at', ctl')
    BY <1>1, FreeCtl
  <2> QED BY <1>0, <1>1, <1>3, <2>1, TStep
<1>4. CASE Jump
  <2>1. PICK g : /\ g = GoTo(at, Current.storage, Current.target)
                 /\ at' = g.at /\ cond' = CondAfter(g) /\ rec' = RecAfter(g)
                 /\ args' = [args EXCEPT !.depth = DepthAfter(g, @, args.base)]
                 /\ calls' = calls
    BY <1>4 DEF Jump
  <2>2. PlaceIn(plan, at')
    BY <1>0, <1>2, <2>1, GoToPlace
  <2>3. g.breaks \in BOOLEAN
    BY <2>1, BreaksIs
  <2>4. cond' \in Cond /\ rec' \in RecSet /\ DepthAfter(g, args.depth, args.base) \in Nat
    BY <1>0, <2>1, <2>3, BrokenTyped
  <2>5. ArgsIn(args')
    <3>1. ASSUME NEW d \in Nat PROVE ArgsIn([args EXCEPT !.depth = d])
      BY <1>0, ArgsExcept
    <3> QED BY <2>1, <2>4, <3>1
  <2> QED BY <1>0, <1>3, <2>1, <2>2, <2>4, <2>5
<1>5. CASE Call
  <2>1. PICK next, g : /\ next = StepNext /\ g = GoTo(next, Current.storage, Current.target)
                       /\ calls' = PushCallStack(next)
                       /\ at' = g.at /\ cond' = CondAfter(g) /\ rec' = RecAfter(g)
                       /\ args' = [args EXCEPT !.base = args.depth]
    BY <1>5 DEF Call
  <2>2. PlaceIn(plan, next) /\ next.storage # NoName
    BY <1>1, <1>2, <2>1, StepNextPlace
  <2>3. PlaceIn(plan, at')
    BY <1>0, <2>1, <2>2, GoToPlace
  <2>4. FramesIn(plan, calls')
    BY <1>0, <2>1, <2>2, PushedFrames
  <2>5. g.breaks \in BOOLEAN
    BY <2>1, BreaksIs
  <2>6. cond' \in Cond /\ rec' \in RecSet
    BY <1>0, <2>1, <2>5, BrokenTyped
  <2>7. ArgsIn(args')
    BY <1>0, <2>1, ArgsExcept
  <2> QED BY <1>3, <2>3, <2>4, <2>6, <2>7
<1>6. CASE ReturnTo
  <2>1. PICK g, f : /\ g = GoTo(at, Current.storage, Current.target) /\ f = Last1(calls)
                    /\ at' = g.at /\ cond' = CondAfter(g) /\ rec' = RecAfter(g)
                    /\ args' = [args EXCEPT !.depth = f.depth, !.base = IF g.throws THEN f.depth ELSE f.base]
                    /\ calls' = IF g.throws THEN calls ELSE Front1(calls)
                    /\ calls # <<>>
    BY <1>6 DEF ReturnTo
  <2>2. PlaceIn(plan, at')
    BY <1>0, <1>2, <2>1, GoToPlace
  <2>3. g.breaks \in BOOLEAN
    BY <2>1, BreaksIs
  <2>4. cond' \in Cond /\ rec' \in RecSet
    BY <1>0, <2>1, <2>3, BrokenTyped
  <2>5. FramesIn(plan, calls') /\ f.depth \in Nat /\ f.base \in Nat
    BY <1>0, <2>1, PoppedFrames DEF FrameIn, FrameSet
  <2>6. ArgsIn(args')
    <3>1. ASSUME NEW d \in Nat, NEW b \in Nat PROVE ArgsIn([args EXCEPT !.depth = d, !.base = b])
      BY <1>0, ArgsExcept
    <3> QED BY <2>1, <2>5, <3>1
  <2> QED BY <1>3, <2>2, <2>4, <2>5, <2>6
<1>7. CASE ReturnBack
  <2>1. PICK f, p : /\ f = Last1(calls) /\ p = ReturnPlace(f, GoTo(at, f.storage, f.label))
                    /\ at' = p.at /\ cond' = (IF p.throws THEN NoCond ELSE f.cond) /\ rec' = NoRec
                    /\ args' = [args EXCEPT !.depth = f.depth, !.base = IF p.throws THEN f.depth ELSE f.base]
                    /\ calls' = IF p.throws THEN calls ELSE Front1(calls)
                    /\ calls # <<>>
    BY <1>7 DEF ReturnBack
  <2>2. FrameIn(plan, f) /\ FramesIn(plan, Front1(calls))
    BY <1>0, <2>1, PoppedFrames
  <2>3. p.at = f.site /\ p.throws = FALSE
    BY <1>0, <2>1, <2>2, ReturnIsSite
  <2>4. PlaceIn(plan, at') /\ f.cond \in Cond /\ f.depth \in Nat /\ f.base \in Nat
    BY <2>1, <2>2, <2>3 DEF FrameIn, FrameSet
  <2>5. FramesIn(plan, calls') /\ cond' \in Cond /\ rec' \in RecSet
    BY <2>1, <2>2, <2>3, <2>4, NoRecIn
  <2>6. ArgsIn(args')
    <3>1. ASSUME NEW d \in Nat, NEW b \in Nat PROVE ArgsIn([args EXCEPT !.depth = d, !.base = b])
      BY <1>0, ArgsExcept
    <3> QED BY <2>1, <2>3, <2>4, <3>1
  <2> QED BY <1>3, <2>4, <2>5, <2>6
<1> QED BY <1>4, <1>5, <1>6, <1>7

\* The conditions that restore() makes of a string keep their types.
\* A digit of a number, and the number that eight digits are.
LEMMA DigitIsInt ==
  ASSUME NEW v \in Int, NEW j \in 1 .. 8
  PROVE  Digit(v, Weight[j]) \in Int
<1> DEFINE w == Weight[j]
<1>1. w \in {268435456, 16777216, 1048576, 65536, 4096, 256, 16, 1}
  BY SMT DEF Weight
<1>2. \A u \in Int, x \in {268435456, 16777216, 1048576, 65536, 4096, 256, 16, 1} : (u \div x) % 16 \in Int
  BY SMT
<1>3. -1 - v \in Int
  OBVIOUS
<1> HIDE DEF w
<1>4. (v \div w) % 16 \in Int
  BY <1>1, <1>2
<1>5. ((-1 - v) \div w) % 16 \in Int
  BY <1>1, <1>2, <1>3
<1> DEFINE a == (v \div w) % 16
           b == ((-1 - v) \div w) % 16
<1>6. Digit(v, w) = IF v < 0 THEN 15 - b ELSE a
  BY DEF Digit
<1> HIDE DEF a, b
<1>7. Digit(v, w) \in Int
  BY <1>4, <1>5, <1>6 DEF a, b
<1> QED BY <1>7 DEF w

\* Eight digits are a number.
LEMMA HexIsInt ==
  ASSUME NEW str, NEW i \in Int,
         str[i] \in Int, str[i + 1] \in Int, str[i + 2] \in Int, str[i + 3] \in Int,
         str[i + 4] \in Int, str[i + 5] \in Int, str[i + 6] \in Int, str[i + 7] \in Int
  PROVE  Hex(str, i) \in Int
<1>1. \A u, w \in Int : u * w \in Int
  OBVIOUS
<1>2. /\ Weight[1] \in Int /\ Weight[2] \in Int /\ Weight[3] \in Int /\ Weight[4] \in Int
      /\ Weight[5] \in Int /\ Weight[6] \in Int /\ Weight[7] \in Int
  BY SMT DEF Weight
<1> DEFINE u  == IF str[i] >= 8 THEN str[i] - 16 ELSE str[i]
           a1 == u * Weight[1]
           a2 == str[i + 1] * Weight[2]
           a3 == str[i + 2] * Weight[3]
           a4 == str[i + 3] * Weight[4]
           a5 == str[i + 4] * Weight[5]
           a6 == str[i + 5] * Weight[6]
           a7 == str[i + 6] * Weight[7]
<1>3. Hex(str, i) = a1 + a2 + a3 + a4 + a5 + a6 + a7 + str[i + 7]
  BY Zenon DEF Hex
<1>4. u \in Int
  OBVIOUS
<1> HIDE DEF u
<1>5. a1 \in Int /\ a2 \in Int /\ a3 \in Int /\ a4 \in Int /\ a5 \in Int /\ a6 \in Int /\ a7 \in Int
  BY <1>1, <1>2, <1>4, Zenon
<1> HIDE DEF a1, a2, a3, a4, a5, a6, a7
<1> QED BY <1>3, <1>5

\* Conditions that were stored and restored are conditions again.
LEMMA RestoredTyped ==
  ASSUME NEW c \in Cond
  PROVE  Restored(c) \in Cond
<1> DEFINE q == c.stack
           n == Len(q)
           str == StoreIntStackToDic(q)
           back == RestoreIntStackFromStr(str)
<1>1. q \in Seq(Int) /\ n \in Nat
  BY DEF Cond
<1>2. ASSUME NEW k \in 1 .. 8 * n PROVE str[k] \in Int
  <2>1. (k - 1) \div 8 + 1 \in 1 .. n /\ ((k - 1) % 8) + 1 \in 1 .. 8
    <3>1. k - 1 \in 0 .. 8 * n - 1
      BY <1>1
    <3>2. \A j \in 0 .. 8 * n - 1 : j \div 8 \in 0 .. n - 1 /\ j % 8 \in 0 .. 7
      BY <1>1
    <3>3. (k - 1) \div 8 \in 0 .. n - 1 /\ (k - 1) % 8 \in 0 .. 7
      BY <3>1, <3>2
    <3> QED BY <1>1, <3>3
  <2>2. q[(k - 1) \div 8 + 1] \in Int
    BY <1>1, <2>1
  <2>3. ((k - 1) % 8) + 1 \in 1 .. 8
    BY <2>1
  <2>4. str[k] = Digit(q[(k - 1) \div 8 + 1], Weight[((k - 1) % 8) + 1])
    BY <1>1, SMT DEF StoreIntStackToDic
  <2> QED BY <2>2, <2>3, <2>4, DigitIsInt
<1>3. Len(str) = 8 * n /\ Len(str) \div 8 = n
  BY <1>1 DEF StoreIntStackToDic
<1> HIDE DEF str
<1>4. ASSUME NEW i \in 1 .. n PROVE Hex(str, i) \in Int
  <2>1. /\ i \in 1 .. 8 * n /\ i + 1 \in 1 .. 8 * n /\ i + 2 \in 1 .. 8 * n /\ i + 3 \in 1 .. 8 * n
        /\ i + 4 \in 1 .. 8 * n /\ i + 5 \in 1 .. 8 * n /\ i + 6 \in 1 .. 8 * n /\ i + 7 \in 1 .. 8 * n
    <3>1. \A l \in Nat : \A j \in 1 .. l :
            /\ j \in 1 .. 8 * l /\ j + 1 \in 1 .. 8 * l /\ j + 2 \in 1 .. 8 * l /\ j + 3 \in 1 .. 8 * l
            /\ j + 4 \in 1 .. 8 * l /\ j + 5 \in 1 .. 8 * l /\ j + 6 \in 1 .. 8 * l /\ j + 7 \in 1 .. 8 * l
      OBVIOUS
    <3>2. n \in Nat
      BY <1>1
    <3> HIDE DEF n
    <3> QED BY <3>1, <3>2
  <2>2. /\ str[i] \in Int /\ str[i + 1] \in Int /\ str[i + 2] \in Int /\ str[i + 3] \in Int
        /\ str[i + 4] \in Int /\ str[i + 5] \in Int /\ str[i + 6] \in Int /\ str[i + 7] \in Int
    BY <1>2, <2>1
  <2>3. i \in Int
    OBVIOUS
  <2> HIDE DEF n
  <2> QED BY <2>2, <2>3, HexIsInt
<1>5. back \in Seq(Int)
  <2>1. back = [i \in 1 .. n |-> Hex(str, i)]
    BY <1>3 DEF RestoreIntStackFromStr
  <2> HIDE DEF back
  <2> QED BY <1>1, <1>4, <2>1
<1> HIDE DEF back
<1>6. \A s \in Seq(Int) : [c EXCEPT !.stack = s] \in Cond
  BY DEF Cond
<1>7. Restored(c) = [c EXCEPT !.stack = back]
  BY DEF Restored, back, str
<1> QED BY <1>5, <1>6, <1>7

\* So are the frames, and what is ahead of a caller stays.
LEMMA RestoredFrames ==
  ASSUME NEW p, NEW cs, FramesIn(p, cs)
  PROVE  LET r == [i \in DOMAIN cs |-> [cs[i] EXCEPT !.cond = Restored(@)]]
         IN  /\ FramesIn(p, r) /\ Len(r) = Len(cs) /\ Len(cs) \in Nat
             /\ \A i \in 1 .. Len(cs) : /\ r[i].base = cs[i].base /\ r[i].depth = cs[i].depth
                                        /\ r[i].buffer = cs[i].buffer /\ r[i].pos = cs[i].pos
                                        /\ r[i].using = cs[i].using
<1> DEFINE r == [i \in DOMAIN cs |-> [cs[i] EXCEPT !.cond = Restored(@)]]
<1>1. cs \in Seq(FrameSet(p)) /\ Len(cs) \in Nat /\ DOMAIN cs = 1 .. Len(cs)
  BY DEF FramesIn
<1>2. ASSUME NEW f, FrameIn(p, f)
      PROVE  LET h == [f EXCEPT !.cond = Restored(@)]
             IN  /\ FrameIn(p, h) /\ h \in FrameSet(p) /\ h.base = f.base /\ h.depth = f.depth
                 /\ h.buffer = f.buffer /\ h.pos = f.pos /\ h.using = f.using
  <2> DEFINE h == [f EXCEPT !.cond = Restored(@)]
  <2>1. f \in FrameSet(p) /\ Restored(f.cond) \in Cond
    <3>1. f \in FrameSet(p) /\ f.cond \in Cond
      BY <1>2 DEF FrameIn, FrameSet
    <3> QED BY <3>1, RestoredTyped
  <2>2. \A g \in FrameSet(p), d \in Cond :
          /\ [g EXCEPT !.cond = d] \in FrameSet(p)
          /\ [g EXCEPT !.cond = d].storage = g.storage /\ [g EXCEPT !.cond = d].label = g.label
          /\ [g EXCEPT !.cond = d].offset = g.offset /\ [g EXCEPT !.cond = d].org = g.org
          /\ [g EXCEPT !.cond = d].buffer = g.buffer /\ [g EXCEPT !.cond = d].pos = g.pos
          /\ [g EXCEPT !.cond = d].using = g.using /\ [g EXCEPT !.cond = d].base = g.base
          /\ [g EXCEPT !.cond = d].depth = g.depth /\ [g EXCEPT !.cond = d].site = g.site
    BY DEF FrameSet
  <2>3. /\ h \in FrameSet(p) /\ h.storage = f.storage /\ h.label = f.label /\ h.offset = f.offset
        /\ h.org = f.org /\ h.buffer = f.buffer /\ h.pos = f.pos /\ h.using = f.using /\ h.base = f.base
        /\ h.depth = f.depth /\ h.site = f.site
    <3>1. h = [f EXCEPT !.cond = Restored(f.cond)]
      OBVIOUS
    <3> QED BY <2>1, <2>2, <3>1
  <2> HIDE DEF h
  <2>4. FrameIn(p, h)
    BY <1>2, <2>3 DEF FrameIn
  <2> QED BY <2>3, <2>4 DEF h
<1>3. ASSUME NEW i \in 1 .. Len(cs)
      PROVE  /\ FrameIn(p, r[i]) /\ r[i] \in FrameSet(p) /\ r[i].base = cs[i].base /\ r[i].depth = cs[i].depth
             /\ r[i].buffer = cs[i].buffer /\ r[i].pos = cs[i].pos /\ r[i].using = cs[i].using
  <2>1. FrameIn(p, cs[i])
    BY DEF FramesIn
  <2>2. r[i] = [cs[i] EXCEPT !.cond = Restored(@)]
    BY <1>1
  <2> QED BY <1>2, <2>1, <2>2
<1>4. r \in Seq(FrameSet(p)) /\ Len(r) = Len(cs)
  <2>1. r = [i \in 1 .. Len(cs) |-> r[i]]
    BY <1>1
  <2> HIDE DEF r
  <2> QED BY <1>1, <1>3, <2>1
<1> HIDE DEF r
<1> QED BY <1>1, <1>3, <1>4 DEF FramesIn, r

\* Where the thread is after a method.
LEMMA BackCtl ==
  ASSUME TInv, NEW throws, ctl \in MayGoOn,
         ctl' = (IF throws THEN "thrown" ELSE IF ctl = "thrown" THEN "script" ELSE ctl),
         at' = at \/ at'.storage = NoName \/ at'.line < Len(LinesOf(plan, at'.storage))
  PROVE  CtlIn(plan, at', ctl')
<1>1. CtlIn(plan, at, ctl)
  BY DEF TInv
<1> QED BY <1>1 DEF CtlIn, MayGoOn, MayMove

\* The methods.
LEMMA MethodsTyped ==
  ASSUME WellFormed, TInv,
         \/ \E s \in DOMAIN program : LoadScenario(s)
         \/ \E l \in LabelsOf(program) : GoToLabel(l) \/ CallLabel(l)
         \/ Clear \/ ClearCallStack \/ Interrupt \/ ResetInterrupt \/ Store \/ Restore
  PROVE  TInv'
<1>0. /\ plan \in DOMAIN Plans /\ PlaceIn(plan, at) /\ moves \in Nat /\ CtlIn(plan, at, ctl)
      /\ interrupted \in BOOLEAN /\ cached \in BOOLEAN /\ ret \in {"none", "tag", "r", "interrupt", "end"}
      /\ cond \in Cond /\ rec \in RecSet /\ MacrosOK(macros) /\ ArgsIn(args)
      /\ FramesIn(plan, calls) /\ SavedIn(plan, saved)
      /\ args.depth \in Nat /\ args.base \in Nat
  BY ArgsExcept DEF TInv
<1>1. /\ moves > 0 /\ moves' = moves - 1 /\ plan' = plan
      /\ ret' = ret /\ interrupted' \in {interrupted, TRUE, FALSE} /\ cached' \in BOOLEAN
  <2>1. /\ moves > 0 /\ moves' = moves - 1 /\ plan' = plan
        /\ ret' = ret /\ interrupted' \in {interrupted, TRUE, FALSE}
    BY DEF LoadScenario, GoToLabel, CallLabel, Clear, ClearCallStack, Interrupt, ResetInterrupt, Store, Restore,
           Moves, Back
  <2>2. cached' \in BOOLEAN
    <3>1. ASSUME NEW s, LoadScenario(s) PROVE cached' \in BOOLEAN
      BY <1>0, <3>1 DEF LoadScenario
    <3>2. ASSUME Restore PROVE cached' \in BOOLEAN
      BY <3>2 DEF Restore
    <3>3. ASSUME NEW l, GoToLabel(l) \/ CallLabel(l) PROVE cached' \in BOOLEAN
      BY <3>3 DEF GoToLabel, CallLabel
    <3>4. CASE Clear \/ ClearCallStack \/ Interrupt \/ ResetInterrupt \/ Store
      <4>1. cached' = cached
        BY <3>4 DEF Clear, ClearCallStack, Interrupt, ResetInterrupt, Store
      <4> QED BY <1>0, <4>1
    <3> QED BY <3>1, <3>2, <3>3, <3>4
  <2> QED BY <2>1, <2>2
<1>2. moves' \in Nat /\ interrupted' \in BOOLEAN /\ cached' \in BOOLEAN
  <2>1. moves' \in Nat
    BY <1>0, <1>1
  <2>2. interrupted' \in BOOLEAN
    BY <1>0, <1>1, Zenon
  <2> QED BY <1>1, <2>1, <2>2
<1>3. ASSUME ctl \in MayGoOn, NEW g, PlaceIn(plan, g.at), at' = g.at,
             g.at = at \/ g.at.storage = NoName \/ g.at.line < Len(LinesOf(plan, g.at.storage)),
             ctl' = (IF g.throws THEN "thrown" ELSE IF ctl = "thrown" THEN "script" ELSE ctl),
             cond' \in Cond, rec' \in RecSet, MacrosOK(macros'), ArgsIn(args'), FramesIn(plan, calls'),
             saved' = saved
      PROVE  TInv'
  <2>1. CtlIn(plan, at', ctl')
    BY <1>1, <1>3, BackCtl
  <2> QED BY <1>0, <1>1, <1>2, <1>3, <2>1, TStep
<1>4. ASSUME NEW s \in DOMAIN program, LoadScenario(s) PROVE TInv'
  <2>1. PICK g : /\ g = GoTo(at, s, NoLabel) /\ at' = g.at /\ cond' = NoCond /\ rec' = NoRec
                 /\ args' = [args EXCEPT !.depth = args.base]
                 /\ ctl' = (IF g.throws THEN "thrown" ELSE IF ctl = "thrown" THEN "script" ELSE ctl)
                 /\ UNCHANGED <<macros, calls, saved>> /\ ctl \in MayGoOn
    BY <1>4 DEF LoadScenario, Back, Moves
  <2>2. PlaceIn(plan, g.at) /\ (g.at = at \/ g.at.storage = NoName \/ g.at.line < Len(LinesOf(plan, g.at.storage)))
    BY <1>0, <2>1, GoToPlace
  <2>3. ArgsIn(args')
    BY <1>0, <2>1, ArgsExcept
  <2> QED BY <1>0, <1>3, <2>1, <2>2, <2>3, NoCondIn, NoRecIn
<1>5. ASSUME NEW l, GoToLabel(l) PROVE TInv'
  <2>1. PICK g : /\ g = GoTo(at, NoName, l) /\ at' = g.at /\ cond' = CondAfter(g) /\ rec' = RecAfter(g)
                 /\ args' = [args EXCEPT !.depth = DepthAfter(g, @, args.base)]
                 /\ ctl' = (IF g.throws THEN "thrown" ELSE IF ctl = "thrown" THEN "script" ELSE ctl)
                 /\ UNCHANGED <<macros, calls, saved>> /\ Loaded /\ ctl \in MayGoOn
    BY <1>5 DEF GoToLabel, Back, Moves
  <2>2. PlaceIn(plan, g.at) /\ (g.at = at \/ g.at.storage = NoName \/ g.at.line < Len(LinesOf(plan, g.at.storage)))
    BY <1>0, <2>1, GoToPlace DEF Loaded
  <2>3. g.breaks \in BOOLEAN
    BY <2>1, BreaksIs
  <2>4. cond' \in Cond /\ rec' \in RecSet /\ DepthAfter(g, args.depth, args.base) \in Nat
    BY <1>0, <2>1, <2>3, BrokenTyped
  <2>5. ArgsIn(args')
    <3>1. ASSUME NEW d \in Nat PROVE ArgsIn([args EXCEPT !.depth = d])
      BY <1>0, ArgsExcept
    <3> QED BY <2>1, <2>4, <3>1
  <2> QED BY <1>0, <1>3, <2>1, <2>2, <2>4, <2>5
<1>6. ASSUME NEW l, CallLabel(l) PROVE TInv'
  <2>1. PICK g : /\ g = GoTo(at, NoName, l) /\ at' = g.at /\ cond' = CondAfter(g) /\ rec' = RecAfter(g)
                 /\ args' = [args EXCEPT !.base = args.depth] /\ calls' = PushCallStack(at)
                 /\ ctl' = (IF g.throws THEN "thrown" ELSE IF ctl = "thrown" THEN "script" ELSE ctl)
                 /\ UNCHANGED <<macros, saved>> /\ Loaded /\ ctl \in MayGoOn
    BY <1>6 DEF CallLabel, Back, Moves, MayGoOn
  <2>2. PlaceIn(plan, g.at) /\ (g.at = at \/ g.at.storage = NoName \/ g.at.line < Len(LinesOf(plan, g.at.storage)))
    BY <1>0, <2>1, GoToPlace DEF Loaded
  <2>3. g.breaks \in BOOLEAN
    BY <2>1, BreaksIs
  <2>4. cond' \in Cond /\ rec' \in RecSet
    BY <1>0, <2>1, <2>3, BrokenTyped
  <2>5. ArgsIn(args')
    BY <1>0, <2>1, ArgsExcept
  <2>6. FramesIn(plan, calls')
    BY <1>0, <2>1, PushedFrames DEF Loaded
  <2> QED BY <1>0, <1>3, <2>1, <2>2, <2>4, <2>5, <2>6
<1>7. CASE Clear
  <2>1. /\ at' = Nowhere /\ cond' = NoCond /\ rec' = NoRec
        /\ args' = [list |-> <<>>, depth |-> 0, base |-> 0] /\ calls' = <<>>
        /\ ctl' = (IF FALSE THEN "thrown" ELSE IF ctl = "thrown" THEN "script" ELSE ctl)
        /\ UNCHANGED <<macros, saved>> /\ ctl \in MayGoOn
    BY <1>7 DEF Clear, Back, Moves
  <2>2. ArgsIn([list |-> <<>>, depth |-> 0, base |-> 0])
    BY DEF ArgsIn
  <2>3. FramesIn(plan, <<>>)
    BY DEF FramesIn
  <2>4. PlaceIn(plan, at') /\ at'.storage = NoName
    <3>1. Nowhere.storage = NoName
      BY DEF Nowhere
    <3> QED BY <1>0, <2>1, <3>1, NowherePlace
  <2>5. CtlIn(plan, at', ctl')
    BY <1>1, <2>1, <2>4, BackCtl
  <2> QED BY <1>0, <1>1, <1>2, <2>1, <2>2, <2>3, <2>4, <2>5, NoCondIn, NoRecIn, TStep
<1>8. CASE ClearCallStack
  <2>1. /\ calls' = <<>> /\ args' = [args EXCEPT !.depth = 0, !.base = 0]
        /\ UNCHANGED <<at, ctl, cond, rec, macros, saved>>
    BY <1>8 DEF ClearCallStack
  <2>2. ArgsIn(args')
    BY <1>0, <2>1, ArgsExcept
  <2>3. FramesIn(plan, <<>>)
    BY DEF FramesIn
  <2> QED BY <1>0, <1>1, <1>2, <2>1, <2>2, <2>3, TStep
<1>9. CASE Interrupt \/ ResetInterrupt
  <2>1. UNCHANGED <<at, ctl, cond, rec, macros, args, calls, saved>>
    BY <1>9 DEF Interrupt, ResetInterrupt
  <2> QED BY <1>0, <1>1, <1>2, <2>1, TStep
<1>10. CASE Store
  <2>1. UNCHANGED <<at, ctl, cond, rec, macros, args, calls>> /\ Loaded
    BY <1>10 DEF Store
  <2> DEFINE L == SubSeq(args.list, 1, args.depth)
             d == [macros |-> macros, storage |-> at.storage, label |-> label, cond |-> cond, calls |-> calls,
                   args |-> [args EXCEPT !.list = SubSeq(@, 1, args.depth)]]
  <2>2. saved' = <<d>>
    BY <1>10 DEF Store
  <2>3. ArgsIn([args EXCEPT !.list = L])
    <3> DEFINE K == {args.list}
               M == {L}
    <3>1. L \in M /\ args \in [list : K, depth : Nat, base : Nat]
      BY <1>0 DEF ArgsIn
    <3> HIDE DEF K, L, M
    <3>2. [args EXCEPT !.list = L].list = L /\ [args EXCEPT !.list = L] \in [list : M, depth : Nat, base : Nat]
      BY <3>1
    <3> QED BY <3>2 DEF ArgsIn, M
  <2>4. /\ d.macros = macros /\ d.storage = at.storage /\ d.cond = cond /\ d.calls = calls
        /\ d.args = [args EXCEPT !.list = L]
    OBVIOUS
  <2> HIDE DEF d, L
  <2>5. at.storage \in DOMAIN Plans[plan].scenario /\ at.storage # NoName
    BY <1>0, <2>1 DEF PlaceIn, PlaceSet, Loaded
  <2>6. StateIn(plan, d)
    BY <1>0, <2>3, <2>4, <2>5 DEF StateIn
  <2>7. SavedIn(plan, saved')
    BY <2>2, <2>6 DEF SavedIn
  <2> QED BY <1>0, <1>1, <1>2, <2>1, <2>7, TStep
<1>11. CASE Restore
  <2>1. PICK d, g : /\ d = saved[1] /\ g = GoTo(Nowhere, d.storage, d.label)
                    /\ macros' = d.macros
                    /\ calls' = [i \in DOMAIN d.calls |-> [d.calls[i] EXCEPT !.cond = Restored(@)]]
                    /\ at' = g.at
                    /\ args' = IF g.throws THEN [d.args EXCEPT !.base = d.args.depth] ELSE d.args
                    /\ cond' = IF g.throws THEN NoCond ELSE Restored(d.cond)
                    /\ rec' = NoRec
                    /\ ctl' = (IF g.throws THEN "thrown" ELSE IF ctl = "thrown" THEN "script" ELSE ctl)
                    /\ saved' = saved /\ saved # <<>> /\ ctl \in MayGoOn
    BY <1>11 DEF Restore, Back, Moves
  <2>2. StateIn(plan, d)
    BY <1>0, <2>1 DEF SavedIn
  <2>3. /\ MacrosOK(d.macros) /\ d.storage \in DOMAIN Plans[plan].scenario /\ d.storage # NoName
        /\ d.cond \in Cond /\ FramesIn(plan, d.calls) /\ ArgsIn(d.args)
    BY <2>2 DEF StateIn
  <2>4. PlaceIn(plan, g.at) /\ (g.at = at \/ g.at.storage = NoName \/ g.at.line < Len(LinesOf(plan, g.at.storage)))
    <3>1. PlaceIn(plan, Nowhere) /\ Nowhere.storage = NoName
      BY <1>0, NowherePlace DEF Nowhere
    <3>2. /\ PlaceIn(plan, g.at)
          /\ g.at = Nowhere \/ g.at.storage = NoName \/ g.at.line < Len(LinesOf(plan, g.at.storage))
      BY <1>0, <2>1, <2>3, <3>1, GoToPlace
    <3> QED BY <3>1, <3>2
  <2>5. cond' \in Cond
    BY <2>1, <2>3, NoCondIn, RestoredTyped
  <2>6. ArgsIn(args')
    <3>1. d.args.depth \in Nat /\ \A b \in Nat : ArgsIn([d.args EXCEPT !.base = b])
      BY <2>3, ArgsExcept
    <3> QED BY <2>1, <2>3, <3>1
  <2>7. FramesIn(plan, calls')
    BY <2>1, <2>3, RestoredFrames
  <2> QED BY <1>3, <2>1, <2>3, <2>4, <2>5, <2>6, <2>7, NoRecIn
<1> QED BY <1>4, <1>5, <1>6, <1>7, <1>8, <1>9, <1>10, <1>11

-----------------------------------------------------------------------------
\* The types hold at first.
LEMMA TInvStarts == ASSUME WellFormed, Init PROVE TInv
<1>1. /\ plan \in DOMAIN Plans /\ moves = Plans[plan].moves /\ at = Start(Main)
      /\ cond = NoCond /\ rec = NoRec /\ macros = <<>> /\ args = [list |-> <<>>, depth |-> 0, base |-> 0]
      /\ calls = <<>> /\ interrupted = FALSE /\ cached = FALSE /\ ctl = "script" /\ ret = "none" /\ saved = <<>>
  BY DEF Init
<1>2. moves \in Nat /\ Main \in DOMAIN Plans[plan].scenario /\ NoName \notin DOMAIN Plans[plan].scenario
  BY <1>1, KagAssumption
<1>3. PlaceIn(plan, at)
  BY <1>1, <1>2, StartPlace
<1>4. CtlIn(plan, at, ctl)
  BY <1>1, FreeCtl
<1>5. ArgsIn(args)
  BY <1>1 DEF ArgsIn
<1>6. FramesIn(plan, calls) /\ SavedIn(plan, saved) /\ MacrosOK(macros)
  BY <1>1 DEF FramesIn, SavedIn, MacrosOK
<1> QED BY <1>1, <1>2, <1>3, <1>4, <1>5, <1>6, NoCondIn, NoRecIn DEF TInv

\* The types hold after every step.
LEMMA TInvKept == ASSUME WellFormed, TInv, [Next]_vars PROVE TInv'
<1>1. CASE GetNextTagStep
  BY <1>1, LoopTyped, TextTyped, ExpandTyped, JumpsTyped DEF GetNextTagStep
<1>2. CASE Script
  BY <1>2, LoopTyped, MethodsTyped DEF Script
<1>3. CASE UNCHANGED vars
  BY <1>3 DEF vars, TInv
<1> QED BY <1>1, <1>2, <1>3 DEF Next

\* The invariant gives the types of the variables.
LEMMA TInvTypes == ASSUME TInv PROVE TypeOK
<1>1. /\ at \in PlaceSet(plan) /\ cond \in Cond /\ args.depth \in Nat /\ args.base \in Nat
  BY ArgsExcept DEF TInv, PlaceIn
<1> QED BY <1>1 DEF TypeOK, TInv, PlaceSet, Cond, CtlIn, program

\* For every well formed set of scenarios the state of the parser has its types:
\* the place is a line and a tag that exist wherever a tag is read, each frame
\* holds the place it was made at, and the digits that were stored come back.
THEOREM ParserTypes == WellFormed => (Spec => []TypeOK)
<1> SUFFICES ASSUME WellFormed PROVE Spec => []TypeOK
  OBVIOUS
<1>1. Init => TInv
  BY TInvStarts
<1>2. TInv /\ [Next]_vars => TInv'
  BY TInvKept
<1>3. TInv => TypeOK
  BY TInvTypes
<1> QED BY <1>1, <1>2, <1>3, PTL DEF Spec

\* A return without a place leads to where the call was.
LEMMA ReturnFindsSite ==
  ASSUME WellFormed, TInv, ReturnBack
  PROVE  ctl' = "returned" /\ at' = Last1(calls).site
<1>1. PICK f, p : /\ f = Last1(calls) /\ p = ReturnPlace(f, GoTo(at, f.storage, f.label))
                  /\ at' = p.at /\ ctl' = (IF p.throws THEN "thrown" ELSE "returned")
                  /\ calls # <<>>
  BY DEF ReturnBack, Arrives
<1>2. FrameIn(plan, f)
  BY <1>1, PoppedFrames DEF TInv
<1>3. p.at = f.site /\ p.throws = FALSE
  BY <1>1, <1>2, ReturnIsSite DEF TInv
<1> QED BY <1>1, <1>3

\* PopCallStack finds the place behind the call by the nearest label, the lines
\* behind it and the text of the line, whatever was jumped over in between.
THEOREM ReturnsFindCall == WellFormed => (Spec => ReturnsToCall)
<1> SUFFICES ASSUME WellFormed PROVE Spec => ReturnsToCall
  OBVIOUS
<1>1. Init => TInv
  BY TInvStarts
<1>2. TInv /\ [Next]_vars => TInv'
  BY TInvKept
<1>3. TInv /\ [Next]_vars => [ReturnBack => ctl' = "returned" /\ at' = Last1(calls).site]_vars
  BY ReturnFindsSite
<1> QED BY <1>1, <1>2, <1>3, PTL DEF Spec, ReturnsToCall
-----------------------------------------------------------------------------
(* The arguments of macros.                                                 *)

Pops(a) == {i \in a.pos + 1 .. Len(a.buffer) : a.buffer[i].tag = "macropop"}

BodyOK(text) == \A k \in 1 .. Len(text) : Allowed(text[k])
NoMacro(text) == \A k \in 1 .. Len(text) : text[k].tag # "macro"

\* The text of a macro: what a scenario may hold, and one [macropop] at its end.
\* Only the macro without a name, which is never expanded, may hold a [macro].
MacroOK(m, text) ==
  /\ text # <<>> /\ text[Len(text)].tag = "macropop"
  /\ \A k \in 1 .. Len(text) - 1 : Allowed(text[k])
  /\ m # NoName => NoMacro(text)

\* What is being read of an expanded text: no recording starts before one of its
\* [macropop]s.
Clean(t) == t.tag # NoName /\ (t.tag = "call" => t.storage # NoName \/ t.target # NoLabel)
AheadOK(a) ==
  a.using =>
    /\ \A i \in 1 .. Len(a.buffer) : Clean(a.buffer[i])
    /\ \A i, j \in a.pos + 1 .. Len(a.buffer) :
         i < j /\ a.buffer[i].tag = "macro" => a.buffer[j].tag # "macropop"

\* The frames lie below each other in the list of arguments.
StackOK(cs, ar) ==
  /\ ar.list \in Seq(STRING) /\ ar.base <= ar.depth /\ ar.depth <= Len(ar.list)
  /\ \A i \in 1 .. Len(cs) :
       /\ cs[i].base <= cs[i].depth /\ cs[i].depth <= ar.base
       /\ PopsAhead(cs[i]) <= cs[i].depth - cs[i].base /\ AheadOK(cs[i])
  /\ \A i, j \in 1 .. Len(cs) : i < j => cs[i].depth <= cs[j].base

MacrosPop(ms) == \A m \in DOMAIN ms : MacroOK(m, ms[m])

\* What is recorded becomes the text of a macro.
RecordOK(r) == BodyOK(r.str) /\ (r.name # NoName => NoMacro(r.str))

SavedOK(sv) == sv # <<>> => MacrosPop(sv[1].macros) /\ StackOK(sv[1].calls, sv[1].args)

AInv ==
  /\ AheadOK(at) /\ MacrosPop(macros) /\ RecordOK(rec) /\ StackOK(calls, args) /\ SavedOK(saved)
  /\ rec.on => PopsAhead(at) = 0
  /\ ctl # "thrown" => PopsAhead(at) <= args.depth - args.base

\* What is ahead can be counted.
LEMMA PopsFinite ==
  ASSUME NEW a, a.pos \in Nat, a.buffer \in Seq(TagSet)
  PROVE  /\ IsFiniteSet(Pops(a)) /\ Cardinality(Pops(a)) \in Nat /\ PopsAhead(a) \in Nat
         /\ PopsAhead(a) = IF ~a.using THEN 0 ELSE Cardinality(Pops(a))
<1> DEFINE R == a.pos + 1 .. Len(a.buffer)
<1>1. IsFiniteSet(R)
  BY FS_Interval
<1>2. Pops(a) \in SUBSET R
  BY DEF Pops
<1>3. IsFiniteSet(Pops(a)) /\ Cardinality(Pops(a)) \in Nat
  BY <1>1, <1>2, FS_Subset, FS_CardinalityType
<1>4. PopsAhead(a) = IF ~a.using THEN 0 ELSE Cardinality(Pops(a))
  BY DEF PopsAhead, Pops
<1> QED BY <1>3, <1>4

\* The fields of a place.
LEMMA PlaceFields ==
  ASSUME NEW p, NEW a, PlaceIn(p, a)
  PROVE  /\ a \in PlaceSet(p) /\ a.pos \in Nat /\ a.buffer \in Seq(TagSet) /\ a.using \in BOOLEAN
         /\ Len(a.buffer) \in Nat /\ a.line \in Nat
         /\ a.storage = NoName => ~a.using
  BY DEF PlaceIn, PlaceSet, Nowhere

\* Nothing is ahead in a line of the scenario itself.
LEMMA FreshAhead ==
  ASSUME NEW a, ~a.using
  PROVE  PopsAhead(a) = 0 /\ AheadOK(a)
  BY DEF PopsAhead, AheadOK

\* What is ahead depends on the text and the position only.
LEMMA SameAhead ==
  ASSUME NEW a, NEW b, a.using = b.using, a.pos = b.pos, a.buffer = b.buffer
  PROVE  PopsAhead(a) = PopsAhead(b) /\ (AheadOK(a) <=> AheadOK(b))
  BY DEF PopsAhead, AheadOK

\* A set of numbers that can be shifted into another one is not larger.
LEMMA Shifted ==
  ASSUME NEW P, IsFiniteSet(P), NEW Q \in SUBSET Int, NEW d \in Int, \A i \in Q : i - d \in P
  PROVE  IsFiniteSet(Q) /\ Cardinality(Q) <= Cardinality(P)
<1> DEFINE f == [i \in Q |-> i - d]
<1>1. f \in [Q -> P]
  OBVIOUS
<1>2. \A i, j \in Q : f[i] = f[j] => i = j
  OBVIOUS
<1>3. f \in Injection(Q, P)
  BY <1>1, <1>2 DEF Injection, IsInjective
<1> HIDE DEF f
<1> QED BY <1>3, FS_Injection

\* Behind the tag that is being read no more is ahead, and one less behind a
\* [macropop].
LEMMA NextAhead ==
  ASSUME NEW p, NEW a, PlaceIn(p, a), NEW b, b.using = a.using, b.buffer = a.buffer, b.pos = a.pos + 1, AheadOK(a)
  PROVE  /\ AheadOK(b) /\ PopsAhead(b) <= PopsAhead(a)
         /\ a.using /\ a.pos < Len(a.buffer) /\ a.buffer[a.pos + 1].tag = "macropop" =>
              PopsAhead(b) = PopsAhead(a) - 1
<1>1. /\ a.pos \in Nat /\ a.buffer \in Seq(TagSet) /\ Len(a.buffer) \in Nat /\ a.using \in BOOLEAN
  BY PlaceFields
<1>2. AheadOK(b)
  BY <1>1 DEF AheadOK
<1>3. Pops(b) = Pops(a) \ {a.pos + 1}
  BY <1>1 DEF Pops
<1>4. IsFiniteSet(Pops(a)) /\ Cardinality(Pops(a)) \in Nat /\ Cardinality(Pops(b)) \in Nat
      /\ PopsAhead(a) = (IF ~a.using THEN 0 ELSE Cardinality(Pops(a)))
      /\ PopsAhead(b) = (IF ~b.using THEN 0 ELSE Cardinality(Pops(b)))
  <2>1. b.pos \in Nat /\ b.buffer \in Seq(TagSet)
    BY <1>1
  <2> QED BY <1>1, <2>1, PopsFinite
<1>5. Cardinality(Pops(b)) = IF a.pos + 1 \in Pops(a) THEN Cardinality(Pops(a)) - 1 ELSE Cardinality(Pops(a))
  <2> DEFINE P == Pops(a)
             x == a.pos + 1
  <2>1. IsFiniteSet(P)
    BY <1>4
  <2>2. Cardinality(P \ {x}) = IF x \in P THEN Cardinality(P) - 1 ELSE Cardinality(P)
    <3> HIDE DEF P, x
    <3> QED BY <2>1, FS_RemoveElement
  <2> QED BY <1>3, <2>2
<1>6. PopsAhead(b) <= PopsAhead(a)
  BY <1>4, <1>5
<1>7. ASSUME a.using, a.pos < Len(a.buffer), a.buffer[a.pos + 1].tag = "macropop"
      PROVE  PopsAhead(b) = PopsAhead(a) - 1
  <2>1. a.pos + 1 \in Pops(a)
    BY <1>1, <1>7 DEF Pops
  <2> QED BY <1>4, <1>5, <1>7, <2>1
<1> QED BY <1>2, <1>6, <1>7

\* The tag that is being read.
LEMMA CurrentIs ==
  ASSUME WellFormed, Disciplined, TInv, AheadOK(at), Reading, ~AtEnd
  PROVE  /\ Current \in TagSet /\ Clean(Current) /\ PopsAhead(at) \in Nat
         /\ ~at.using => Allowed(Current)
         /\ at.using => /\ Current = at.buffer[at.pos + 1] /\ at.pos < Len(at.buffer)
                        /\ (PopsAhead(at) = 0 => Allowed(Current))
<1>1. /\ Current \in TagSet /\ at.pos + 1 \in 1 .. Len(Text) /\ Text \in Seq(TagSet) /\ Text = TextIn(plan, at)
      /\ at.storage \in DOMAIN Plans[plan].scenario /\ at.line < Len(Lines) /\ Len(Lines) \in Nat
      /\ Lines = LinesOf(plan, at.storage) /\ at.line \in Nat /\ plan \in DOMAIN Plans
      /\ at.pos \in Nat /\ at.buffer \in Seq(TagSet) /\ at.using \in BOOLEAN
  BY ReadingPlace, StepNextPlace, PlaceFields DEF TInv
<1>2. PopsAhead(at) \in Nat /\ IsFiniteSet(Pops(at))
      /\ PopsAhead(at) = (IF ~at.using THEN 0 ELSE Cardinality(Pops(at)))
  BY <1>1, PopsFinite
<1>3. ASSUME ~at.using PROVE Allowed(Current)
  <2>1. Text = LinesOf(plan, at.storage)[at.line + 1].tags
    BY <1>1, <1>3 DEF TextIn
  <2>2. at.line + 1 \in 1 .. Len(LinesOf(plan, at.storage))
    BY <1>1
  <2> QED BY <1>1, <2>1, <2>2 DEF Disciplined, LinesOf, Current
<1>4. ASSUME at.using
      PROVE  /\ Current = at.buffer[at.pos + 1] /\ at.pos < Len(at.buffer) /\ Clean(Current)
             /\ (PopsAhead(at) = 0 => Allowed(Current))
  <2>1. Text = at.buffer
    BY <1>1, <1>4 DEF TextIn
  <2>2. Current = at.buffer[at.pos + 1] /\ at.pos < Len(at.buffer) /\ at.pos + 1 \in 1 .. Len(at.buffer)
    BY <1>1, <2>1 DEF Current
  <2>3. Clean(Current)
    BY <1>4, <2>2 DEF AheadOK
  <2>4. ASSUME PopsAhead(at) = 0 PROVE Current.tag # "macropop"
    <3>1. Pops(at) = {}
      BY <1>2, <1>4, <2>4, FS_EmptySet
    <3>2. at.pos + 1 \in at.pos + 1 .. Len(at.buffer)
      BY <1>1, <2>2
    <3> QED BY <2>2, <3>1, <3>2 DEF Pops
  <2> QED BY <2>2, <2>3, <2>4 DEF Clean, Allowed
<1>5. Clean(Current)
  <2>1. Allowed(Current) => Clean(Current)
    BY DEF Allowed, Clean
  <2> QED BY <1>3, <1>4, <2>1
<1> QED BY <1>1, <1>2, <1>3, <1>4, <1>5

\* Nothing is ahead in the next line.
LEMMA NextLineAhead ==
  ASSUME WellFormed, TInv, Reading
  PROVE  PopsAhead(NextLine) = 0 /\ AheadOK(NextLine)
<1>1. plan \in DOMAIN Plans /\ PlaceIn(plan, at)
  BY DEF TInv
<1>2. ~NextLine.using
  BY <1>1, NextLinePlace, ReadingPlace
<1> QED BY <1>2, FreshAhead

\* What is ahead behind the tag that is being read, when the line goes on.
LEMMA BehindAhead ==
  ASSUME WellFormed, Disciplined, TInv, AheadOK(at), Reading, ~AtEnd
  PROVE  LET b == [at EXCEPT !.pos = @ + 1]
         IN  /\ AheadOK(b) /\ PopsAhead(b) <= PopsAhead(at)
             /\ Current.tag = "macropop" => PopsAhead(b) <= PopsAhead(at) - 1
             /\ b.using = at.using
<1> DEFINE b == [at EXCEPT !.pos = at.pos + 1]
<1>1. PlaceIn(plan, at) /\ at \in PlaceSet(plan) /\ at.pos + 1 \in Nat
  BY ReadingPlace DEF TInv
<1>2. b.using = at.using /\ b.buffer = at.buffer /\ b.pos = at.pos + 1
  BY <1>1, PlaceExcept
<1> HIDE DEF b
<1>3. /\ AheadOK(b) /\ PopsAhead(b) <= PopsAhead(at)
      /\ at.using /\ at.pos < Len(at.buffer) /\ at.buffer[at.pos + 1].tag = "macropop" =>
           PopsAhead(b) = PopsAhead(at) - 1
  BY <1>1, <1>2, NextAhead
<1>4. ASSUME Current.tag = "macropop" PROVE PopsAhead(b) <= PopsAhead(at) - 1
  <2>1. at.using /\ Current = at.buffer[at.pos + 1] /\ at.pos < Len(at.buffer)
    BY <1>4, CurrentIs DEF Allowed
  <2>2. PopsAhead(at) \in Nat
    BY CurrentIs
  <2>3. PopsAhead(b) = PopsAhead(at) - 1
    BY <1>3, <1>4, <2>1
  <2> QED BY <2>2, <2>3
<1> QED BY <1>2, <1>3, <1>4 DEF b

\* What is ahead behind the tag, also when the line ends.
LEMMA StepAhead ==
  ASSUME WellFormed, Disciplined, TInv, AheadOK(at), Reading, ~AtEnd
  PROVE  /\ AheadOK(StepNext) /\ PopsAhead(StepNext) <= PopsAhead(at)
         /\ Current.tag = "macropop" => PopsAhead(StepNext) <= PopsAhead(at) - 1
         /\ PopsAhead(StepNext) \in Nat
<1>1. PlaceIn(plan, at) /\ PopsAhead(at) \in Nat /\ Current \in TagSet
  BY CurrentIs DEF TInv
<1>2. ASSUME Current.tag = "macropop" PROVE PopsAhead(at) >= 1
  <2> DEFINE b == [at EXCEPT !.pos = @ + 1]
  <2>1. PopsAhead(b) <= PopsAhead(at) - 1
    BY <1>2, BehindAhead
  <2>2. PopsAhead(b) \in Nat
    <3>1. PlaceIn(plan, b)
      BY StepNextPlace
    <3> HIDE DEF b
    <3>2. b.pos \in Nat /\ b.buffer \in Seq(TagSet)
      BY <3>1, PlaceFields
    <3> QED BY <3>2, PopsFinite
  <2> HIDE DEF b
  <2> QED BY <1>1, <2>1, <2>2
<1>3. CASE Current.more > 0
  <2>1. StepNext = [NextLine EXCEPT !.line = @ + Current.more]
    BY <1>3 DEF StepNext
  <2>2. ~StepNext.using
    <3>1. NextLine \in PlaceSet(plan) /\ ~NextLine.using /\ NextLine.line \in Nat
      BY <1>1, NextLinePlace, ReadingPlace, PlaceFields DEF TInv
    <3>2. NextLine.line + Current.more \in Nat
      BY <1>1, <3>1 DEF TagSet
    <3> QED BY <2>1, <3>1, <3>2, PlaceExcept
  <2> QED BY <1>1, <1>2, <2>2, FreshAhead
<1>4. CASE ~(Current.more > 0) /\ Command
  <2>1. StepNext = NextLine
    BY <1>4 DEF StepNext
  <2> QED BY <1>1, <1>2, <2>1, NextLineAhead
<1>5. CASE ~(Current.more > 0) /\ ~Command
  <2>1. StepNext = [at EXCEPT !.pos = @ + 1]
    BY <1>5 DEF StepNext
  <2>2. PopsAhead(StepNext) \in Nat
    <3>1. PlaceIn(plan, StepNext)
      BY StepNextPlace
    <3>2. StepNext.pos \in Nat /\ StepNext.buffer \in Seq(TagSet)
      BY <3>1, PlaceFields
    <3> QED BY <3>2, PopsFinite
  <2> QED BY <2>1, <2>2, BehindAhead
<1> QED BY <1>3, <1>4, <1>5

\* What is ahead after a step that reads.
LEMMA ReadAhead ==
  ASSUME WellFormed, Disciplined, TInv, AheadOK(at), Reading,
         \/ at' = at \/ at' = NextLine
         \/ ~AtEnd /\ (at' = StepNext \/ at' = [at EXCEPT !.pos = @ + 1])
  PROVE  AheadOK(at') /\ PopsAhead(at') <= PopsAhead(at)
<1>0. PopsAhead(at) \in Nat
  BY PopsFinite, PlaceFields DEF TInv
<1>1. CASE at' = at
  <2>1. AheadOK(at') /\ PopsAhead(at') = PopsAhead(at)
    BY <1>1, SameAhead
  <2> QED BY <1>0, <2>1
<1>2. CASE at' = NextLine
  BY <1>0, <1>2, NextLineAhead
<1>3. CASE ~AtEnd /\ (at' = StepNext \/ at' = [at EXCEPT !.pos = @ + 1])
  BY <1>3, StepAhead, BehindAhead
<1> QED BY <1>1, <1>2, <1>3

\* What is ahead when a text x takes the place of a tag, and y is added at the end.
SpliceParts(t, x, y, n, b) ==
  /\ Len(b) = Len(t) - 1 + Len(x) + Len(y)
  /\ \A i \in 1 .. n : b[i] = t[i]
  /\ \A i \in n + 1 .. n + Len(x) : b[i] = x[i - n]
  /\ \A i \in n + Len(x) + 1 .. Len(t) - 1 + Len(x) : b[i] = t[i - (n + Len(x)) + n + 1]
  /\ \A i \in Len(t) - 1 + Len(x) + 1 .. Len(t) - 1 + Len(x) + Len(y) : b[i] = y[i - (Len(t) - 1 + Len(x))]

\* The four parts of a text into which another one is spliced.
LEMMA SplicedTags ==
  ASSUME NEW t \in Seq(TagSet), NEW x \in Seq(TagSet), NEW y \in Seq(TagSet), NEW n \in 0 .. Len(t) - 1
  PROVE  SpliceParts(t, x, y, n, Splice(t, n, x, y))
  BY Spliced DEF SpliceParts

SpliceOK(t, x, y, n) ==
  /\ t \in Seq(TagSet) /\ x \in Seq(TagSet) /\ y \in Seq(TagSet) /\ n \in 0 .. Len(t) - 1
  /\ \A i \in 1 .. Len(t) : Clean(t[i])
  /\ \A i \in 1 .. Len(x) : Clean(x[i]) /\ x[i].tag # "macro"
  /\ \A i \in 1 .. Len(y) : Clean(y[i]) /\ y[i].tag # "macro" /\ y[i].tag # "macropop"
  /\ \A i, j \in n + 1 .. Len(t) : i < j /\ t[i].tag = "macro" => t[j].tag # "macropop"

SpliceIs(t, x, n, b) ==
  /\ \A i \in 1 .. Len(b) : Clean(b[i])
  /\ \A i, j \in n + 1 .. Len(b) : i < j /\ b[i].tag = "macro" => b[j].tag # "macropop"
  /\ \A i \in n + 1 .. Len(b) : b[i].tag = "macropop" =>
       \/ i <= n + Len(x) /\ i - n \in 1 .. Len(x) /\ x[i - n].tag = "macropop"
       \/ i - (Len(x) - 1) \in n + 2 .. Len(t) /\ t[i - (Len(x) - 1)].tag = "macropop"

\* The [macropop]s of the text that is spliced in are ahead, and those behind it.
LEMMA SplicedAhead ==
  ASSUME NEW t, NEW x, NEW y, NEW n, SpliceOK(t, x, y, n)
  PROVE  SpliceIs(t, x, n, Splice(t, n, x, y))
<1>0. /\ t \in Seq(TagSet) /\ x \in Seq(TagSet) /\ y \in Seq(TagSet) /\ n \in 0 .. Len(t) - 1
      /\ \A i \in 1 .. Len(t) : Clean(t[i])
      /\ \A i \in 1 .. Len(x) : Clean(x[i]) /\ x[i].tag # "macro"
      /\ \A i \in 1 .. Len(y) : Clean(y[i]) /\ y[i].tag # "macro" /\ y[i].tag # "macropop"
      /\ \A i, j \in n + 1 .. Len(t) : i < j /\ t[i].tag = "macro" => t[j].tag # "macropop"
  BY DEF SpliceOK
<1> DEFINE b == Splice(t, n, x, y)
           d == Len(x) - 1
           m == n + Len(x)
           k == Len(t) - 1 + Len(x)
<1>1. n \in Nat /\ Len(t) \in Nat /\ Len(x) \in Nat /\ Len(y) \in Nat /\ n + 1 <= Len(t)
  BY <1>0
<1>2. /\ Len(b) = k + Len(y)
      /\ \A i \in 1 .. n : b[i] = t[i]
      /\ \A i \in n + 1 .. m : b[i] = x[i - n]
      /\ \A i \in m + 1 .. k : b[i] = t[i - m + n + 1]
      /\ \A i \in k + 1 .. k + Len(y) : b[i] = y[i - k]
  <2>1. t \in Seq(TagSet) /\ x \in Seq(TagSet) /\ y \in Seq(TagSet) /\ n \in 0 .. Len(t) - 1
    BY <1>0
  <2>2. SpliceParts(t, x, y, n, Splice(t, n, x, y))
    BY <2>1, SplicedTags
  <2> QED BY <2>2 DEF SpliceParts
<1> HIDE DEF b
<1>3. ASSUME NEW i \in n + 1 .. m
      PROVE  i - n \in 1 .. Len(x) /\ b[i] = x[i - n] /\ Clean(b[i]) /\ b[i].tag # "macro"
  <2>1. i - n \in 1 .. Len(x)
    BY <1>1
  <2> QED BY <1>0, <1>2, <2>1
<1>4. ASSUME NEW i \in m + 1 .. k
      PROVE  i - d \in n + 2 .. Len(t) /\ b[i] = t[i - d] /\ Clean(b[i])
  <2>1. i - d \in n + 2 .. Len(t) /\ i - m + n + 1 = i - d /\ i - d \in 1 .. Len(t)
    BY <1>1
  <2>2. b[i] = t[i - d]
    BY <1>2, <2>1
  <2> HIDE DEF d
  <2> QED BY <1>0, <2>1, <2>2
<1>5. ASSUME NEW i \in k + 1 .. k + Len(y)
      PROVE  Clean(b[i]) /\ b[i].tag # "macro" /\ b[i].tag # "macropop"
  <2>1. i - k \in 1 .. Len(y)
    BY <1>1
  <2> QED BY <1>0, <1>2, <2>1
<1>6. ASSUME NEW i \in 1 .. n PROVE Clean(b[i])
  <2>1. i \in 1 .. Len(t)
    BY <1>1
  <2> QED BY <1>0, <1>2, <2>1
<1>7. /\ \A i \in 1 .. Len(b) : i \in 1 .. n \/ i \in n + 1 .. m \/ i \in m + 1 .. k \/ i \in k + 1 .. k + Len(y)
      /\ \A i \in n + 1 .. Len(b) : i \in n + 1 .. m \/ i \in m + 1 .. k \/ i \in k + 1 .. k + Len(y)
      /\ \A i \in n + 1 .. m : i <= n + Len(x)
  BY <1>1, <1>2
<1>8. \A i \in 1 .. Len(b) : Clean(b[i])
  BY <1>3, <1>4, <1>5, <1>6, <1>7
<1>9. ASSUME NEW i \in n + 1 .. Len(b), NEW j \in n + 1 .. Len(b), i < j, b[i].tag = "macro"
      PROVE  b[j].tag # "macropop"
  <2>1. i \in m + 1 .. k
    BY <1>3, <1>5, <1>7, <1>9
  <2>2. j \in m + 1 .. k \/ j \in k + 1 .. k + Len(y)
    BY <1>1, <1>7, <1>9, <2>1
  <2>3. CASE j \in k + 1 .. k + Len(y)
    BY <1>5, <2>3
  <2>4. CASE j \in m + 1 .. k
    <3>1. i - d \in n + 2 .. Len(t) /\ b[i] = t[i - d] /\ j - d \in n + 2 .. Len(t) /\ b[j] = t[j - d]
      BY <1>4, <2>1, <2>4
    <3>2. i - d \in n + 1 .. Len(t) /\ j - d \in n + 1 .. Len(t) /\ i - d < j - d
      <4>1. d \in Int /\ i \in Int /\ j \in Int /\ i < j /\ n \in Nat /\ Len(t) \in Nat
        BY <1>1, <1>9
      <4> HIDE DEF d
      <4> QED BY <3>1, <4>1
    <3> HIDE DEF d
    <3> QED BY <1>0, <1>9, <3>1, <3>2
  <2> QED BY <2>2, <2>3, <2>4
<1>10. ASSUME NEW i \in n + 1 .. Len(b), b[i].tag = "macropop"
       PROVE  \/ i <= n + Len(x) /\ i - n \in 1 .. Len(x) /\ x[i - n].tag = "macropop"
              \/ i - d \in n + 2 .. Len(t) /\ t[i - d].tag = "macropop"
  <2>1. i \in n + 1 .. m \/ i \in m + 1 .. k
    BY <1>5, <1>7, <1>10
  <2>2. CASE i \in n + 1 .. m
    BY <1>3, <1>7, <1>10, <2>2
  <2>3. CASE i \in m + 1 .. k
    BY <1>4, <1>10, <2>3
  <2> QED BY <2>1, <2>2, <2>3
<1> QED BY <1>8, <1>9, <1>10 DEF b, SpliceIs

\* The names of tags that the parser makes are not empty.
LEMMA NamesDiffer == NoName \notin {"slash", "r", "ch", "macropop"}
  BY Zenon DEF NoName

\* The text that a macro or an [emb] yields adds a [macropop], if it is a macro's.
LEMMA ExpandAhead ==
  ASSUME WellFormed, Disciplined, TInv, AheadOK(at), MacrosPop(macros),
         NEW c \in BOOLEAN, NEW text, Expand(c, text)
  PROVE  /\ AheadOK(at') /\ rec.on = FALSE
         /\ PopsAhead(at') <= PopsAhead(at) + (IF IsMacro THEN 1 ELSE 0)
<1> DEFINE n == at.pos
           d == Len(text) - 1
           t == Text
           y == IF Command /\ ~IgnoreCR THEN <<Backslash>> ELSE <<>>
           b == Splice(t, n, text, y)
<1>0. /\ PlaceIn(plan, at') /\ at'.using = TRUE /\ at'.pos = n /\ text \in Seq(TagSet)
      /\ n \in 0 .. Len(t) - 1 /\ at'.buffer = b
  BY ExpandPlace
<1>1. Reading /\ ~AtEnd /\ rec.on = FALSE /\ rec \in RecSet
  <2>1. Reading /\ ~AtEnd /\ ~IsRecorded(c) /\ Live(c) /\ (Current.tag = "emb" \/ Current.tag \notin Special)
    BY DEF Expand, Tag
  <2>2. Current.tag # "endmacro"
    BY <2>1 DEF Special
  <2>3. rec \in RecSet
    BY DEF TInv
  <2>4. rec.on \in BOOLEAN
    BY <2>3 DEF RecSet
  <2> QED BY <2>1, <2>2, <2>3, <2>4 DEF IsRecorded
<1>2. /\ t \in Seq(TagSet) /\ t = TextIn(plan, at) /\ Clean(Current) /\ Current \in TagSet
      /\ at.storage \in DOMAIN Plans[plan].scenario /\ at.line < Len(Lines) /\ Len(Lines) \in Nat
      /\ Lines = LinesOf(plan, at.storage) /\ at.line \in Nat /\ plan \in DOMAIN Plans
      /\ n \in Nat /\ at.buffer \in Seq(TagSet) /\ at.using \in BOOLEAN /\ Len(t) \in Nat
  BY <1>1, ReadingPlace, CurrentIs, PlaceFields DEF TInv
<1>3. ASSUME ~at.using, NEW i \in 1 .. Len(t) PROVE Clean(t[i]) /\ t[i].tag # "macropop"
  <2>1. t = LinesOf(plan, at.storage)[at.line + 1].tags
    BY <1>2, <1>3 DEF TextIn
  <2>2. at.line + 1 \in 1 .. Len(LinesOf(plan, at.storage))
    BY <1>2
  <2>3. Allowed(t[i])
    BY <1>2, <2>1, <2>2 DEF Disciplined, LinesOf
  <2> QED BY <2>3 DEF Allowed, Clean
<1>4. ASSUME at.using PROVE t = at.buffer
  BY <1>2, <1>4 DEF TextIn
<1>5. \A i \in 1 .. Len(t) : Clean(t[i])
  BY <1>3, <1>4 DEF AheadOK
<1>6. \A i, j \in n + 1 .. Len(t) : i < j /\ t[i].tag = "macro" => t[j].tag # "macropop"
  <2>1. CASE at.using
    BY <1>4, <2>1 DEF AheadOK
  <2>2. CASE ~at.using
    BY <1>2, <1>3, <2>2
  <2> QED BY <2>1, <2>2
<1>7. ASSUME NEW i \in 1 .. Len(text)
      PROVE  /\ Clean(text[i]) /\ text[i].tag # "macro"
             /\ text[i].tag = "macropop" => IsMacro /\ i = Len(text)
  <2>1. CASE IsMacro
    <3>1. MacroOK(Current.tag, text) /\ Current.tag # NoName
      BY <1>2, <2>1 DEF Expand, MacrosPop, IsMacro, Clean
    <3>2. text[i].tag # "macro"
      BY <3>1 DEF MacroOK, NoMacro
    <3>3. CASE i = Len(text)
      <4>1. text[i].tag = "macropop"
        BY <3>1, <3>3 DEF MacroOK
      <4> QED BY <2>1, <3>2, <3>3, <4>1, NamesDiffer DEF Clean
    <3>4. CASE i # Len(text)
      <4>1. i \in 1 .. Len(text) - 1
        BY <1>0, <3>4
      <4>2. Allowed(text[i])
        BY <3>1, <4>1 DEF MacroOK
      <4> QED BY <3>2, <4>2 DEF Allowed, Clean
    <3> QED BY <3>3, <3>4
  <2>2. CASE ~IsMacro
    <3>1. text \in EmbTexts
      BY <2>2 DEF Expand
    <3>2. Allowed(text[i]) /\ text[i].tag # "macro"
      BY <3>1 DEF Disciplined
    <3> QED BY <3>2 DEF Allowed, Clean
  <2> QED BY <2>1, <2>2
<1>8. y \in Seq(TagSet) /\ \A i \in 1 .. Len(y) : Clean(y[i]) /\ y[i].tag # "macro" /\ y[i].tag # "macropop"
  <2>1. Backslash \in TagSet /\ Backslash.tag = "slash"
    <3>1. "slash" \in STRING
      BY NamesAreStrings
    <3> QED BY <3>1, TagOfIs DEF Backslash
  <2>2. Clean(Backslash) /\ Backslash.tag # "macro" /\ Backslash.tag # "macropop"
    BY <2>1, NamesDiffer DEF Clean
  <2> QED BY <2>1, <2>2
<1> HIDE DEF y, t, n
<1>9. /\ \A i \in 1 .. Len(b) : Clean(b[i])
      /\ \A i, j \in n + 1 .. Len(b) : i < j /\ b[i].tag = "macro" => b[j].tag # "macropop"
      /\ \A i \in n + 1 .. Len(b) : b[i].tag = "macropop" =>
           \/ i <= n + Len(text) /\ i - n \in 1 .. Len(text) /\ text[i - n].tag = "macropop"
           \/ i - d \in n + 2 .. Len(t) /\ t[i - d].tag = "macropop"
  <2>1. /\ t \in Seq(TagSet) /\ text \in Seq(TagSet) /\ y \in Seq(TagSet) /\ n \in 0 .. Len(t) - 1
        /\ \A i \in 1 .. Len(t) : Clean(t[i])
        /\ \A i \in 1 .. Len(text) : Clean(text[i]) /\ text[i].tag # "macro"
        /\ \A i \in 1 .. Len(y) : Clean(y[i]) /\ y[i].tag # "macro" /\ y[i].tag # "macropop"
        /\ \A i, j \in n + 1 .. Len(t) : i < j /\ t[i].tag = "macro" => t[j].tag # "macropop"
    BY <1>0, <1>2, <1>5, <1>6, <1>7, <1>8
  <2>2. SpliceIs(t, text, n, b)
    <3>1. SpliceOK(t, text, y, n)
      BY <2>1 DEF SpliceOK
    <3> QED BY <3>1, SplicedAhead
  <2> QED BY <2>2 DEF SpliceIs
<1> HIDE DEF b
<1>10. AheadOK(at')
  BY <1>0, <1>9 DEF AheadOK
<1> DEFINE P == IF at.using THEN Pops(at) ELSE {}
           m == n + Len(text)
           Q == Pops(at') \ {m}
<1>11. IsFiniteSet(P) /\ PopsAhead(at) = Cardinality(P) /\ Cardinality(P) \in Nat
  BY <1>2, PopsFinite, FS_EmptySet DEF n
<1>12. ASSUME NEW i \in Pops(at') PROVE (i = m /\ IsMacro) \/ i - d \in P
  <2>1. i \in n + 1 .. Len(b) /\ b[i].tag = "macropop"
    BY <1>0 DEF Pops
  <2>2. CASE i - n \in 1 .. Len(text) /\ text[i - n].tag = "macropop"
    <3>1. IsMacro /\ i - n = Len(text)
      BY <1>7, <2>2
    <3> QED BY <1>0, <1>2, <2>1, <3>1
  <2>3. CASE i - d \in n + 2 .. Len(t) /\ t[i - d].tag = "macropop"
    <3>1. i - d \in 1 .. Len(t) /\ i - d \in n + 1 .. Len(t)
      BY <1>2, <2>3
    <3>2. at.using
      BY <1>3, <2>3, <3>1
    <3>3. t = at.buffer
      BY <1>4, <3>2
    <3> HIDE DEF d
    <3>4. i - d \in Pops(at)
      BY <2>3, <3>1, <3>3 DEF Pops, n
    <3> QED BY <3>2, <3>4
  <2> QED BY <1>9, <2>1, <2>2, <2>3
<1>13. IsFiniteSet(Pops(at')) /\ Cardinality(Pops(at')) \in Nat /\ PopsAhead(at') = Cardinality(Pops(at'))
  <2>1. at'.pos \in Nat /\ at'.buffer \in Seq(TagSet)
    BY <1>0, PlaceFields
  <2> QED BY <1>0, <2>1, PopsFinite
<1>14. Q \in SUBSET Int /\ Pops(at') \in SUBSET Int /\ d \in Int
  BY <1>0, <1>2 DEF Pops
<1> HIDE DEF P, d
<1>15. CASE IsMacro
  <2>1. \A i \in Q : i - d \in P
    BY <1>12
  <2>2. IsFiniteSet(Q) /\ Cardinality(Q) <= Cardinality(P)
    <3> HIDE DEF Q
    <3> QED BY <1>11, <1>14, <2>1, Shifted
  <2>3. Cardinality(Q) = IF m \in Pops(at') THEN Cardinality(Pops(at')) - 1 ELSE Cardinality(Pops(at'))
    <3> DEFINE S == Pops(at')
    <3>1. IsFiniteSet(S)
      BY <1>13
    <3> HIDE DEF S, m
    <3>2. Cardinality(S \ {m}) = IF m \in S THEN Cardinality(S) - 1 ELSE Cardinality(S)
      BY <3>1, FS_RemoveElement
    <3> QED BY <3>2 DEF S
  <2> HIDE DEF Q, m
  <2> QED BY <1>1, <1>10, <1>11, <1>13, <1>15, <2>2, <2>3
<1>16. CASE ~IsMacro
  <2> DEFINE S == Pops(at')
  <2>1. S \in SUBSET Int /\ \A i \in S : i - d \in P
    BY <1>12, <1>14, <1>16
  <2>2. Cardinality(S) <= Cardinality(P)
    <3> HIDE DEF S
    <3> QED BY <1>11, <1>14, <2>1, Shifted
  <2> QED BY <1>1, <1>10, <1>11, <1>13, <1>16, <2>2
<1> QED BY <1>15, <1>16

\* What is counted are natural numbers.
LEMMA AheadIsNat ==
  ASSUME TInv
  PROVE  /\ PopsAhead(at) \in Nat /\ args.depth \in Nat /\ args.base \in Nat /\ rec.on \in BOOLEAN
         /\ calls \in Seq(FrameSet(plan)) /\ Len(calls) \in Nat
<1>1. PlaceIn(plan, at) /\ ArgsIn(args) /\ rec \in RecSet /\ FramesIn(plan, calls)
  BY DEF TInv
<1>2. PopsAhead(at) \in Nat
  BY <1>1, PlaceFields, PopsFinite
<1>3. args.depth \in Nat /\ args.base \in Nat
  BY <1>1, ArgsExcept
<1> QED BY <1>1, <1>2, <1>3 DEF RecSet, FramesIn

\* A step that reads on: the stack and the macros stay.
LEMMA ReadKeeps ==
  ASSUME TInv, TInv', AInv, ctl # "thrown", UNCHANGED <<macros, args, calls, saved>>,
         AheadOK(at'), PopsAhead(at') <= PopsAhead(at), RecordOK(rec'),
         rec'.on => rec.on \/ PopsAhead(at') = 0
  PROVE  AInv'
<1>1. PopsAhead(at) \in Nat /\ PopsAhead(at') \in Nat /\ args.depth \in Nat /\ args.base \in Nat
  <2>1. PopsAhead(at') \in Nat
    <3>1. PlaceIn(plan', at')
      BY DEF TInv
    <3>2. at'.pos \in Nat /\ at'.buffer \in Seq(TagSet)
      BY <3>1, PlaceFields
    <3> QED BY <3>2, PopsFinite
  <2> QED BY <2>1, AheadIsNat
<1>2. MacrosPop(macros') /\ StackOK(calls', args') /\ SavedOK(saved')
  BY DEF AInv
<1>3. rec'.on => PopsAhead(at') = 0
  BY <1>1 DEF AInv
<1>4. PopsAhead(at') <= args'.depth - args'.base
  BY <1>1 DEF AInv
<1> QED BY <1>2, <1>3, <1>4 DEF AInv

\* The loop around the tags keeps the invariant.
LEMMA LoopArgs ==
  ASSUME WellFormed, Disciplined, TInv, TInv', AInv,
         \/ GetNextTag \/ ParseStart \/ ReturnInterrupt \/ EndOfScenario
         \/ Skip \/ SkipComment \/ SkipLabel \/ SkipScript \/ SkipDone \/ CallbackReturns \/ AfterReturn
  PROVE  AInv'
<1>1. UNCHANGED <<macros, args, calls, saved, rec>> /\ ctl # "thrown"
  BY DEF GetNextTag, ParseStart, ReturnInterrupt, EndOfScenario, Skip, SkipComment, SkipLabel, SkipScript, SkipDone,
         CallbackReturns, AfterReturn, Skipping
<1>2. at \in PlaceSet(plan) /\ PopsAhead(at) \in Nat
  BY AheadIsNat DEF TInv, PlaceIn
<1>3. AheadOK(at') /\ PopsAhead(at') <= PopsAhead(at)
  <2>1. CASE SkipComment \/ (CallbackReturns /\ Loaded)
    <3>1. at' = NextLine
      BY <2>1 DEF SkipComment, CallbackReturns
    <3>2. ~NextLine.using
      BY DEF NextLine, Start, Nowhere
    <3> QED BY <1>2, <3>1, <3>2, FreshAhead
  <2>2. CASE ~(SkipComment \/ (CallbackReturns /\ Loaded))
    <3>1. at'.using = at.using /\ at'.pos = at.pos /\ at'.buffer = at.buffer
      <4>1. at' = at \/ \E n : at' = [at EXCEPT !.line = n]
        <5>1. CASE SkipScript
          BY <5>1 DEF SkipScript
        <5>2. CASE ~SkipScript
          <6>1. CASE CallbackReturns
            BY <2>2, <6>1 DEF CallbackReturns
          <6>2. CASE ~CallbackReturns
            <7>1. at' = at
              <8>1. \/ GetNextTag \/ ParseStart \/ ReturnInterrupt \/ EndOfScenario
                    \/ Skip \/ SkipLabel \/ SkipDone \/ AfterReturn
                BY <2>2, <5>2, <6>2
              <8> QED BY <8>1 DEF GetNextTag, ParseStart, ReturnInterrupt, EndOfScenario, Skip, SkipLabel, SkipDone,
                              AfterReturn
            <7> QED BY <7>1
          <6> QED BY <6>1, <6>2
        <5> QED BY <5>1, <5>2
      <4> QED BY <1>2, <4>1 DEF PlaceSet
    <3>2. PopsAhead(at') = PopsAhead(at) /\ AheadOK(at')
      BY <3>1, SameAhead DEF AInv
    <3> QED BY <1>2, <3>2
  <2> QED BY <2>1, <2>2
<1>4. RecordOK(rec')
  BY <1>1 DEF AInv
<1> QED BY <1>1, <1>3, <1>4, ReadKeeps

\* A tag is not read after an exception.
LEMMA ReadingCtl ==
  ASSUME Reading PROVE ctl # "thrown"
  BY DEF Reading

\* Where a [macro] starts the recording no [macropop] is ahead.
LEMMA MacroAhead ==
  ASSUME WellFormed, Disciplined, TInv, AheadOK(at), Reading, ~AtEnd, Current.tag = "macro"
  PROVE  PopsAhead(StepNext) = 0
<1>1. /\ PopsAhead(StepNext) \in Nat /\ PlaceIn(plan, at) /\ PopsAhead(at) \in Nat /\ Current \in TagSet
      /\ at.pos \in Nat /\ at.buffer \in Seq(TagSet) /\ at.using \in BOOLEAN /\ at \in PlaceSet(plan)
  BY StepAhead, CurrentIs, PlaceFields DEF TInv
<1>2. CASE ~at.using
  <2>1. PopsAhead(at) = 0 /\ PopsAhead(StepNext) <= PopsAhead(at)
    BY <1>2, FreshAhead, StepAhead
  <2> QED BY <1>1, <2>1
<1>3. CASE at.using
  <2>1. Current = at.buffer[at.pos + 1] /\ at.pos < Len(at.buffer)
    BY <1>3, CurrentIs
  <2>2. ASSUME NEW j \in Pops(at) PROVE FALSE
    <3>1. j \in at.pos + 1 .. Len(at.buffer) /\ at.buffer[j].tag = "macropop"
      BY DEF Pops
    <3>2. at.pos + 1 \in at.pos + 1 .. Len(at.buffer) /\ j # at.pos + 1
      BY <1>1, <2>1, <3>1
    <3>3. at.pos + 1 < j
      BY <1>1, <3>1, <3>2
    <3> QED BY <1>3, <2>1, <3>1, <3>2, <3>3 DEF AheadOK
  <2>3. PopsAhead(at) = 0
    <3>1. Pops(at) = {}
      BY <2>2
    <3> QED BY <1>1, <3>1, PopsFinite, FS_EmptySet
  <2>4. PopsAhead(StepNext) <= PopsAhead(at)
    BY StepAhead
  <2> QED BY <1>1, <2>3, <2>4
<1> QED BY <1>2, <1>3

\* A tag is added to what is recorded.
LEMMA RecordedOK ==
  ASSUME rec \in RecSet, RecordOK(rec), NEW t \in TagSet, rec.on => Allowed(t)
  PROVE  /\ t.tag # "macro" => RecordOK(Recorded(t)) /\ (Recorded(t).on <=> rec.on)
         /\ \A n \in STRING : (n # NoName => t.tag # "macro" /\ rec.name # NoName) =>
              LET r == [Recorded(t) EXCEPT !.name = n] IN RecordOK(r) /\ (r.on <=> rec.on)
         /\ \A n \in STRING : (n # NoName => rec.name # NoName) =>
              LET r == [rec EXCEPT !.name = n] IN RecordOK(r) /\ (r.on <=> rec.on)
<1> DEFINE u == [t EXCEPT !.more = 0]
           s == Append(rec.str, u)
<1>1. /\ u \in InlineTags /\ u.tag = t.tag /\ u.storage = t.storage /\ u.target = t.target
  BY DEF InlineTags, TagSet
<1>2. rec.str \in Seq(InlineTags) /\ rec.name \in STRING /\ rec.on \in BOOLEAN
  BY DEF RecSet
<1> HIDE DEF u
<1>3. /\ s \in Seq(InlineTags) /\ Len(s) = Len(rec.str) + 1 /\ Len(rec.str) \in Nat
      /\ \A k \in 1 .. Len(rec.str) : s[k] = rec.str[k]
      /\ s[Len(rec.str) + 1] = u
  BY <1>1, <1>2
<1> HIDE DEF s
<1>4. rec.on => BodyOK(s)
  BY <1>1, <1>3 DEF RecordOK, BodyOK, Allowed
<1>5. t.tag # "macro" /\ NoMacro(rec.str) => NoMacro(s)
  BY <1>1, <1>3 DEF NoMacro
<1>6. \A r \in RecSet, q \in Seq(InlineTags), n \in STRING :
        /\ [r EXCEPT !.str = q] \in RecSet /\ [r EXCEPT !.str = q].str = q
        /\ [r EXCEPT !.str = q].name = r.name /\ [r EXCEPT !.str = q].on = r.on
        /\ [r EXCEPT !.name = n] \in RecSet /\ [r EXCEPT !.name = n].str = r.str
        /\ [r EXCEPT !.name = n].name = n /\ [r EXCEPT !.name = n].on = r.on
  BY DEF RecSet
<1> DEFINE z == Recorded(t)
<1>7. /\ z \in RecSet /\ z.name = rec.name /\ z.on = rec.on
      /\ z.str = IF rec.on THEN s ELSE rec.str
  <2>1. CASE rec.on
    <3>1. z = [rec EXCEPT !.str = s]
      BY <2>1 DEF Recorded, s, u
    <3>2. /\ [rec EXCEPT !.str = s] \in RecSet /\ [rec EXCEPT !.str = s].str = s
          /\ [rec EXCEPT !.str = s].name = rec.name /\ [rec EXCEPT !.str = s].on = rec.on
      BY <1>2, <1>3, <1>6
    <3> HIDE DEF z
    <3> QED BY <2>1, <3>1, <3>2
  <2>2. CASE ~rec.on
    <3>1. z = rec
      BY <2>2 DEF Recorded
    <3> HIDE DEF z
    <3> QED BY <2>2, <3>1
  <2> QED BY <2>1, <2>2
<1> HIDE DEF z
<1>8. BodyOK(z.str) /\ (t.tag # "macro" /\ NoMacro(rec.str) => NoMacro(z.str))
  BY <1>4, <1>5, <1>7 DEF RecordOK
<1>9. t.tag # "macro" => RecordOK(z) /\ (z.on <=> rec.on)
  BY <1>7, <1>8 DEF RecordOK
<1>10. ASSUME NEW n \in STRING, n # NoName => t.tag # "macro" /\ rec.name # NoName
       PROVE  LET r == [z EXCEPT !.name = n] IN RecordOK(r) /\ (r.on <=> rec.on)
  BY <1>6, <1>7, <1>8, <1>10 DEF RecordOK
<1>11. ASSUME NEW n \in STRING, n # NoName => rec.name # NoName
       PROVE  LET r == [rec EXCEPT !.name = n] IN RecordOK(r) /\ (r.on <=> rec.on)
  BY <1>6, <1>11 DEF RecordOK
<1> QED BY <1>9, <1>10, <1>11 DEF z

\* The [macropop] of an expanded macro drops its arguments.
LEMMA PopArgs ==
  ASSUME WellFormed, Disciplined, TInv, TInv', AInv, NEW c \in BOOLEAN, PopMacroArgs(c)
  PROVE  AInv'
<1>1. /\ Reading /\ ~AtEnd /\ Current.tag = "macropop" /\ UNCHANGED <<rec, macros, calls, saved>>
      /\ ctl # "thrown"
  BY ReadingCtl DEF PopMacroArgs, Handle, Tag
<1>2. /\ AheadOK(at) /\ StackOK(calls, args) /\ PopsAhead(at) <= args.depth - args.base
      /\ rec.on => PopsAhead(at) = 0
  BY <1>1 DEF AInv
<1>3. /\ PopsAhead(at) \in Nat /\ args.depth \in Nat /\ args.base \in Nat /\ rec.on \in BOOLEAN
      /\ Len(calls) \in Nat
  BY AheadIsNat
<1>4. /\ AheadOK(StepNext) /\ PopsAhead(StepNext) \in Nat /\ PopsAhead(StepNext) <= PopsAhead(at) - 1
  BY <1>1, <1>2, StepAhead
<1>5. args.depth # 0 /\ rec.on = FALSE /\ PopsAhead(at) >= 1
  BY <1>2, <1>3, <1>4
<1>6. at' = StepNext /\ args' = [args EXCEPT !.depth = args.depth - 1]
  BY <1>5 DEF PopMacroArgs
<1>7. args'.depth = args.depth - 1 /\ args'.base = args.base /\ args'.list = args.list
  <2>1. args.depth - 1 \in Nat /\ ArgsIn(args)
    BY <1>3, <1>5 DEF TInv
  <2>2. \A d \in Nat : LET a == [args EXCEPT !.depth = d]
                       IN  ArgsIn(a) /\ a.depth = d /\ a.base = args.base /\ a.list = args.list
    BY <2>1, ArgsExcept
  <2> QED BY <1>6, <2>1, <2>2
<1>8. StackOK(calls, args')
  <2>1. args'.base <= args'.depth
    BY <1>2, <1>3, <1>5, <1>7
  <2>2. args.depth <= Len(args.list) /\ Len(args.list) \in Nat
    BY <1>2 DEF StackOK
  <2>3. args'.depth <= Len(args'.list)
    BY <1>3, <1>7, <2>2
  <2> QED BY <1>2, <1>7, <2>1, <2>3 DEF StackOK
<1>9. PopsAhead(at') <= args'.depth - args'.base
  BY <1>2, <1>3, <1>4, <1>6, <1>7
<1> QED BY <1>1, <1>4, <1>5, <1>6, <1>8, <1>9 DEF AInv

\* The other steps in the text.
LEMMA TextArgs ==
  ASSUME WellFormed, Disciplined, TInv, TInv', AInv, NEW c \in BOOLEAN, NEW b \in BOOLEAN,
         \/ LineEndsSilently \/ LineEnds \/ Character \/ RecordTag(c) \/ ReturnTag(c) \/ SkipTag(c)
         \/ If(c, b) \/ Elsif(c, b) \/ Endif(c) \/ ExpressionThrows(c)
         \/ Macro(c) \/ EndMacro(c) \/ EraseMacro(c) \/ TagThrows
         \/ Ask(c) \/ Declined \/ ReturnUnderflow
  PROVE  AInv'
<1>0. /\ AheadOK(at) /\ RecordOK(rec) /\ rec \in RecSet /\ PopsAhead(at) \in Nat /\ MacrosPop(macros)
      /\ rec.on => PopsAhead(at) = 0
      /\ rec.name \in STRING /\ NoName \in STRING
  BY AheadIsNat, NamesAreStrings DEF AInv, TInv, RecSet
<1> DEFINE Moved == /\ \/ at' = at \/ at' = NextLine
                       \/ ~AtEnd /\ (at' = StepNext \/ at' = [at EXCEPT !.pos = @ + 1])
                    /\ Reading /\ UNCHANGED <<args, calls, saved>>
<1>1. ASSUME Moved, macros' = macros, RecordOK(rec'), rec'.on => rec.on \/ PopsAhead(at') = 0
      PROVE  AInv'
  <2>1. AheadOK(at') /\ PopsAhead(at') <= PopsAhead(at) /\ ctl # "thrown"
    BY <1>0, <1>1, ReadAhead, ReadingCtl
  <2> QED BY <1>1, <2>1, ReadKeeps
<1>2. CASE LineEndsSilently \/ ReturnTag(c) \/ Declined \/ ReturnUnderflow \/ If(c, b) \/ Elsif(c, b) \/ Endif(c)
           \/ ExpressionThrows(c) \/ Ask(c)
  <2>1. Moved /\ UNCHANGED <<rec, macros>>
    BY <1>2 DEF LineEndsSilently, ReturnTag, Declined, ReturnUnderflow, If, Elsif, Endif, ExpressionThrows,
                Ask, Handle, Tag, Asked, Reading
  <2> HIDE DEF Moved
  <2> QED BY <1>0, <1>1, <2>1
<1>3. CASE LineEnds \/ Character
  <2>1. Moved /\ UNCHANGED macros
    BY <1>3 DEF LineEnds, Character
  <2>2. PICK t \in TagSet : t.tag \in {"r", "ch", "slash"} /\ rec' = Recorded(t)
    <3>1. CASE LineEnds
      <4>1. TagOf("r") \in TagSet /\ TagOf("r").tag = "r"
        BY NamesAreStrings, TagOfIs
      <4> QED BY <3>1, <4>1 DEF LineEnds
    <3>2. CASE Character
      <4>1. Current \in TagSet
        BY <3>2, StepNextPlace DEF Character
      <4> QED BY <3>2, <4>1 DEF Character
    <3> QED BY <1>3, <3>1, <3>2
  <2>3. Allowed(t) /\ t.tag # "macro"
    BY <2>2, NamesDiffer DEF Allowed
  <2>4. RecordOK(rec') /\ (rec'.on <=> rec.on)
    BY <1>0, <2>2, <2>3, RecordedOK
  <2> HIDE DEF Moved
  <2> QED BY <1>1, <2>1, <2>4
<1>4. CASE RecordTag(c)
  <2>1. Moved /\ UNCHANGED macros /\ Reading /\ ~AtEnd /\ rec.on
        /\ rec' = [Recorded(Current) EXCEPT !.name = NameAfter]
    BY <1>4 DEF RecordTag, Tag, IsRecorded
  <2>2. Current \in TagSet /\ Allowed(Current)
    BY <1>0, <2>1, CurrentIs
  <2>3. /\ NameAfter \in STRING
        /\ NameAfter # NoName => Current.tag # "macro" /\ rec.name # NoName
    BY <1>0 DEF NameAfter
  <2>4. RecordOK(rec') /\ (rec'.on <=> rec.on)
    BY <1>0, <2>1, <2>2, <2>3, RecordedOK
  <2> HIDE DEF Moved
  <2> QED BY <1>1, <2>1, <2>4
<1>5. CASE SkipTag(c) \/ TagThrows
  <2>1. Moved /\ UNCHANGED macros /\ rec' = [rec EXCEPT !.name = NameAfter]
    BY <1>5 DEF SkipTag, TagThrows, Tag
  <2>2. NameAfter \in STRING /\ (NameAfter # NoName => rec.name # NoName)
    BY <1>0 DEF NameAfter
  <2>3. TagOf("r") \in TagSet /\ Allowed(TagOf("r"))
    <3>1. TagOf("r") \in TagSet /\ TagOf("r").tag = "r"
      BY NamesAreStrings, TagOfIs
    <3> QED BY <3>1, NamesDiffer DEF Allowed
  <2>4. RecordOK(rec') /\ (rec'.on <=> rec.on)
    BY <1>0, <2>1, <2>2, <2>3, RecordedOK
  <2> HIDE DEF Moved
  <2> QED BY <1>1, <2>1, <2>4
<1>6. CASE Macro(c)
  <2>1. Moved /\ UNCHANGED macros /\ Reading /\ ~AtEnd /\ Current.tag = "macro"
        /\ \/ at' = StepNext /\ rec' = [on |-> TRUE, name |-> Current.name, str |-> <<>>]
           \/ rec' = [rec EXCEPT !.name = NoName]
    BY <1>6 DEF Macro, Handle, Tag
  <2>2. CASE at' = StepNext /\ rec' = [on |-> TRUE, name |-> Current.name, str |-> <<>>]
    <3>1. RecordOK(rec')
      BY <2>2 DEF RecordOK, BodyOK, NoMacro
    <3>2. PopsAhead(at') = 0
      BY <1>0, <2>1, <2>2, MacroAhead
    <3> HIDE DEF Moved
    <3> QED BY <1>1, <2>1, <3>1, <3>2
  <2>3. CASE rec' = [rec EXCEPT !.name = NoName]
    <3>1. RecordOK(rec') /\ rec'.on = rec.on
      BY <1>0, <2>3 DEF RecordOK, BodyOK, RecSet
    <3> HIDE DEF Moved
    <3> QED BY <1>1, <2>1, <3>1
  <2> QED BY <2>1, <2>2, <2>3
<1>7. CASE EndMacro(c) \/ EraseMacro(c)
  <2>1. Moved /\ rec' \in {rec, NoRec}
    BY <1>7 DEF EndMacro, EraseMacro, Handle, Tag
  <2>2. RecordOK(NoRec) /\ NoRec.on = FALSE
    BY DEF NoRec, RecordOK, BodyOK, NoMacro
  <2>3. RecordOK(rec') /\ (rec'.on => rec.on)
    BY <1>0, <2>1, <2>2
  <2>4. MacrosPop(macros')
    <3>1. CASE EndMacro(c)
      <4> DEFINE text == Append(rec.str, MacroPop)
      <4>1. macros' = macros \/ macros' = Put(macros, rec.name, text)
        BY <3>1 DEF EndMacro
      <4>2. MacroOK(rec.name, text)
        <5>1. MacroPop \in InlineTags /\ MacroPop.tag = "macropop"
          BY NamesAreStrings, TagOfIs DEF MacroPop
        <5>2. rec.str \in Seq(InlineTags)
          BY <1>0 DEF RecSet
        <5>3. /\ Len(text) = Len(rec.str) + 1 /\ Len(rec.str) \in Nat /\ text # <<>>
              /\ \A k \in 1 .. Len(rec.str) : text[k] = rec.str[k]
              /\ text[Len(rec.str) + 1] = MacroPop
          BY <5>1, <5>2
        <5> HIDE DEF text
        <5>4. text # <<>> /\ text[Len(text)].tag = "macropop"
          BY <5>1, <5>3
        <5>5. \A k \in 1 .. Len(text) - 1 : Allowed(text[k])
          BY <1>0, <5>3 DEF RecordOK, BodyOK
        <5>6. rec.name # NoName => NoMacro(text)
          BY <1>0, <5>1, <5>3 DEF RecordOK, NoMacro
        <5> QED BY <5>4, <5>5, <5>6 DEF MacroOK
      <4> HIDE DEF text
      <4> QED BY <1>0, <4>1, <4>2 DEF MacrosPop, Put
    <3>2. CASE EraseMacro(c)
      <4>1. macros' = macros \/ macros' = [m \in DOMAIN macros \ {Current.name} |-> macros[m]]
        BY <3>2 DEF EraseMacro
      <4> QED BY <1>0, <4>1 DEF MacrosPop
    <3> QED BY <1>7, <3>1, <3>2
  <2>5. AheadOK(at') /\ PopsAhead(at') <= PopsAhead(at) /\ ctl # "thrown"
    BY <1>0, <2>1, ReadAhead, ReadingCtl
  <2>6. PopsAhead(at') \in Nat
    <3>1. PlaceIn(plan', at')
      BY DEF TInv
    <3>2. at'.pos \in Nat /\ at'.buffer \in Seq(TagSet)
      BY <3>1, PlaceFields
    <3> QED BY <3>2, PopsFinite
  <2>7. rec'.on => PopsAhead(at') = 0
    BY <1>0, <2>3, <2>5, <2>6
  <2>8. PopsAhead(at') <= args'.depth - args'.base
    <3>1. args.depth \in Nat /\ args.base \in Nat
      BY AheadIsNat
    <3> QED BY <1>0, <2>1, <2>5, <2>6, <3>1 DEF AInv
  <2>9. StackOK(calls', args') /\ SavedOK(saved')
    BY <2>1 DEF AInv
  <2> QED BY <2>3, <2>4, <2>5, <2>7, <2>8, <2>9 DEF AInv
<1> QED BY <1>2, <1>3, <1>4, <1>5, <1>6, <1>7

\* The vector of arguments reaches to its depth, whether it grows or not.
LEMMA PushedList ==
  ASSUME NEW S, NEW L \in Seq(S), NEW v \in S, NEW d \in Nat, d <= Len(L)
  PROVE  LET n == IF Len(L) > d THEN [L EXCEPT ![d + 1] = v] ELSE Append(L, v)
         IN  n \in Seq(S) /\ d + 1 <= Len(n)
<1>1. CASE Len(L) > d
  <2>1. d + 1 \in 1 .. Len(L)
    BY <1>1
  <2>2. [L EXCEPT ![d + 1] = v] \in Seq(S) /\ Len([L EXCEPT ![d + 1] = v]) = Len(L)
    BY <2>1, ExceptSeq
  <2> QED BY <1>1, <2>1, <2>2
<1>2. CASE ~(Len(L) > d)
  <2>1. Append(L, v) \in Seq(S) /\ Len(Append(L, v)) = Len(L) + 1
    BY AppendProperties
  <2> QED BY <1>2, <2>1
<1> QED BY <1>1, <1>2

\* An expanded macro has arguments of its own.
LEMMA ExpandArgs ==
  ASSUME WellFormed, Disciplined, TInv, TInv', AInv, NEW c \in BOOLEAN, NEW text, Expand(c, text)
  PROVE  AInv'
<1>1. /\ UNCHANGED <<rec, macros, calls, saved>> /\ ctl # "thrown" /\ Reading /\ ~AtEnd
      /\ args' = IF IsMacro THEN PushMacroArgs(Current.tag) ELSE args
  BY ReadingCtl DEF Expand, Tag
<1>2. /\ AheadOK(at) /\ MacrosPop(macros) /\ StackOK(calls, args) /\ PopsAhead(at) <= args.depth - args.base
  BY <1>1 DEF AInv
<1>3. /\ AheadOK(at') /\ rec.on = FALSE
      /\ PopsAhead(at') <= PopsAhead(at) + (IF IsMacro THEN 1 ELSE 0)
  BY <1>2, ExpandAhead
<1>4. /\ PopsAhead(at) \in Nat /\ args.depth \in Nat /\ args.base \in Nat /\ Current.tag \in STRING
  BY <1>1, <1>2, AheadIsNat, CurrentIs DEF TagSet
<1>5. PopsAhead(at') \in Nat
  <2>1. PlaceIn(plan', at')
    BY DEF TInv
  <2>2. at'.pos \in Nat /\ at'.buffer \in Seq(TagSet)
    BY <2>1, PlaceFields
  <2> QED BY <2>2, PopsFinite
<1>6. StackOK(calls, args') /\ PopsAhead(at') <= args'.depth - args'.base
  <2>1. CASE IsMacro
    <3> DEFINE n == IF Len(args.list) > args.depth THEN [args.list EXCEPT ![args.depth + 1] = Current.tag]
                    ELSE Append(args.list, Current.tag)
    <3>1. args'.depth = args.depth + 1 /\ args'.base = args.base /\ args'.list = n
      <4>1. ArgsIn(args)
        BY DEF TInv
      <4> QED BY <1>1, <2>1, <4>1, ArgsPushed
    <3>2. args.list \in Seq(STRING) /\ args.depth <= Len(args.list) /\ args.base <= args.depth
      BY <1>2 DEF StackOK
    <3>3. n \in Seq(STRING) /\ args.depth + 1 <= Len(n)
      BY <1>4, <3>2, PushedList
    <3> HIDE DEF n
    <3>4. args'.list \in Seq(STRING) /\ args'.base <= args'.depth /\ args'.depth <= Len(args'.list)
      BY <1>4, <3>1, <3>2, <3>3
    <3>5. StackOK(calls, args')
      BY <1>2, <3>1, <3>4 DEF StackOK
    <3> QED BY <1>2, <1>3, <1>4, <1>5, <2>1, <3>1, <3>5
  <2>2. CASE ~IsMacro
    BY <1>1, <1>2, <1>3, <1>4, <1>5, <2>2
  <2> QED BY <2>1, <2>2
<1> QED BY <1>1, <1>3, <1>6 DEF AInv

\* GoToStorageAndLabel leads to the beginning of a line, or stays.
Fresh(from, storage, target, g) ==
  \/ ~g.at.using
  \/ /\ g.at = from /\ g.breaks = FALSE /\ storage = NoName
     /\ g.throws = TRUE \/ target = NoLabel

\* Where a jump leads nothing is expanded, unless it stays where it is.
LEMMA GoToFresh ==
  ASSUME NEW from, NEW storage, NEW target
  PROVE  Fresh(from, storage, target, GoTo(from, storage, target))
<1> SUFFICES ASSUME NEW g, g = GoTo(from, storage, target)
             PROVE  \/ ~g.at.using
                    \/ /\ g.at = from /\ g.breaks = FALSE /\ storage = NoName
                       /\ g.throws = TRUE \/ target = NoLabel
    BY DEF Fresh
<1> DEFINE a == IF storage = NoName THEN from
                ELSE IF storage \in DOMAIN program THEN Start(storage) ELSE Nowhere
<1>1. storage # NoName => ~a.using
  BY DEF Start, Nowhere
<1>2. CASE storage # NoName /\ a = Nowhere
  <2>1. g.at = a
    BY <1>2 DEF GoTo
  <2> QED BY <1>1, <1>2, <2>1
<1>3. CASE ~(storage # NoName /\ a = Nowhere) /\ target = NoLabel
  <2>1. g.at = a /\ g.breaks = (storage # NoName)
    BY <1>3 DEF GoTo
  <2> QED BY <1>1, <1>3, <2>1
<1>4. CASE ~(storage # NoName /\ a = Nowhere) /\ target # NoLabel /\ target \in DOMAIN Labels(a.storage).cache
  <2>1. g.at = [Start(a.storage) EXCEPT !.line = Labels(a.storage).cache[target].line]
    BY <1>4 DEF GoTo
  <2>2. ~g.at.using
    BY <2>1 DEF Start, Nowhere
  <2> QED BY <2>2
<1>5. CASE ~(storage # NoName /\ a = Nowhere) /\ target # NoLabel /\ target \notin DOMAIN Labels(a.storage).cache
  <2>1. g.at = a /\ g.breaks = (storage # NoName) /\ g.throws = TRUE
    BY <1>5 DEF GoTo
  <2> QED BY <1>1, <1>5, <2>1
<1> QED BY <1>2, <1>3, <1>4, <1>5

\* The invariant holds after a step to a line, or one that stays.
LEMMA Lands ==
  ASSUME TInv', AInv, NEW a, at' = a, rec' \in {rec, NoRec},
         MacrosPop(macros'), StackOK(calls', args'), SavedOK(saved'),
         \/ ~a.using
         \/ /\ AheadOK(a) /\ (rec'.on => PopsAhead(a) = 0)
            /\ ctl' = "thrown" \/ PopsAhead(a) <= args'.depth - args'.base
  PROVE  AInv'
<1>1. RecordOK(rec')
  <2>1. RecordOK(NoRec)
    BY DEF NoRec, RecordOK, BodyOK, NoMacro
  <2> QED BY <2>1 DEF AInv
<1>2. args'.depth \in Nat /\ args'.base \in Nat /\ args'.base <= args'.depth
  <2>1. ArgsIn(args')
    BY DEF TInv
  <2> QED BY <2>1, ArgsExcept DEF StackOK
<1>3. AheadOK(at') /\ (rec'.on => PopsAhead(at') = 0)
      /\ (ctl' # "thrown" => PopsAhead(at') <= args'.depth - args'.base)
  <2>1. CASE ~a.using
    <3>1. PopsAhead(at') = 0 /\ AheadOK(at')
      BY <2>1, FreshAhead
    <3>2. 0 <= args'.depth - args'.base
      BY <1>2
    <3> QED BY <3>1, <3>2
  <2>2. CASE a.using
    <3>1. PopsAhead(at') = PopsAhead(a) /\ (AheadOK(at') <=> AheadOK(a))
      BY SameAhead
    <3> QED BY <2>2, <3>1
  <2> QED BY <2>1, <2>2
<1> QED BY <1>1, <1>3 DEF AInv

\* Dropping the arguments of the macros that were broken off keeps those of the callers.
LEMMA StackCut ==
  ASSUME NEW cs, NEW ar, ArgsIn(ar), StackOK(cs, ar), NEW a, a.list = ar.list, a.base = ar.base,
         a.depth \in {ar.depth, ar.base}
  PROVE  StackOK(cs, a)
<1>1. /\ ar.depth \in Nat /\ ar.base \in Nat /\ ar.base <= ar.depth /\ ar.depth <= Len(ar.list)
      /\ ar.list \in Seq(STRING) /\ Len(ar.list) \in Nat
  <2>1. ar.depth \in Nat /\ ar.base \in Nat
    BY ArgsExcept
  <2> QED BY <2>1 DEF StackOK
<1>2. a.base <= a.depth /\ a.depth <= Len(a.list)
  BY <1>1
<1> QED BY <1>1, <1>2 DEF StackOK

\* The depths in a frame are natural numbers.
LEMMA FrameDepth ==
  ASSUME NEW p, NEW cs \in Seq(FrameSet(p)), NEW i \in 1 .. Len(cs)
  PROVE  cs[i].depth \in Nat /\ cs[i].base \in Nat
<1>1. cs[i] \in FrameSet(p)
  OBVIOUS
<1>2. \A f \in FrameSet(p) : f.depth \in Nat /\ f.base \in Nat
  BY DEF FrameSet
<1> QED BY <1>1, <1>2

\* A call puts its frame above the others; the caller owns what is ahead of it.
LEMMA PushedStack ==
  ASSUME TInv, StackOK(calls, args), NEW a, AheadOK(a), PopsAhead(a) <= args.depth - args.base,
         NEW ar, ar.list = args.list, ar.depth = args.depth, ar.base = args.depth
  PROVE  StackOK(PushCallStack(a), ar)
<1> DEFINE cs == PushCallStack(a)
           n == Len(calls)
           f == cs[n + 1]
<1>1. /\ args.depth \in Nat /\ args.base \in Nat /\ n \in Nat /\ calls \in Seq(FrameSet(plan))
  BY AheadIsNat
<1>2. /\ Len(cs) = n + 1 /\ \A i \in 1 .. n : cs[i] = calls[i]
      /\ f.base = args.base /\ f.depth = args.depth
      /\ f.using = a.using /\ f.pos = a.pos /\ f.buffer = a.buffer
  BY <1>1 DEF PushCallStack
<1> HIDE DEF cs
<1>3. PopsAhead(f) = PopsAhead(a) /\ AheadOK(f)
  BY <1>2, SameAhead
<1>4. /\ args.base <= args.depth /\ args.depth <= Len(args.list) /\ args.list \in Seq(STRING)
      /\ \A i \in 1 .. n :
           /\ calls[i].base <= calls[i].depth /\ calls[i].depth <= args.base
           /\ PopsAhead(calls[i]) <= calls[i].depth - calls[i].base /\ AheadOK(calls[i])
      /\ \A i, j \in 1 .. n : i < j => calls[i].depth <= calls[j].base
  BY DEF StackOK
<1>5. \A i \in 1 .. n : calls[i].depth \in Nat /\ calls[i].base \in Nat
  BY <1>1, FrameDepth
<1>6. ASSUME NEW i \in 1 .. n + 1
      PROVE  /\ cs[i].base <= cs[i].depth /\ cs[i].depth <= ar.base
             /\ PopsAhead(cs[i]) <= cs[i].depth - cs[i].base /\ AheadOK(cs[i])
  <2>1. CASE i \in 1 .. n
    <3>1. /\ cs[i] = calls[i] /\ calls[i].depth <= args.base /\ args.base <= args.depth
          /\ calls[i].base <= calls[i].depth
          /\ PopsAhead(calls[i]) <= calls[i].depth - calls[i].base /\ AheadOK(calls[i])
      BY <1>2, <1>4, <2>1
    <3>2. calls[i].depth <= args.depth
      BY <1>1, <1>5, <2>1, <3>1
    <3> QED BY <3>1, <3>2
  <2>2. CASE i = n + 1
    BY <1>1, <1>2, <1>3, <1>4, <2>2
  <2> QED BY <1>1, <2>1, <2>2
<1>7. ASSUME NEW i \in 1 .. n + 1, NEW j \in 1 .. n + 1, i < j PROVE cs[i].depth <= cs[j].base
  <2>1. i \in 1 .. n
    BY <1>1, <1>7
  <2>2. CASE j \in 1 .. n
    BY <1>2, <1>4, <1>7, <2>1, <2>2
  <2>3. CASE j = n + 1
    BY <1>2, <1>4, <2>1, <2>3
  <2> QED BY <1>1, <2>2, <2>3
<1>8. ar.base <= ar.depth /\ ar.depth <= Len(ar.list)
  BY <1>1, <1>4
<1> QED BY <1>2, <1>4, <1>6, <1>7, <1>8 DEF StackOK, cs

\* The frame that a return takes.
LEMMA TopFrame ==
  ASSUME TInv, StackOK(calls, args), calls # <<>>, NEW f, f = Last1(calls)
  PROVE  /\ f.depth \in Nat /\ f.base \in Nat
         /\ PopsAhead(f) <= f.depth - f.base /\ AheadOK(f)
<1> DEFINE n == Len(calls)
<1>1. n \in 1 .. n /\ f = calls[n] /\ calls \in Seq(FrameSet(plan))
  BY PoppedFrames, AheadIsNat DEF TInv, Last1
<1>2. f.depth \in Nat /\ f.base \in Nat
  BY <1>1, FrameDepth
<1> QED BY <1>1, <1>2 DEF StackOK

\* The arguments are the frame's again; those of a return that throws stay, too.
LEMMA PoppedStack ==
  ASSUME TInv, StackOK(calls, args), calls # <<>>, NEW ar, ar.list = args.list, ar.depth = Last1(calls).depth
  PROVE  /\ ar.base = Last1(calls).base => StackOK(Front1(calls), ar)
         /\ ar.base = Last1(calls).depth => StackOK(calls, ar)
<1> DEFINE n == Len(calls)
           f == Last1(calls)
           fs == Front1(calls)
<1>1. /\ n \in Nat \ {0} /\ Len(fs) = n - 1 /\ \A i \in 1 .. n - 1 : fs[i] = calls[i]
      /\ calls \in Seq(FrameSet(plan)) /\ args.depth \in Nat /\ args.base \in Nat
  BY PoppedFrames, AheadIsNat DEF TInv
<1>2. f = calls[n]
  BY DEF Last1
<1> HIDE DEF fs, f
<1>3. \A i \in 1 .. n : calls[i].depth \in Nat /\ calls[i].base \in Nat
  BY <1>1, FrameDepth
<1>4. /\ args.base <= args.depth /\ args.depth <= Len(args.list) /\ args.list \in Seq(STRING)
      /\ \A i \in 1 .. n :
           /\ calls[i].base <= calls[i].depth /\ calls[i].depth <= args.base
           /\ PopsAhead(calls[i]) <= calls[i].depth - calls[i].base /\ AheadOK(calls[i])
      /\ \A i, j \in 1 .. n : i < j => calls[i].depth <= calls[j].base
  BY DEF StackOK
<1>5. /\ n \in 1 .. n /\ f.depth \in Nat /\ f.base \in Nat /\ f.base <= f.depth /\ f.depth <= args.base
      /\ PopsAhead(f) <= f.depth - f.base /\ AheadOK(f)
  BY <1>1, <1>2, <1>3, <1>4
<1>6. f.depth <= Len(args.list)
  BY <1>1, <1>4, <1>5
<1>7. ASSUME NEW i \in 1 .. n - 1 PROVE calls[i].depth <= f.base /\ calls[i].depth <= f.depth
  <2>1. i \in 1 .. n /\ i < n
    BY <1>1
  <2>2. calls[i].depth <= f.base
    BY <1>2, <1>4, <1>5, <2>1
  <2> QED BY <1>3, <1>5, <2>1, <2>2
<1>8. ASSUME ar.base = f.base PROVE StackOK(fs, ar)
  <2>1. \A i \in 1 .. Len(fs) : i \in 1 .. n - 1 /\ i \in 1 .. n /\ fs[i] = calls[i]
    BY <1>1
  <2>2. ar.base <= ar.depth /\ ar.depth <= Len(ar.list) /\ ar.list \in Seq(STRING)
    BY <1>4, <1>5, <1>6, <1>8 DEF f
  <2>3. ASSUME NEW i \in 1 .. Len(fs)
        PROVE  /\ fs[i].base <= fs[i].depth /\ fs[i].depth <= ar.base
               /\ PopsAhead(fs[i]) <= fs[i].depth - fs[i].base /\ AheadOK(fs[i])
    BY <1>4, <1>7, <1>8, <2>1
  <2>4. \A i, j \in 1 .. Len(fs) : i < j => fs[i].depth <= fs[j].base
    BY <1>4, <2>1
  <2> QED BY <2>2, <2>3, <2>4 DEF StackOK
<1>9. ASSUME ar.base = f.depth PROVE StackOK(calls, ar)
  <2>2. ar.base <= ar.depth /\ ar.depth <= Len(ar.list) /\ ar.list \in Seq(STRING)
    BY <1>4, <1>5, <1>6, <1>9 DEF f
  <2>3. ASSUME NEW i \in 1 .. n PROVE calls[i].depth <= ar.base
    <3>1. i \in 1 .. n - 1 \/ i = n
      BY <1>1
    <3> QED BY <1>2, <1>5, <1>7, <1>9, <3>1
  <2> QED BY <1>4, <2>2, <2>3 DEF StackOK
<1> QED BY <1>8, <1>9 DEF f, fs

\* A step to another place keeps or ends the recording.
LEMMA BrokenRec ==
  ASSUME NEW g PROVE RecAfter(g) \in {rec, NoRec}
  BY DEF RecAfter

\* The depth after a step to another place: the same, or the base.
LEMMA BrokenDepth ==
  ASSUME NEW g, NEW d, NEW b
  PROVE  DepthAfter(g, d, b) \in {d, b} /\ (g.breaks = FALSE => DepthAfter(g, d, b) = d)
  BY DEF DepthAfter

\* Jumps, calls and returns.
LEMMA JumpsArgs ==
  ASSUME WellFormed, Disciplined, TInv, TInv', AInv,
         Jump \/ Call \/ ReturnTo \/ ReturnBack
  PROVE  AInv'
<1>1. /\ Reading /\ ~AtEnd /\ UNCHANGED <<macros, saved>> /\ ctl # "thrown"
  BY ReadingCtl DEF Jump, Call, ReturnTo, ReturnBack, Asked, Reading
<1>2. /\ AheadOK(at) /\ MacrosPop(macros) /\ StackOK(calls, args) /\ PopsAhead(at) <= args.depth - args.base
      /\ rec.on => PopsAhead(at) = 0
      /\ MacrosPop(macros') /\ SavedOK(saved')
  BY <1>1 DEF AInv
<1>3. /\ PopsAhead(at) \in Nat /\ args.depth \in Nat /\ args.base \in Nat /\ rec.on \in BOOLEAN
      /\ ArgsIn(args) /\ PlaceIn(plan, at)
  BY AheadIsNat DEF TInv
<1>4. CASE Jump
  <2>1. PICK g : /\ g = GoTo(at, Current.storage, Current.target)
                 /\ at' = g.at /\ rec' = RecAfter(g)
                 /\ args' = [args EXCEPT !.depth = DepthAfter(g, @, args.base)]
                 /\ calls' = calls
    BY <1>4 DEF Jump
  <2>2. ~g.at.using \/ (g.at = at /\ g.breaks = FALSE)
    <3>1. Fresh(at, Current.storage, Current.target, g)
      BY <2>1, GoToFresh
    <3> QED BY <3>1 DEF Fresh
  <2> DEFINE d == DepthAfter(g, args.depth, args.base)
  <2>4. d \in {args.depth, args.base} /\ (g.breaks = FALSE => d = args.depth) /\ rec' \in {rec, NoRec}
    BY <2>1, BrokenRec, BrokenDepth
  <2>5. args' = [args EXCEPT !.depth = d]
    BY <2>1
  <2> HIDE DEF d
  <2>6. args'.depth = d /\ args'.base = args.base /\ args'.list = args.list
    <3>1. d \in Nat
      BY <1>3, <2>4
    <3>2. \A e \in Nat : LET a == [args EXCEPT !.depth = e]
                         IN  ArgsIn(a) /\ a.depth = e /\ a.base = args.base /\ a.list = args.list
      BY <1>3, ArgsExcept
    <3> QED BY <2>5, <3>1, <3>2
  <2>7. StackOK(calls', args')
    <3>1. StackOK(calls, args')
      BY <1>2, <1>3, <2>4, <2>6, StackCut
    <3> QED BY <2>1, <3>1
  <2>8. \/ ~g.at.using
        \/ /\ AheadOK(g.at) /\ (rec'.on => PopsAhead(g.at) = 0)
           /\ ctl' = "thrown" \/ PopsAhead(g.at) <= args'.depth - args'.base
    <3>1. NoRec.on = FALSE
      BY DEF NoRec
    <3> QED BY <1>2, <2>2, <2>4, <2>6, <3>1
  <2> QED BY <1>2, <2>1, <2>4, <2>7, <2>8, Lands
<1>5. CASE Call
  <2>1. PICK next, g : /\ next = StepNext /\ g = GoTo(next, Current.storage, Current.target)
                       /\ calls' = PushCallStack(next)
                       /\ at' = g.at /\ rec' = RecAfter(g)
                       /\ args' = [args EXCEPT !.base = args.depth]
                       /\ ctl' = (IF g.throws THEN "thrown" ELSE "start")
                       /\ Current.tag = "call"
    BY <1>5 DEF Call, Arrives, Asked
  <2>2. Current.storage # NoName \/ Current.target # NoLabel
    BY <1>1, <1>2, <2>1, CurrentIs DEF Clean
  <2>3. ~g.at.using \/ (g.at = next /\ g.throws = TRUE)
    <3>1. Fresh(next, Current.storage, Current.target, g)
      BY <2>1, GoToFresh
    <3> QED BY <2>2, <3>1 DEF Fresh
  <2>4. AheadOK(next) /\ PopsAhead(next) <= PopsAhead(at) /\ PopsAhead(next) \in Nat
    BY <1>1, <1>2, <2>1, StepAhead
  <2>5. args'.depth = args.depth /\ args'.base = args.depth /\ args'.list = args.list
    <3>1. \A e \in Nat : LET a == [args EXCEPT !.base = e]
                         IN  ArgsIn(a) /\ a.depth = args.depth /\ a.base = e /\ a.list = args.list
      BY <1>3, ArgsExcept
    <3> QED BY <1>3, <2>1, <3>1
  <2>6. StackOK(calls', args')
    <3>1. PopsAhead(next) <= args.depth - args.base
      BY <1>2, <1>3, <2>4
    <3>2. StackOK(PushCallStack(next), args')
      BY <1>2, <2>4, <2>5, <3>1, PushedStack
    <3> QED BY <2>1, <3>2
  <2>7. rec' \in {rec, NoRec}
    BY <2>1, BrokenRec
  <2>8. \/ ~g.at.using
        \/ /\ AheadOK(g.at) /\ (rec'.on => PopsAhead(g.at) = 0)
           /\ ctl' = "thrown" \/ PopsAhead(g.at) <= args'.depth - args'.base
    <3>1. NoRec.on = FALSE
      BY DEF NoRec
    <3>2. rec'.on => PopsAhead(next) = 0
      BY <1>2, <1>3, <2>4, <2>7, <3>1
    <3> QED BY <2>1, <2>3, <2>4, <3>2
  <2> QED BY <1>2, <2>1, <2>6, <2>7, <2>8, Lands
<1>6. CASE ReturnTo
  <2>1. PICK g, f : /\ g = GoTo(at, Current.storage, Current.target) /\ f = Last1(calls)
                    /\ at' = g.at /\ rec' = RecAfter(g)
                    /\ args' = [args EXCEPT !.depth = f.depth, !.base = IF g.throws THEN f.depth ELSE f.base]
                    /\ calls' = IF g.throws THEN calls ELSE Front1(calls)
                    /\ ctl' = (IF g.throws THEN "thrown" ELSE "returned")
                    /\ calls # <<>> /\ (Current.storage # NoName \/ Current.target # NoLabel)
    BY <1>6 DEF ReturnTo, Arrives
  <2>2. ~g.at.using \/ (g.at = at /\ g.throws = TRUE)
    <3>1. Fresh(at, Current.storage, Current.target, g)
      BY <2>1, GoToFresh
    <3> QED BY <2>1, <3>1 DEF Fresh
  <2> DEFINE base == IF g.throws THEN f.depth ELSE f.base
  <2>3. f.depth \in Nat /\ f.base \in Nat
    BY <1>2, <2>1, TopFrame
  <2>4. args'.depth = f.depth /\ args'.base = base /\ args'.list = args.list
    <3>1. \A d \in Nat, e \in Nat : LET a == [args EXCEPT !.depth = d, !.base = e]
                         IN  ArgsIn(a) /\ a.depth = d /\ a.base = e /\ a.list = args.list
      BY <1>3, ArgsExcept
    <3>2. base \in Nat /\ args' = [args EXCEPT !.depth = f.depth, !.base = base]
      BY <2>1, <2>3
    <3> HIDE DEF base
    <3> QED BY <2>3, <3>1, <3>2
  <2>5. StackOK(calls', args')
    <3>1. /\ args'.base = f.base => StackOK(Front1(calls), args')
          /\ args'.base = f.depth => StackOK(calls, args')
      BY <1>2, <2>1, <2>4, PoppedStack
    <3> QED BY <2>1, <2>4, <3>1
  <2>6. rec' \in {rec, NoRec}
    BY <2>1, BrokenRec
  <2>7. \/ ~g.at.using
        \/ /\ AheadOK(g.at) /\ (rec'.on => PopsAhead(g.at) = 0)
           /\ ctl' = "thrown" \/ PopsAhead(g.at) <= args'.depth - args'.base
    <3>1. NoRec.on = FALSE
      BY DEF NoRec
    <3> QED BY <1>2, <2>1, <2>2, <2>6, <3>1
  <2> QED BY <1>2, <2>1, <2>5, <2>6, <2>7, Lands
<1>7. CASE ReturnBack
  <2>1. PICK f, p : /\ f = Last1(calls) /\ p = ReturnPlace(f, GoTo(at, f.storage, f.label))
                    /\ at' = p.at /\ rec' = NoRec
                    /\ args' = [args EXCEPT !.depth = f.depth, !.base = IF p.throws THEN f.depth ELSE f.base]
                    /\ calls' = IF p.throws THEN calls ELSE Front1(calls)
                    /\ calls # <<>>
    BY <1>7 DEF ReturnBack
  <2>2. FrameIn(plan, f) /\ plan \in DOMAIN Plans
    BY <2>1, PoppedFrames DEF TInv
  <2>3. p.at = f.site /\ p.throws = FALSE
    BY <1>3, <2>1, <2>2, ReturnIsSite
  <2>4. /\ f.depth \in Nat /\ f.base \in Nat /\ PopsAhead(f) <= f.depth - f.base /\ AheadOK(f)
    BY <1>2, <2>1, TopFrame
  <2>5. args'.depth = f.depth /\ args'.base = f.base /\ args'.list = args.list
    <3>1. \A d \in Nat, e \in Nat : LET a == [args EXCEPT !.depth = d, !.base = e]
                         IN  ArgsIn(a) /\ a.depth = d /\ a.base = e /\ a.list = args.list
      BY <1>3, ArgsExcept
    <3>2. args' = [args EXCEPT !.depth = f.depth, !.base = f.base]
      BY <2>1, <2>3
    <3> QED BY <2>4, <3>1, <3>2
  <2>6. StackOK(calls', args')
    <3>1. StackOK(Front1(calls), args')
      BY <1>2, <2>1, <2>5, PoppedStack
    <3> QED BY <2>1, <2>3, <3>1
  <2>7. PopsAhead(f.site) = PopsAhead(f) /\ AheadOK(f.site)
    <3>1. f.site.using = f.using /\ f.site.pos = f.pos /\ f.site.buffer = f.buffer
      BY <2>2 DEF FrameIn
    <3> QED BY <2>4, <3>1, SameAhead
  <2>8. rec'.on = FALSE
    BY <2>1 DEF NoRec
  <2> QED BY <1>2, <2>1, <2>3, <2>4, <2>5, <2>6, <2>7, <2>8, Lands
<1> QED BY <1>4, <1>5, <1>6, <1>7
\* Without callers the depth has to exist only.
LEMMA SameStack ==
  ASSUME NEW ar, ar.list \in Seq(STRING), ar.base <= ar.depth, ar.depth <= Len(ar.list)
  PROVE  StackOK(<<>>, ar)
  BY DEF StackOK

\* The labels of a scenario have names.
LEMMA NamedLabels ==
  ASSUME plan \in DOMAIN Plans, NEW l \in LabelsOf(program)
  PROVE  l # NoLabel
<1>1. PICK s \in DOMAIN program : l \in {program[s][i].name : i \in {j \in DOMAIN program[s] : program[s][j].kind = "label"}}
  BY DEF LabelsOf
<1>2. PICK i \in DOMAIN program[s] : program[s][i].kind = "label" /\ l = program[s][i].name
  BY <1>1
<1> QED BY <1>2, KagAssumption DEF program, NoLabel

\* The arguments up to the depth are stored.
LEMMA StoredArgs ==
  ASSUME ArgsIn(args), StackOK(calls, args),
         NEW ar, ar = [args EXCEPT !.list = SubSeq(@, 1, args.depth)]
  PROVE  StackOK(calls, ar)
<1> DEFINE L == SubSeq(args.list, 1, args.depth)
<1>1. args.depth \in Nat /\ args.base \in Nat /\ args.list \in Seq(STRING) /\ args.depth <= Len(args.list)
  BY ArgsExcept DEF StackOK
<1>2. L \in Seq(STRING) /\ Len(L) = args.depth
  BY <1>1
<1> DEFINE K == {args.list}
           M == {L}
<1>3. L \in M /\ args \in [list : K, depth : Nat, base : Nat]
  BY DEF ArgsIn
<1> HIDE DEF K, L, M
<1>4. [args EXCEPT !.list = L].list = L /\ [args EXCEPT !.list = L].depth = args.depth
      /\ [args EXCEPT !.list = L].base = args.base
  BY <1>3
<1>5. ar.list = L /\ ar.depth = args.depth /\ ar.base = args.base
  BY <1>4 DEF L
<1> QED BY <1>1, <1>2, <1>5 DEF StackOK

\* Restored frames lie as the stored ones.
LEMMA RestoredStack ==
  ASSUME NEW p, NEW cs, FramesIn(p, cs), NEW ar, StackOK(cs, ar)
  PROVE  StackOK([i \in DOMAIN cs |-> [cs[i] EXCEPT !.cond = Restored(@)]], ar)
<1> DEFINE r == [i \in DOMAIN cs |-> [cs[i] EXCEPT !.cond = Restored(@)]]
<1>1. /\ Len(r) = Len(cs) /\ Len(cs) \in Nat
      /\ \A i \in 1 .. Len(cs) : /\ r[i].base = cs[i].base /\ r[i].depth = cs[i].depth
                                 /\ r[i].buffer = cs[i].buffer /\ r[i].pos = cs[i].pos
                                 /\ r[i].using = cs[i].using
  BY RestoredFrames
<1> HIDE DEF r
<1>2. ASSUME NEW i \in 1 .. Len(cs) PROVE PopsAhead(r[i]) = PopsAhead(cs[i]) /\ (AheadOK(r[i]) <=> AheadOK(cs[i]))
  BY <1>1, SameAhead
<1>3. StackOK(r, ar)
  BY <1>1, <1>2 DEF StackOK
<1> QED BY <1>3 DEF r

\* After a restore that throws the arguments below belong to nobody.
LEMMA RaisedStack ==
  ASSUME NEW p, NEW cs, FramesIn(p, cs), NEW ar, ArgsIn(ar), StackOK(cs, ar),
         NEW a, a.list = ar.list, a.base = ar.depth, a.depth = ar.depth
  PROVE  StackOK(cs, a)
<1>1. /\ ar.depth \in Nat /\ ar.base \in Nat /\ ar.base <= ar.depth /\ ar.depth <= Len(ar.list)
      /\ ar.list \in Seq(STRING) /\ cs \in Seq(FrameSet(p))
  BY ArgsExcept DEF StackOK, FramesIn
<1>2. ASSUME NEW i \in 1 .. Len(cs) PROVE cs[i].depth <= a.base
  <2>1. cs[i].depth \in Nat /\ cs[i].depth <= ar.base
    BY <1>1, FrameDepth DEF StackOK
  <2> QED BY <1>1, <2>1
<1> QED BY <1>1, <1>2 DEF StackOK

\* The methods.
LEMMA MethodsArgs ==
  ASSUME WellFormed, Disciplined, TInv, TInv', AInv,
         \/ \E s \in DOMAIN program : LoadScenario(s)
         \/ \E l \in LabelsOf(program) : GoToLabel(l) \/ CallLabel(l)
         \/ Clear \/ ClearCallStack \/ Interrupt \/ ResetInterrupt \/ Store \/ Restore
  PROVE  AInv'
<1>1. /\ AheadOK(at) /\ MacrosPop(macros) /\ StackOK(calls, args) /\ SavedOK(saved) /\ RecordOK(rec)
      /\ rec.on => PopsAhead(at) = 0
      /\ ctl # "thrown" => PopsAhead(at) <= args.depth - args.base
  BY DEF AInv
<1>2. /\ PopsAhead(at) \in Nat /\ args.depth \in Nat /\ args.base \in Nat /\ rec.on \in BOOLEAN
      /\ ArgsIn(args) /\ PlaceIn(plan, at) /\ plan \in DOMAIN Plans /\ SavedIn(plan, saved)
  BY AheadIsNat DEF TInv
<1>3. NoRec.on = FALSE
  BY DEF NoRec
<1>4. ASSUME NEW s \in DOMAIN program, LoadScenario(s) PROVE AInv'
  <2>1. PICK g : /\ g = GoTo(at, s, NoLabel) /\ at' = g.at /\ rec' = NoRec
                 /\ args' = [args EXCEPT !.depth = args.base]
                 /\ UNCHANGED <<macros, calls, saved>>
    BY <1>4 DEF LoadScenario
  <2>2. ~g.at.using
    <3>1. Fresh(at, s, NoLabel, g)
      BY <2>1, GoToFresh
    <3>2. s # NoName
      BY <1>2, KagAssumption DEF program
    <3> QED BY <3>1, <3>2 DEF Fresh
  <2>3. args'.depth = args.base /\ args'.base = args.base /\ args'.list = args.list
    <3>1. \A e \in Nat : LET a == [args EXCEPT !.depth = e]
                         IN  ArgsIn(a) /\ a.depth = e /\ a.base = args.base /\ a.list = args.list
      BY <1>2, ArgsExcept
    <3> QED BY <1>2, <2>1, <3>1
  <2>4. StackOK(calls', args')
    <3>1. StackOK(calls, args')
      BY <1>1, <1>2, <2>3, StackCut
    <3> QED BY <2>1, <3>1
  <2> QED BY <1>1, <2>1, <2>2, <2>4, Lands
<1>5. ASSUME NEW l \in LabelsOf(program), GoToLabel(l) PROVE AInv'
  <2>1. PICK g : /\ g = GoTo(at, NoName, l) /\ at' = g.at /\ rec' = RecAfter(g)
                 /\ args' = [args EXCEPT !.depth = DepthAfter(g, @, args.base)]
                 /\ ctl' = (IF g.throws THEN "thrown" ELSE IF ctl = "thrown" THEN "script" ELSE ctl)
                 /\ UNCHANGED <<macros, calls, saved>>
    BY <1>5 DEF GoToLabel, Back
  <2>2. ~g.at.using \/ (g.at = at /\ g.throws = TRUE)
    <3>1. Fresh(at, NoName, l, g)
      BY <2>1, GoToFresh
    <3>2. l # NoLabel
      BY <1>2, NamedLabels
    <3> QED BY <3>1, <3>2 DEF Fresh
  <2> DEFINE d == DepthAfter(g, args.depth, args.base)
  <2>3. d \in {args.depth, args.base} /\ rec' \in {rec, NoRec}
    BY <2>1, BrokenRec, BrokenDepth
  <2>4. args' = [args EXCEPT !.depth = d]
    BY <2>1
  <2> HIDE DEF d
  <2>5. args'.depth = d /\ args'.base = args.base /\ args'.list = args.list
    <3>1. \A e \in Nat : LET a == [args EXCEPT !.depth = e]
                         IN  ArgsIn(a) /\ a.depth = e /\ a.base = args.base /\ a.list = args.list
      BY <1>2, ArgsExcept
    <3> QED BY <1>2, <2>3, <2>4, <3>1
  <2>6. StackOK(calls', args')
    <3>1. StackOK(calls, args')
      BY <1>1, <1>2, <2>3, <2>5, StackCut
    <3> QED BY <2>1, <3>1
  <2>7. \/ ~g.at.using
        \/ /\ AheadOK(g.at) /\ (rec'.on => PopsAhead(g.at) = 0)
           /\ ctl' = "thrown" \/ PopsAhead(g.at) <= args'.depth - args'.base
    BY <1>1, <1>3, <2>1, <2>2, <2>3
  <2> QED BY <1>1, <2>1, <2>3, <2>6, <2>7, Lands
<1>6. ASSUME NEW l \in LabelsOf(program), CallLabel(l) PROVE AInv'
  <2>1. PICK g : /\ g = GoTo(at, NoName, l) /\ at' = g.at /\ rec' = RecAfter(g)
                 /\ args' = [args EXCEPT !.base = args.depth] /\ calls' = PushCallStack(at)
                 /\ ctl' = (IF g.throws THEN "thrown" ELSE IF ctl = "thrown" THEN "script" ELSE ctl)
                 /\ UNCHANGED <<macros, saved>> /\ ctl # "thrown"
    BY <1>6 DEF CallLabel, Back, Moves, MayMove
  <2>2. ~g.at.using \/ (g.at = at /\ g.throws = TRUE)
    <3>1. Fresh(at, NoName, l, g)
      BY <2>1, GoToFresh
    <3>2. l # NoLabel
      BY <1>2, NamedLabels
    <3> QED BY <3>1, <3>2 DEF Fresh
  <2>3. rec' \in {rec, NoRec}
    BY <2>1, BrokenRec
  <2>4. args'.depth = args.depth /\ args'.base = args.depth /\ args'.list = args.list
    <3>1. \A e \in Nat : LET a == [args EXCEPT !.base = e]
                         IN  ArgsIn(a) /\ a.depth = args.depth /\ a.base = e /\ a.list = args.list
      BY <1>2, ArgsExcept
    <3> QED BY <1>2, <2>1, <3>1
  <2>5. StackOK(calls', args')
    <3>1. StackOK(PushCallStack(at), args')
      BY <1>1, <2>1, <2>4, PushedStack
    <3> QED BY <2>1, <3>1
  <2>6. \/ ~g.at.using
        \/ /\ AheadOK(g.at) /\ (rec'.on => PopsAhead(g.at) = 0)
           /\ ctl' = "thrown" \/ PopsAhead(g.at) <= args'.depth - args'.base
    BY <1>1, <1>3, <2>1, <2>2, <2>3
  <2> QED BY <1>1, <2>1, <2>3, <2>5, <2>6, Lands
<1>7. CASE Clear
  <2>1. /\ at' = Nowhere /\ rec' = NoRec /\ args' = [list |-> <<>>, depth |-> 0, base |-> 0] /\ calls' = <<>>
        /\ UNCHANGED <<macros, saved>>
    BY <1>7 DEF Clear
  <2>2. ~Nowhere.using
    BY DEF Nowhere
  <2>3. StackOK(calls', args')
    <3>1. args'.list = <<>> /\ args'.depth = 0 /\ args'.base = 0
      BY <2>1
    <3>2. args'.list \in Seq(STRING) /\ args'.base <= args'.depth /\ args'.depth <= Len(args'.list)
      BY <3>1
    <3> QED BY <2>1, <3>2, SameStack
  <2> QED BY <1>1, <2>1, <2>2, <2>3, Lands
<1>8. CASE ClearCallStack
  <2>1. /\ calls' = <<>> /\ args' = [args EXCEPT !.depth = 0, !.base = 0] /\ args.depth = args.base
        /\ UNCHANGED <<at, ctl, rec, macros, saved>> /\ ctl # "thrown"
    BY <1>8 DEF ClearCallStack, Moves, InScript
  <2>2. args'.depth = 0 /\ args'.base = 0 /\ args'.list = args.list
    <3>1. \A d \in Nat, e \in Nat : LET a == [args EXCEPT !.depth = d, !.base = e]
                         IN  ArgsIn(a) /\ a.depth = d /\ a.base = e /\ a.list = args.list
      BY <1>2, ArgsExcept
    <3> QED BY <2>1, <3>1
  <2>3. StackOK(calls', args')
    <3>1. args.list \in Seq(STRING)
      BY <1>1 DEF StackOK
    <3>2. args'.list \in Seq(STRING) /\ args'.base <= args'.depth /\ args'.depth <= Len(args'.list)
      BY <2>2, <3>1
    <3> QED BY <2>1, <3>2, SameStack
  <2>4. PopsAhead(at) = 0
    BY <1>1, <1>2, <2>1
  <2>5. PopsAhead(at) <= args'.depth - args'.base
    BY <2>2, <2>4
  <2> QED BY <1>1, <2>1, <2>3, <2>4, <2>5, Lands
<1>9. CASE Interrupt \/ ResetInterrupt
  <2>1. UNCHANGED <<at, ctl, rec, macros, args, calls, saved>>
    BY <1>9 DEF Interrupt, ResetInterrupt
  <2> QED BY <2>1 DEF AInv
<1>10. CASE Store
  <2>1. UNCHANGED <<at, ctl, rec, macros, args, calls>>
    BY <1>10 DEF Store
  <2> DEFINE ar == [args EXCEPT !.list = SubSeq(@, 1, args.depth)]
             d == [macros |-> macros, storage |-> at.storage, label |-> label, cond |-> cond, calls |-> calls,
                   args |-> ar]
  <2>2. saved' = <<d>>
    BY <1>10 DEF Store
  <2>3. StackOK(calls, ar)
    BY <1>1, <1>2, StoredArgs
  <2>4. d.macros = macros /\ d.calls = calls /\ d.args = ar
    OBVIOUS
  <2> HIDE DEF d, ar
  <2>5. SavedOK(saved')
    BY <1>1, <2>2, <2>3, <2>4 DEF SavedOK
  <2> QED BY <2>1, <2>5 DEF AInv
<1>11. CASE Restore
  <2>1. PICK d, g : /\ d = saved[1] /\ g = GoTo(Nowhere, d.storage, d.label)
                    /\ macros' = d.macros
                    /\ calls' = [i \in DOMAIN d.calls |-> [d.calls[i] EXCEPT !.cond = Restored(@)]]
                    /\ at' = g.at
                    /\ args' = IF g.throws THEN [d.args EXCEPT !.base = d.args.depth] ELSE d.args
                    /\ rec' = NoRec
                    /\ saved' = saved /\ saved # <<>>
    BY <1>11 DEF Restore
  <2>2. FramesIn(plan, d.calls) /\ ArgsIn(d.args)
    BY <1>2, <2>1 DEF SavedIn, StateIn
  <2>3. MacrosPop(d.macros) /\ StackOK(d.calls, d.args)
    BY <1>1, <2>1 DEF SavedOK
  <2>4. ~g.at.using
    <3>1. Fresh(Nowhere, d.storage, d.label, g)
      BY <2>1, GoToFresh
    <3> QED BY <3>1 DEF Fresh, Nowhere
  <2>5. StackOK(d.calls, args')
    <3>1. CASE g.throws
      <4>1. args' = [d.args EXCEPT !.base = d.args.depth] /\ d.args.depth \in Nat /\ d.args.base \in Nat
        BY <2>1, <2>2, <3>1, ArgsExcept
      <4>2. args'.list = d.args.list /\ args'.depth = d.args.depth /\ args'.base = d.args.depth
        <5>1. \A e \in Nat : LET a == [d.args EXCEPT !.base = e]
                              IN  ArgsIn(a) /\ a.depth = d.args.depth /\ a.base = e /\ a.list = d.args.list
          BY <2>2, ArgsExcept
        <5> QED BY <4>1, <5>1
      <4> QED BY <2>2, <2>3, <4>1, <4>2, RaisedStack
    <3>2. CASE ~g.throws
      BY <2>1, <2>3, <3>2
    <3> QED BY <3>1, <3>2
  <2>6. StackOK(calls', args')
    BY <2>1, <2>2, <2>5, RestoredStack
  <2>7. MacrosPop(macros') /\ SavedOK(saved')
    BY <1>1, <2>1, <2>3
  <2> QED BY <2>1, <2>4, <2>6, <2>7, Lands
<1> QED BY <1>4, <1>5, <1>6, <1>7, <1>8, <1>9, <1>10, <1>11

-----------------------------------------------------------------------------
\* The invariant holds at first.
LEMMA AInvStarts ==
  ASSUME Init
  PROVE  AInv
<1>1. /\ at = Start(Main) /\ rec = NoRec /\ macros = <<>> /\ args = [list |-> <<>>, depth |-> 0, base |-> 0]
      /\ calls = <<>> /\ saved = <<>>
  BY DEF Init
<1>2. AheadOK(at) /\ PopsAhead(at) = 0
  <2>1. ~at.using
    BY <1>1 DEF Start, Nowhere
  <2> QED BY <2>1, FreshAhead
<1>3. RecordOK(rec) /\ rec.on = FALSE
  BY <1>1 DEF NoRec, RecordOK, BodyOK, NoMacro
<1>4. StackOK(calls, args) /\ args.depth = 0 /\ args.base = 0
  <2>1. args.list = <<>> /\ args.depth = 0 /\ args.base = 0
    BY <1>1
  <2>2. args.list \in Seq(STRING) /\ args.base <= args.depth /\ args.depth <= Len(args.list)
    BY <2>1
  <2> QED BY <1>1, <2>1, <2>2, SameStack
<1>5. MacrosPop(macros) /\ SavedOK(saved)
  BY <1>1 DEF MacrosPop, SavedOK
<1> QED BY <1>2, <1>3, <1>4, <1>5 DEF AInv

\* The invariant holds after every step.
LEMMA AInvKept ==
  ASSUME WellFormed, Disciplined, TInv, TInv', AInv, [Next]_vars
  PROVE  AInv'
<1>1. CASE GetNextTagStep
  BY <1>1, LoopArgs, TextArgs, ExpandArgs, PopArgs, JumpsArgs DEF GetNextTagStep
<1>2. CASE Script
  BY <1>2, LoopArgs, MethodsArgs DEF Script
<1>3. CASE UNCHANGED vars
  <2>1. UNCHANGED <<at, ctl, rec, macros, args, calls, saved>>
    BY <1>3 DEF vars
  <2> QED BY <2>1 DEF AInv
<1> QED BY <1>1, <1>2, <1>3 DEF Next

\* The invariant gives the two properties.
LEMMA AInvImplies ==
  ASSUME TInv, AInv
  PROVE  PopsOwnArgs /\ ArgsExist
<1>1. /\ StackOK(calls, args) /\ (ctl # "thrown" => PopsAhead(at) <= args.depth - args.base)
      /\ ArgsIn(args) /\ calls \in Seq(FrameSet(plan))
  BY DEF AInv, TInv, FramesIn
<1>2. args.depth \in Nat /\ args.base \in Nat /\ DOMAIN calls = 1 .. Len(calls)
  <2>1. args.depth \in Nat /\ args.base \in Nat
    BY <1>1, ArgsExcept
  <2>2. DOMAIN calls = 1 .. Len(calls)
    BY <1>1
  <2> QED BY <2>1, <2>2
<1>3. /\ args.base <= args.depth /\ args.depth <= Len(args.list) /\ Len(args.list) \in Nat
      /\ \A i \in 1 .. Len(calls) : /\ calls[i].depth <= args.base
                                    /\ PopsAhead(calls[i]) <= calls[i].depth - calls[i].base
  BY <1>1 DEF StackOK
<1>4. ASSUME NEW i \in DOMAIN calls PROVE calls[i].depth <= Len(args.list)
  <2>1. calls[i].depth \in Nat /\ calls[i].depth <= args.base
    BY <1>1, <1>2, <1>3, FrameDepth
  <2> QED BY <1>2, <1>3, <2>1
<1>5. PopsOwnArgs
  BY <1>1, <1>2, <1>3 DEF PopsOwnArgs
<1>6. ArgsExist
  BY <1>3, <1>4 DEF ArgsExist
<1> QED BY <1>5, <1>6

\* For every well formed and disciplined set of scenarios a [macropop] that is
\* ahead, of the text that is being read or of a caller, finds an argument above
\* the base: no macro that ends takes the arguments of the macro around the call.
THEOREM MacrosPopOwnArgs == WellFormed /\ Disciplined => (Spec => []PopsOwnArgs)
<1> SUFFICES ASSUME WellFormed, Disciplined PROVE Spec => []PopsOwnArgs
  OBVIOUS
<1>1. Init => TInv /\ AInv
  BY TInvStarts, AInvStarts
<1>2. (TInv /\ AInv) /\ [Next]_vars => (TInv /\ AInv)'
  BY TInvKept, AInvKept
<1>3. TInv /\ AInv => PopsOwnArgs
  BY AInvImplies
<1> QED BY <1>1, <1>2, <1>3, PTL DEF Spec

\* MacroArgStackDepth never goes beyond MacroArgs, and no frame does, also after
\* a jump out of macros, an exception or restore().
THEOREM ArgumentsExist == WellFormed /\ Disciplined => (Spec => []ArgsExist)
<1> SUFFICES ASSUME WellFormed, Disciplined PROVE Spec => []ArgsExist
  OBVIOUS
<1>1. Init => TInv /\ AInv
  BY TInvStarts, AInvStarts
<1>2. (TInv /\ AInv) /\ [Next]_vars => (TInv /\ AInv)'
  BY TInvKept, AInvKept
<1>3. TInv /\ AInv => ArgsExist
  BY AInvImplies
<1> QED BY <1>1, <1>2, <1>3, PTL DEF Spec
=============================================================================
