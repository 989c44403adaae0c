-------------------------- MODULE TextRenderProofs --------------------------
(***************************************************************************)
(* Proofs about the text layout of TextRenderBase (TextRender).            *)
(*                                                                         *)
(* The pens of Place and the widths of the groups are recursive functions; *)
(* that they exist is proved by induction over the set of numbers they     *)
(* exist for.  What follows only uses how one character is put behind the  *)
(* one before it (Chain).  The properties of lines (Inside, Kept, Filled)  *)
(* are stated of any characters and shown to survive when a run is joined  *)
(* to them, which is what flush does; the invariants OrderInv, LineInv and *)
(* FillInv then follow step by step.                                       *)
(***************************************************************************)
EXTENDS TextRender, SequenceTheorems, WellFoundedInduction, TLAPS

-----------------------------------------------------------------------------
(* Induction over the natural numbers.                                     *)

\* A set of numbers that holds 0 and what follows each of its elements holds all.
LEMMA Induction ==
  ASSUME NEW S, 0 \in S, \A n \in Nat : n \in S => n + 1 \in S
  PROVE  \A n \in Nat : n \in S
<1> SUFFICES ASSUME Nat \ S # {} PROVE FALSE
  OBVIOUS
<1> DEFINE T == Nat \ S
<1>1. T \in SUBSET Nat /\ T # {}
  OBVIOUS
<1>2. \E x \in T : \A y \in T : ~(<<y, x>> \in OpToRel(<, Nat))
  <2>1. IsWellFoundedOn(OpToRel(<, Nat), Nat)
    BY NatLessThanWellFounded
  <2> HIDE DEF T
  <2> QED BY <1>1, <2>1, WFMin
<1>3. PICK x \in T : \A y \in T : ~(<<y, x>> \in OpToRel(<, Nat))
  BY <1>2
<1>4. x \in Nat /\ x # 0 /\ x - 1 \in Nat
  OBVIOUS
<1>5. x - 1 \in S
  <2> SUFFICES ASSUME x - 1 \notin S PROVE FALSE
    OBVIOUS
  <2>1. x - 1 \in T /\ x - 1 < x
    BY <1>4
  <2> QED BY <1>3, <1>4, <2>1 DEF OpToRel
<1> QED BY <1>4, <1>5

\* The same for the numbers up to n, upwards from 1.
LEMMA Upwards ==
  ASSUME NEW S, NEW n \in Nat,
         n > 0 => 1 \in S,
         \A i \in 1 .. n - 1 : i \in S => i + 1 \in S
  PROVE  \A i \in 1 .. n : i \in S
<1> DEFINE T == {m \in Nat : m + 1 \in 1 .. n => m + 1 \in S}
<1>1. 0 \in T
  OBVIOUS
<1>2. ASSUME NEW m \in Nat, m \in T PROVE m + 1 \in T
  <2> SUFFICES ASSUME m + 2 \in 1 .. n PROVE m + 2 \in S
    OBVIOUS
  <2>1. m + 1 \in 1 .. n - 1 /\ m + 1 \in S
    BY <1>2
  <2> QED BY <2>1
<1>3. \A m \in Nat : m \in T
  <2> HIDE DEF T
  <2> QED BY <1>1, <1>2, Induction
<1>4. ASSUME NEW i \in 1 .. n PROVE i \in S
  <2>1. i - 1 \in Nat /\ i - 1 \in T
    BY <1>3
  <2> QED BY <2>1
<1> QED BY <1>4

\* And downwards from n.
LEMMA Downwards ==
  ASSUME NEW S, NEW n \in Nat,
         n > 0 => n \in S,
         \A i \in 1 .. n - 1 : i + 1 \in S => i \in S
  PROVE  \A i \in 1 .. n : i \in S
<1> DEFINE T == {m \in Nat : n - m \in 1 .. n => n - m \in S}
<1>1. 0 \in T
  OBVIOUS
<1>2. ASSUME NEW m \in Nat, m \in T PROVE m + 1 \in T
  <2> SUFFICES ASSUME n - (m + 1) \in 1 .. n PROVE n - (m + 1) \in S
    OBVIOUS
  <2>1. n - (m + 1) \in 1 .. n - 1 /\ (n - (m + 1)) + 1 = n - m /\ n - m \in 1 .. n
    OBVIOUS
  <2>2. n - m \in S
    BY <1>2, <2>1
  <2> QED BY <2>1, <2>2
<1>3. \A m \in Nat : m \in T
  <2> HIDE DEF T
  <2> QED BY <1>1, <1>2, Induction
<1>4. ASSUME NEW i \in 1 .. n PROVE i \in S
  <2>1. n - i \in Nat /\ n - i \in T /\ n - (n - i) = i
    BY <1>3
  <2> QED BY <2>1
<1> QED BY <1>4

-----------------------------------------------------------------------------
(* The recursive functions of the model.                                   *)

PenBody(characters, x, y, g, i) ==
  IF i = 0 THEN [left |-> x, x |-> x, y |-> y] ELSE Put(g[i - 1], characters[i])

\* There are pens for each number of characters.
LEMMA PensExist ==
  ASSUME NEW characters, NEW x, NEW y, NEW n \in Nat
  PROVE  \E g : g = [i \in 0 .. n |-> PenBody(characters, x, y, g, i)]
<1> DEFINE Body(g, i) == PenBody(characters, x, y, g, i)
           Has(m) == \E g : g = [i \in 0 .. m |-> Body(g, i)]
           S == {m \in Nat : Has(m)}
<1>1. Has(0)
  <2> DEFINE g == [i \in 0 .. 0 |-> [left |-> x, x |-> x, y |-> y]]
  <2>1. g = [i \in 0 .. 0 |-> Body(g, i)]
    BY DEF PenBody
  <2> QED BY <2>1
<1>2. ASSUME NEW m \in Nat, Has(m) PROVE Has(m + 1)
  <2>1. PICK g : g = [i \in 0 .. m |-> Body(g, i)]
    BY <1>2
  <2> DEFINE h == [i \in 0 .. m + 1 |-> IF i <= m THEN g[i] ELSE Body(g, i)]
  <2>2. ASSUME NEW i \in 0 .. m + 1 PROVE Body(h, i) = Body(g, i)
    <3>1. CASE i = 0
      BY <3>1 DEF PenBody
    <3>2. CASE i # 0
      <4>1. i - 1 \in 0 .. m /\ h[i - 1] = g[i - 1]
        BY <3>2
      <4> QED BY <3>2, <4>1 DEF PenBody
    <3> QED BY <3>1, <3>2
  <2>3. ASSUME NEW i \in 0 .. m + 1 PROVE h[i] = Body(h, i)
    <3> HIDE DEF Body
    <3>1. CASE i <= m
      <4>1. i \in 0 .. m /\ h[i] = g[i]
        BY <3>1
      <4>2. g[i] = Body(g, i)
        BY <2>1, <4>1
      <4> QED BY <2>2, <4>1, <4>2
    <3>2. CASE ~(i <= m)
      BY <2>2, <3>2
    <3> QED BY <3>1, <3>2
  <2>4. h = [i \in 0 .. m + 1 |-> Body(h, i)]
    <3> DEFINE F == [i \in 0 .. m + 1 |-> Body(h, i)]
    <3>1. DOMAIN h = DOMAIN F /\ \A i \in DOMAIN h : h[i] = F[i]
      BY <2>3
    <3> QED BY <3>1
  <2> QED BY <2>4
<1>3. \A m \in Nat : m \in S
  <2>1. 0 \in S /\ \A m \in Nat : m \in S => m + 1 \in S
    BY <1>1, <1>2
  <2> HIDE DEF S
  <2> QED BY <2>1, Induction
<1> QED BY <1>3

\* The pen behind a character is where Put leaves it from behind the one before.
LEMMA PensUnfold ==
  ASSUME NEW characters, NEW x, NEW y, Len(characters) \in Nat
  PROVE  LET pen == Pens(characters, x, y)
         IN  /\ pen[0] = [left |-> x, x |-> x, y |-> y]
             /\ \A i \in 1 .. Len(characters) : pen[i] = Put(pen[i - 1], characters[i])
<1> DEFINE g == CHOOSE g : g = [i \in 0 .. Len(characters) |->
                                   PenBody(characters, x, y, g, i)]
<1>1. g = [i \in 0 .. Len(characters) |-> PenBody(characters, x, y, g, i)]
  BY PensExist
<1>0. Pens(characters, x, y) = g
  BY DEF Pens, PenBody
<1> HIDE DEF g
<1>2. \A i \in 0 .. Len(characters) : g[i] = PenBody(characters, x, y, g, i)
  BY <1>1
<1>3. /\ g[0] = [left |-> x, x |-> x, y |-> y]
      /\ \A i \in 1 .. Len(characters) : g[i] = Put(g[i - 1], characters[i])
  BY <1>2 DEF PenBody
<1> QED BY <1>0, <1>3

\* The i-th of the characters ends a group.
Ends(characters, breaks, i) ==
  \/ characters[i].kind # Leading
  \/ characters[i].id \in breaks \/ i = Len(characters)

WidthBody(characters, breaks, g, i) ==
  characters[i].advance + IF Ends(characters, breaks, i) THEN 0 ELSE g[i + 1]

\* There are widths for the last m characters.
LEMMA WidthsExist ==
  ASSUME NEW characters, NEW breaks, Len(characters) \in Nat
  PROVE  \E g : g = [i \in 1 .. Len(characters) |-> WidthBody(characters, breaks, g, i)]
<1> DEFINE n == Len(characters)
           Body(g, i) == WidthBody(characters, breaks, g, i)
           Has(m) == \E g : g = [i \in n + 1 - m .. n |-> Body(g, i)]
           S == {m \in Nat : Has(m)}
<1>1. Has(0)
  <2> DEFINE g == [i \in n + 1 - 0 .. n |-> 0]
  <2>1. n + 1 - 0 .. n = {}
    OBVIOUS
  <2>2. g = [i \in n + 1 - 0 .. n |-> Body(g, i)]
    BY <2>1
  <2> QED BY <2>2
<1>2. ASSUME NEW m \in Nat, Has(m) PROVE Has(m + 1)
  <2>1. PICK g : g = [i \in n + 1 - m .. n |-> Body(g, i)]
    BY <1>2
  <2> DEFINE lo == n + 1 - (m + 1)
             h == [i \in lo .. n |-> IF i >= n + 1 - m THEN g[i] ELSE Body(g, i)]
  <2>2. ASSUME NEW i \in lo .. n PROVE Body(h, i) = Body(g, i)
    <3>1. CASE i = n
      BY <3>1 DEF WidthBody, Ends
    <3>2. CASE i # n
      <4>1. i + 1 \in lo .. n /\ i + 1 >= n + 1 - m
        BY <3>2
      <4>2. h[i + 1] = g[i + 1]
        BY <4>1
      <4> QED BY <4>2 DEF WidthBody
    <3> QED BY <3>1, <3>2
  <2>3. ASSUME NEW i \in lo .. n PROVE h[i] = Body(h, i)
    <3> HIDE DEF Body
    <3>1. CASE i >= n + 1 - m
      <4>1. i \in n + 1 - m .. n /\ h[i] = g[i]
        BY <3>1
      <4>2. g[i] = Body(g, i)
        BY <2>1, <4>1
      <4> QED BY <2>2, <4>1, <4>2
    <3>2. CASE ~(i >= n + 1 - m)
      BY <2>2, <3>2
    <3> QED BY <3>1, <3>2
  <2>4. h = [i \in lo .. n |-> Body(h, i)]
    <3> DEFINE F == [i \in lo .. n |-> Body(h, i)]
    <3>1. DOMAIN h = DOMAIN F /\ \A i \in DOMAIN h : h[i] = F[i]
      BY <2>3
    <3> QED BY <3>1
  <2> QED BY <2>4
<1>3. \A m \in Nat : m \in S
  <2>1. 0 \in S /\ \A m \in Nat : m \in S => m + 1 \in S
    BY <1>1, <1>2
  <2> HIDE DEF S
  <2> QED BY <2>1, Induction
<1>4. Has(n)
  BY <1>3
<1>5. n + 1 - n = 1
  OBVIOUS
<1> QED BY <1>4, <1>5

\* The width from a character is its advance and, if it ends no group, the
\* width from the next.
LEMMA WidthsUnfold ==
  ASSUME NEW characters, NEW breaks, Len(characters) \in Nat,
         DOMAIN characters = 1 .. Len(characters)
  PROVE  \A i \in 1 .. Len(characters) :
            Widths(characters, breaks)[i]
              = characters[i].advance + IF Ends(characters, breaks, i) THEN 0
                                        ELSE Widths(characters, breaks)[i + 1]
<1> DEFINE g == CHOOSE g : g = [i \in 1 .. Len(characters) |->
                                   WidthBody(characters, breaks, g, i)]
<1>1. g = [i \in 1 .. Len(characters) |-> WidthBody(characters, breaks, g, i)]
  BY WidthsExist
<1>0. Widths(characters, breaks) = g
  BY DEF Widths, WidthBody, Ends
<1> HIDE DEF g
<1>2. \A i \in 1 .. Len(characters) : g[i] = WidthBody(characters, breaks, g, i)
  BY <1>1
<1> QED BY <1>0, <1>2 DEF WidthBody

-----------------------------------------------------------------------------
(* Where a run of characters is placed.                                    *)

\* What Put needs to know of the object.
Ruled ==
  /\ box \in Int /\ indent \in Int /\ state.pitch \in Int
  /\ LineHeight \in Nat /\ LineHeight > 0

\* c stands where it is put with the pen at x, y.
Behind(c, x, y) ==
  \/ x + c.advance <= box /\ c.x = x /\ c.y = y
  \/ x + c.advance > box /\ c.x = indent /\ c.y = y + LineHeight

\* The characters were put one after the other with the pen at x, y.
Chain(characters, x, y) ==
  \A i \in 1 .. Len(characters) :
     IF i = 1 THEN Behind(characters[i], x, y)
     ELSE Behind(characters[i], characters[i - 1].x + characters[i - 1].advance,
                 characters[i - 1].y)

\* Characters that were placed are those that waited.
Same(characters, waiting) ==
  /\ characters \in Seq(Character)
  /\ Len(characters) = Len(waiting)
  /\ \A i \in 1 .. Len(waiting) :
        /\ characters[i].id = waiting[i].id
        /\ characters[i].kind = waiting[i].kind
        /\ characters[i].advance = waiting[i].cw + state.pitch

\* The pen is at x, y behind the last of the characters, that were put from
\* fromX, fromY on.
PenBehind(characters, x, y, fromX, fromY) ==
  LET n == Len(characters)
  IN  IF n = 0 THEN x = fromX /\ y = fromY
      ELSE x = characters[n].x + characters[n].advance /\ y = characters[n].y

PlaceGives(r, waiting, x, y) ==
  /\ Same(r.placed, waiting)
  /\ Chain(r.placed, x, y)
  /\ PenBehind(r.placed, r.x, r.y, x, y)
  /\ r.x \in Int /\ r.y \in Nat

PenTypes(pen) == pen.left \in Int /\ pen.x \in Int /\ pen.y \in Nat

\* Put leaves numbers.
LEMMA PutTypes ==
  ASSUME Ruled, NEW pen, PenTypes(pen), NEW c \in Character
  PROVE  PenTypes(Put(pen, c))
<1>1. c.cw \in Int
  BY DEF Character
<1> QED BY <1>1 DEF Ruled, PenTypes, Put, Advance

\* The pens of a run are numbers.
LEMMA PensTypes ==
  ASSUME Ruled, NEW B \in Seq(Character), NEW x \in Int, NEW y \in Nat
  PROVE  \A i \in 0 .. Len(B) : PenTypes(Pens(B, x, y)[i])
<1> DEFINE pen == Pens(B, x, y)
           S == {i \in Nat : i <= Len(B) => PenTypes(pen[i])}
<1>0. Len(B) \in Nat /\ \A i \in 1 .. Len(B) : B[i] \in Character
  OBVIOUS
<1>1. /\ pen[0] = [left |-> x, x |-> x, y |-> y]
      /\ \A i \in 1 .. Len(B) : pen[i] = Put(pen[i - 1], B[i])
  BY <1>0, PensUnfold
<1> HIDE DEF pen
<1>2. 0 \in S
  BY <1>1 DEF PenTypes
<1>3. ASSUME NEW n \in Nat, n \in S PROVE n + 1 \in S
  <2> SUFFICES ASSUME n + 1 <= Len(B) PROVE PenTypes(pen[n + 1])
    OBVIOUS
  <2>1. PenTypes(pen[n]) /\ n + 1 \in 1 .. Len(B) /\ (n + 1) - 1 = n
    BY <1>0, <1>3
  <2>2. PenTypes(Put(pen[n], B[n + 1]))
    BY <1>0, <2>1, PutTypes
  <2> QED BY <1>1, <2>1, <2>2
<1>4. \A n \in Nat : n \in S
  <2> HIDE DEF S
  <2> QED BY <1>2, <1>3, Induction
<1>5. \A i \in 0 .. Len(B) : PenTypes(pen[i])
  BY <1>0, <1>4
<1> QED BY <1>5 DEF pen

\* d is c where Place leaves it, from one pen to the next.
PlacedAs(c, d, pen, after) ==
  /\ d \in Character
  /\ d.id = c.id /\ d.kind = c.kind /\ d.advance = c.cw + state.pitch
  /\ Behind(d, pen.x, pen.y)
  /\ after.x = d.x + d.advance /\ after.y = d.y

PutAs(c, d, pen, after) ==
  /\ c \in Character /\ PenTypes(pen) /\ PenTypes(after)
  /\ after = Put(pen, c)
  /\ d = [c EXCEPT !.x = after.left, !.y = after.y, !.advance = Advance(c)]

\* A character as Place leaves it.
LEMMA PlacedCharacter ==
  ASSUME Ruled, NEW c, NEW d, NEW pen, NEW after, PutAs(c, d, pen, after)
  PROVE  PlacedAs(c, d, pen, after)
<1>0. /\ c \in Character /\ PenTypes(pen) /\ PenTypes(after)
      /\ after = Put(pen, c)
      /\ d = [c EXCEPT !.x = after.left, !.y = after.y, !.advance = Advance(c)]
  BY DEF PutAs
<1>1. c.cw \in Int /\ c.cw + state.pitch \in Int
  BY <1>0 DEF Character, Ruled
<1>2. /\ d.id = c.id /\ d.kind = c.kind /\ d.advance = c.cw + state.pitch
      /\ d.x = after.left /\ d.y = after.y
  BY <1>0 DEF Character, Advance
<1>3. d \in Character
  BY <1>0, <1>1 DEF Character, Advance, PenTypes
<1>4. Behind(d, pen.x, pen.y) /\ after.x = d.x + d.advance
  <2>1. CASE pen.x + (c.cw + state.pitch) > box
    BY <1>0, <1>1, <1>2, <2>1 DEF Put, Advance, Behind, PenTypes, Ruled
  <2>2. CASE ~(pen.x + (c.cw + state.pitch) > box)
    BY <1>0, <1>1, <1>2, <2>2 DEF Put, Advance, Behind, PenTypes, Ruled
  <2> QED BY <2>1, <2>2
<1> QED BY <1>2, <1>3, <1>4 DEF PlacedAs

\* Place puts each character behind the one before it.
LEMMA PlaceFacts ==
  ASSUME Ruled, NEW B \in Seq(Character), NEW x \in Int, NEW y \in Nat
  PROVE  PlaceGives(Place(B, x, y), B, x, y)
<1> DEFINE pen == Pens(B, x, y)
           n == Len(B)
           P == [i \in DOMAIN B |->
                   [B[i] EXCEPT !.x = pen[i].left, !.y = pen[i].y,
                                !.advance = Advance(B[i])]]
           r == Place(B, x, y)
<1>0. n \in Nat /\ DOMAIN B = 1 .. n /\ \A i \in 1 .. n : B[i] \in Character
  OBVIOUS
<1>1. r.x = pen[n].x /\ r.y = pen[n].y /\ r.placed = P
  BY DEF Place
<1>2. /\ pen[0] = [left |-> x, x |-> x, y |-> y]
      /\ \A i \in 1 .. n : pen[i] = Put(pen[i - 1], B[i])
  BY <1>0, PensUnfold
<1>3. \A i \in 0 .. n : PenTypes(pen[i])
  BY PensTypes
<1> HIDE DEF pen, r
<1>4. ASSUME NEW i \in 1 .. n
      PROVE  /\ P[i] \in Character
             /\ P[i].id = B[i].id /\ P[i].kind = B[i].kind
             /\ P[i].advance = B[i].cw + state.pitch
             /\ Behind(P[i], pen[i - 1].x, pen[i - 1].y)
             /\ pen[i].x = P[i].x + P[i].advance /\ pen[i].y = P[i].y
  <2>1. i \in 0 .. n /\ i - 1 \in 0 .. n
    BY <1>0
  <2>2. PenTypes(pen[i]) /\ PenTypes(pen[i - 1]) /\ pen[i] = Put(pen[i - 1], B[i])
    BY <1>2, <1>3, <2>1
  <2>3. P[i] = [B[i] EXCEPT !.x = pen[i].left, !.y = pen[i].y,
                            !.advance = Advance(B[i])]
    BY <1>0
  <2>4. B[i] \in Character
    BY <1>0
  <2>5. PutAs(B[i], P[i], pen[i - 1], pen[i])
    BY <2>2, <2>3, <2>4 DEF PutAs
  <2>6. PlacedAs(B[i], P[i], pen[i - 1], pen[i])
    <3> HIDE DEF P, n
    <3> QED BY <2>5, PlacedCharacter
  <2> HIDE DEF P, n
  <2> QED BY <2>6 DEF PlacedAs
<1>5. P \in Seq(Character) /\ Len(P) = n /\ DOMAIN P = 1 .. n
  <2>1. P \in [1 .. n -> Character]
    <3>1. \A i \in 1 .. n : P[i] \in Character
      BY <1>4
    <3> HIDE DEF n
    <3> QED BY <1>0, <3>1
  <2> HIDE DEF P, n
  <2> QED BY <1>0, <2>1
<1> HIDE DEF P, n
<1>6. Same(P, B)
  BY <1>4, <1>5 DEF Same, n
<1>7. Chain(P, x, y)
  <2> SUFFICES ASSUME NEW i \in 1 .. n
               PROVE  IF i = 1 THEN Behind(P[i], x, y)
                      ELSE Behind(P[i], P[i - 1].x + P[i - 1].advance, P[i - 1].y)
    BY <1>5 DEF Chain
  <2>1. CASE i = 1
    <3>1. Behind(P[i], pen[0].x, pen[0].y) /\ pen[0].x = x /\ pen[0].y = y
      BY <1>2, <1>4, <2>1
    <3> QED BY <2>1, <3>1
  <2>2. CASE i # 1
    <3>1. i - 1 \in 1 .. n
      BY <1>0, <2>2
    <3>2. /\ Behind(P[i], pen[i - 1].x, pen[i - 1].y)
          /\ pen[i - 1].x = P[i - 1].x + P[i - 1].advance /\ pen[i - 1].y = P[i - 1].y
      BY <1>4, <3>1
    <3> QED BY <2>2, <3>2
  <2> QED BY <2>1, <2>2
<1>8. PenBehind(P, pen[n].x, pen[n].y, x, y)
  <2>1. CASE n = 0
    BY <1>2, <1>5, <2>1 DEF PenBehind
  <2>2. CASE n # 0
    <3>1. n \in 1 .. n
      BY <1>0, <2>2
    <3> QED BY <1>4, <1>5, <2>2, <3>1 DEF PenBehind
  <2> QED BY <2>1, <2>2
<1>9. pen[n].x \in Int /\ pen[n].y \in Nat
  BY <1>0, <1>3 DEF PenTypes
<1>10. PlaceGives(r, B, x, y)
  BY <1>1, <1>6, <1>7, <1>8, <1>9 DEF PlaceGives
<1> QED BY <1>10 DEF r

\* No character of a run stands above the one before it.
LEMMA ChainDown ==
  ASSUME Ruled, NEW P \in Seq(Character), NEW x \in Int, NEW y \in Nat, Chain(P, x, y)
  PROVE  /\ \A i \in 1 .. Len(P) : P[i].y >= y
         /\ \A i, j \in 1 .. Len(P) : i <= j => P[i].y <= P[j].y
<1>0. /\ Len(P) \in Nat
      /\ \A i \in 1 .. Len(P) : P[i].x \in Int /\ P[i].y \in Nat /\ P[i].advance \in Int
  <2>1. Len(P) \in Nat /\ \A i \in 1 .. Len(P) : P[i] \in Character
    OBVIOUS
  <2> QED BY <2>1 DEF Character
<1>1. \A i \in 1 .. Len(P) : i = 1 => P[i].y >= y
  BY <1>0 DEF Chain, Behind, Ruled
<1>2. ASSUME NEW i \in 1 .. Len(P) - 1 PROVE P[i].y <= P[i + 1].y
  <2>1. i \in 1 .. Len(P) /\ i + 1 \in 1 .. Len(P) /\ i + 1 # 1 /\ (i + 1) - 1 = i
    BY <1>0
  <2>2. Behind(P[i + 1], P[i].x + P[i].advance, P[i].y)
    BY <2>1 DEF Chain
  <2> QED BY <1>0, <2>1, <2>2 DEF Behind, Ruled
<1>3. \A i \in 1 .. Len(P) : P[i].y >= y
  <2> DEFINE S == {i \in 1 .. Len(P) : P[i].y >= y}
  <2>1. Len(P) > 0 => 1 \in S
    BY <1>0, <1>1
  <2>2. ASSUME NEW i \in 1 .. Len(P) - 1, i \in S PROVE i + 1 \in S
    <3>1. i \in 1 .. Len(P) /\ i + 1 \in 1 .. Len(P)
      BY <1>0
    <3> QED BY <1>0, <1>2, <2>2, <3>1
  <2> HIDE DEF S
  <2>3. \A i \in 1 .. Len(P) : i \in S
    BY <1>0, <2>1, <2>2, Upwards
  <2> QED BY <2>3 DEF S
<1>4. ASSUME NEW i \in 1 .. Len(P) PROVE \A j \in 1 .. Len(P) : i <= j => P[i].y <= P[j].y
  <2> DEFINE S == {j \in 1 .. Len(P) : i <= j => P[i].y <= P[j].y}
  <2>1. Len(P) > 0 => 1 \in S
    BY <1>0
  <2>2. ASSUME NEW j \in 1 .. Len(P) - 1, j \in S PROVE j + 1 \in S
    <3>1. j \in 1 .. Len(P) /\ j + 1 \in 1 .. Len(P)
      BY <1>0
    <3>2. CASE i = j + 1
      BY <1>0, <3>1, <3>2
    <3>3. CASE i # j + 1
      BY <1>0, <1>2, <2>2, <3>1, <3>3
    <3> QED BY <3>2, <3>3
  <2> HIDE DEF S
  <2>3. \A j \in 1 .. Len(P) : j \in S
    BY <1>0, <2>1, <2>2, Upwards
  <2> QED BY <2>3 DEF S
<1> QED BY <1>3, <1>4

-----------------------------------------------------------------------------
(* The width of a group.                                                   *)

\* Characters have numbers.
LEMMA Numbers ==
  ASSUME NEW P \in Seq(Character)
  PROVE  /\ Len(P) \in Nat /\ DOMAIN P = 1 .. Len(P)
         /\ \A i \in 1 .. Len(P) : /\ P[i].x \in Int /\ P[i].y \in Nat
                                   /\ P[i].advance \in Int /\ P[i].id \in Int
<1>1. /\ Len(P) \in Nat /\ DOMAIN P = 1 .. Len(P)
      /\ \A i \in 1 .. Len(P) : P[i] \in Character
  OBVIOUS
<1>2. MaxPushed \in Nat
  BY SizesAssumption
<1>3. \A c \in Character : c.x \in Int /\ c.y \in Nat /\ c.advance \in Int /\ c.id \in Int
  BY <1>2 DEF Character
<1> QED BY <1>1, <1>3

Forward(P) == \A i \in 1 .. Len(P) : P[i].advance >= 0

\* If no character goes back, no group is narrower than its first character.
LEMMA WidthsNatural ==
  ASSUME NEW P \in Seq(Character), Forward(P), NEW breaks
  PROVE  \A i \in 1 .. Len(P) : /\ Widths(P, breaks)[i] \in Int
                                /\ Widths(P, breaks)[i] >= P[i].advance
                                /\ Widths(P, breaks)[i] >= 0
<1> DEFINE w == Widths(P, breaks)
           S == {i \in 1 .. Len(P) : w[i] \in Int /\ w[i] >= P[i].advance /\ w[i] >= 0}
<1>0. /\ Len(P) \in Nat /\ DOMAIN P = 1 .. Len(P)
      /\ \A i \in 1 .. Len(P) : P[i].advance \in Int /\ P[i].advance >= 0
  BY Numbers DEF Forward
<1>1. \A i \in 1 .. Len(P) :
         w[i] = P[i].advance + IF Ends(P, breaks, i) THEN 0 ELSE w[i + 1]
  BY <1>0, WidthsUnfold
<1> HIDE DEF w
<1>2. Len(P) > 0 => Len(P) \in S
  <2>1. Ends(P, breaks, Len(P))
    BY DEF Ends
  <2> QED BY <1>0, <1>1, <2>1
<1>3. ASSUME NEW i \in 1 .. Len(P) - 1, i + 1 \in S PROVE i \in S
  <2>1. i \in 1 .. Len(P) /\ w[i + 1] \in Int /\ w[i + 1] >= 0
    BY <1>0, <1>3
  <2>2. w[i] = P[i].advance \/ w[i] = P[i].advance + w[i + 1]
    <3>1. P[i].advance + 0 = P[i].advance
      BY <1>0, <2>1
    <3> QED BY <1>1, <2>1, <3>1
  <2> QED BY <1>0, <2>1, <2>2
<1>4. \A i \in 1 .. Len(P) : i \in S
  <2> HIDE DEF S
  <2> QED BY <1>0, <1>2, <1>3, Downwards
<1> QED BY <1>4 DEF w

\* s is the part of t behind the first d, and groups end at the same places.
Part(s, breaks, t, more, d) ==
  \A i \in 1 .. Len(s) :
     /\ d + i \in 1 .. Len(t) /\ t[d + i].advance = s[i].advance
     /\ Ends(t, more, d + i) <=> Ends(s, breaks, i)

\* A width only depends on the characters of the group.
LEMMA WidthsAgree ==
  ASSUME NEW s \in Seq(Character), NEW t \in Seq(Character), NEW breaks, NEW more,
         NEW d \in Nat, Part(s, breaks, t, more, d)
  PROVE  \A i \in 1 .. Len(s) : Widths(t, more)[d + i] = Widths(s, breaks)[i]
<1> DEFINE v == Widths(s, breaks)
           w == Widths(t, more)
           S == {i \in 1 .. Len(s) : w[d + i] = v[i]}
<1>0. /\ Len(s) \in Nat /\ DOMAIN s = 1 .. Len(s)
      /\ Len(t) \in Nat /\ DOMAIN t = 1 .. Len(t)
  BY Numbers
<1>1. \A i \in 1 .. Len(s) :
         v[i] = s[i].advance + IF Ends(s, breaks, i) THEN 0 ELSE v[i + 1]
  BY <1>0, WidthsUnfold
<1>2. \A i \in 1 .. Len(t) :
         w[i] = t[i].advance + IF Ends(t, more, i) THEN 0 ELSE w[i + 1]
  BY <1>0, WidthsUnfold
<1> HIDE DEF v, w
<1>3. \A i \in 1 .. Len(s) :
         w[d + i] = s[i].advance + IF Ends(s, breaks, i) THEN 0 ELSE w[(d + i) + 1]
  BY <1>2 DEF Part
<1>4. Len(s) > 0 => Len(s) \in S
  <2>1. Ends(s, breaks, Len(s))
    BY DEF Ends
  <2> QED BY <1>0, <1>1, <1>3, <2>1
<1>5. ASSUME NEW i \in 1 .. Len(s) - 1, i + 1 \in S PROVE i \in S
  <2>1. i \in 1 .. Len(s) /\ (d + i) + 1 = d + (i + 1)
    BY <1>0
  <2>2. w[(d + i) + 1] = v[i + 1]
    BY <1>5, <2>1
  <2> QED BY <1>1, <1>3, <2>1, <2>2
<1>6. \A i \in 1 .. Len(s) : i \in S
  <2> HIDE DEF S
  <2> QED BY <1>0, <1>4, <1>5, Downwards
<1> QED BY <1>6 DEF v, w

\* A run that did not stay on the line of the pen is wider than what is left of it.
LEMMA GroupTooWide ==
  ASSUME Ruled, NEW P \in Seq(Character), NEW Q \in Seq(Character), NEW breaks,
         NEW x \in Int, NEW y \in Nat,
         Len(P) > 0, Len(Q) = Len(P),
         \A i \in 1 .. Len(P) : Q[i].advance = P[i].advance,
         Forward(P),
         \A i \in 1 .. Len(P) - 1 : ~Ends(P, breaks, i),
         Chain(Q, x, y), Q[Len(Q)].y # y
  PROVE  x + Widths(P, breaks)[1] > box
<1> DEFINE w == Widths(P, breaks)
           n == Len(P)
<1>0. /\ n \in Nat /\ n > 0 /\ DOMAIN P = 1 .. n
      /\ \A i \in 1 .. n : /\ Q[i].x \in Int /\ Q[i].y \in Nat
                           /\ P[i].advance \in Int /\ P[i].advance >= 0
  BY Numbers DEF Forward
<1>1. \A i \in 1 .. n :
         w[i] = P[i].advance + IF Ends(P, breaks, i) THEN 0 ELSE w[i + 1]
  BY <1>0, WidthsUnfold
<1>2. \A i \in 1 .. n : w[i] \in Int /\ w[i] >= P[i].advance
  BY WidthsNatural
<1>3. /\ \A i \in 1 .. n : Q[i].advance = P[i].advance
      /\ \A i \in 1 .. n - 1 : ~Ends(P, breaks, i)
      /\ Q[n].y # y /\ Len(Q) = n
  OBVIOUS
<1>4. box \in Int
  BY DEF Ruled
<1> SUFFICES ASSUME x + w[1] <= box PROVE FALSE
  <2>1. 1 \in 1 .. n
    BY <1>0
  <2>2. x + w[1] \in Int
    BY <1>2, <2>1
  <2> QED BY <1>4, <2>2
<1> HIDE DEF w, n
<1> DEFINE S == {i \in 1 .. n : Q[i].y = y /\ Q[i].x + w[i] = x + w[1]}
<1>5. 1 \in S
  <2>1. 1 \in 1 .. n
    BY <1>0
  <2>2. Behind(Q[1], x, y)
    BY <1>3, <2>1 DEF Chain
  <2>3. x + Q[1].advance <= box
    <3>1. /\ Q[1].advance = P[1].advance /\ P[1].advance \in Int
          /\ w[1] \in Int /\ w[1] >= P[1].advance
      BY <1>0, <1>2, <1>3, <2>1
    <3> QED BY <1>4, <3>1
  <2>4. Q[1].x = x /\ Q[1].y = y
    BY <1>0, <1>3, <1>4, <2>1, <2>2, <2>3 DEF Behind
  <2> QED BY <2>1, <2>4
<1>6. ASSUME NEW i \in 1 .. n - 1, i \in S PROVE i + 1 \in S
  <2>1. /\ i \in 1 .. n /\ i + 1 \in 1 .. n /\ i + 1 # 1 /\ (i + 1) - 1 = i
        /\ Q[i].y = y /\ Q[i].x + w[i] = x + w[1]
    BY <1>0, <1>6
  <2>2. w[i] = P[i].advance + w[i + 1]
    BY <1>1, <1>3, <2>1
  <2>0. /\ Q[i].x \in Int /\ Q[i].advance = P[i].advance /\ P[i].advance \in Int
        /\ Q[i + 1].advance = P[i + 1].advance /\ P[i + 1].advance \in Int
        /\ w[i] \in Int /\ w[i + 1] \in Int /\ w[1] \in Int
        /\ w[i + 1] >= P[i + 1].advance
    <3>1. 1 \in 1 .. n
      BY <1>0
    <3> QED BY <1>0, <1>2, <1>3, <2>1, <3>1
  <2> DEFINE a == Q[i].x
             p == Q[i].advance
             q == Q[i + 1].advance
             v == w[i + 1]
             r == w[1]
  <2>a. a \in Int /\ p \in Int /\ q \in Int /\ v \in Int /\ r \in Int /\ v >= q
    BY <2>0
  <2>b. a + (p + v) = x + r
    BY <2>0, <2>1, <2>2
  <2>c. x + r <= box
    OBVIOUS
  <2> HIDE DEF a, p, q, v, r
  <2>3. (a + p) + v = x + r
    BY <2>a, <2>b
  <2>4. (a + p) + q <= box
    BY <1>4, <2>a, <2>b, <2>c
  <2>7. \A c : Behind(c, a + p, y) /\ c.advance = q => c.x = a + p /\ c.y = y
    BY <1>4, <2>a, <2>4 DEF Behind
  <2> USE DEF a, p, q, v, r
  <2>5. Behind(Q[i + 1], Q[i].x + Q[i].advance, Q[i].y)
    BY <1>3, <2>1 DEF Chain
  <2>6. Q[i + 1].x = Q[i].x + Q[i].advance /\ Q[i + 1].y = Q[i].y
    BY <2>1, <2>5, <2>7
  <2> QED BY <2>0, <2>1, <2>3, <2>6
<1>7. \A i \in 1 .. n : i \in S
  <2> HIDE DEF S
  <2> QED BY <1>0, <1>5, <1>6, Upwards
<1> QED BY <1>0, <1>3, <1>7

-----------------------------------------------------------------------------
(* What flush does with the group.                                         *)

PageTypes ==
  page \in [x : Int, y : Nat, characters : Seq(Character),
            buffer : Seq(Character), text : Seq(Int)]

\* The group stays on the line of the pen.
StaysHere(f, P) ==
  /\ Chain(P, page.x, page.y)
  /\ PenBehind(P, f.x, f.y, page.x, page.y)
  /\ \A i \in 1 .. Len(P) : P[i].y = page.y
  /\ f.y = page.y

\* The group starts a line because Q, the same group, did not fit on this one.
GoesOn(f, P, Q) ==
  /\ Len(P) > 0
  /\ Chain(P, indent, page.y + LineHeight)
  /\ PenBehind(P, f.x, f.y, indent, page.y + LineHeight)
  /\ Same(Q, page.buffer) /\ Chain(Q, page.x, page.y) /\ Q[Len(Q)].y # page.y

FlushGives(f, P, Q) ==
  /\ Same(P, page.buffer)
  /\ f.x \in Int /\ f.y \in Nat
  /\ f.characters = page.characters \o P
  /\ f.buffer = <<>>
  /\ f.text = page.text \o Ids(page.buffer)
  /\ StaysHere(f, P) \/ GoesOn(f, P, Q)

\* flush places the group on this line or on the next.
LEMMA FlushFacts ==
  ASSUME Ruled, PageTypes
  PROVE  \E P, Q : FlushGives(Flush(page), P, Q)
<1> DEFINE B == page.buffer
           here == Place(B, page.x, page.y)
           there == Place(B, indent, page.y + LineHeight)
           f == Flush(page)
<1>0. /\ page.x \in Int /\ page.y \in Nat /\ B \in Seq(Character) /\ Len(B) \in Nat
      /\ indent \in Int /\ page.y + LineHeight \in Nat
  <2>1. B \in Seq(Character) /\ page.x \in Int /\ page.y \in Nat
    BY DEF PageTypes
  <2> QED BY <2>1 DEF Ruled
<1>1. PlaceGives(here, B, page.x, page.y)
  BY <1>0, PlaceFacts
<1>2. PlaceGives(there, B, indent, page.y + LineHeight)
  BY <1>0, PlaceFacts
<1>3. Linebreak(page).x = indent /\ Linebreak(page).y = page.y + LineHeight
  <2>1. Linebreak(page) = [page EXCEPT !.x = indent, !.y = page.y + LineHeight]
    BY DEF Linebreak
  <2> QED BY <2>1 DEF PageTypes
<1>4. f = [x |-> (IF here.y = page.y THEN here ELSE there).x,
           y |-> (IF here.y = page.y THEN here ELSE there).y,
           characters |-> page.characters
                            \o (IF here.y = page.y THEN here ELSE there).placed,
           buffer |-> <<>>,
           text |-> page.text \o Ids(B)]
  BY <1>3, Zenon DEF Flush, Ids
<1> HIDE DEF here, there, f
<1>5. CASE here.y = page.y
  <2> DEFINE P == here.placed
  <2>1. /\ f.x = here.x /\ f.y = here.y /\ f.characters = page.characters \o P
        /\ f.buffer = <<>> /\ f.text = page.text \o Ids(B)
    BY <1>4, <1>5
  <2>2. /\ Same(P, B) /\ Chain(P, page.x, page.y)
        /\ PenBehind(P, here.x, here.y, page.x, page.y)
        /\ here.x \in Int /\ here.y \in Nat
    BY <1>1 DEF PlaceGives
  <2> HIDE DEF P
  <2>3. P \in Seq(Character)
    BY <2>2 DEF Same
  <2>4. /\ \A i \in 1 .. Len(P) : P[i].y >= page.y
        /\ \A i, j \in 1 .. Len(P) : i <= j => P[i].y <= P[j].y
    BY <1>0, <2>2, <2>3, ChainDown
  <2>5. ASSUME NEW i \in 1 .. Len(P) PROVE P[i].y = page.y
    <3>1. Len(P) \in 1 .. Len(P) /\ i <= Len(P) /\ Len(P) # 0
      BY <2>3, Numbers
    <3>2. P[Len(P)].y = page.y
      BY <1>5, <2>2, <3>1 DEF PenBehind
    <3>3. P[i].y <= P[Len(P)].y /\ P[i].y >= page.y
      BY <2>4, <3>1
    <3>4. P[i].y \in Nat
      BY <2>3, Numbers
    <3> QED BY <1>0, <3>2, <3>3, <3>4
  <2>6. StaysHere(f, P)
    BY <1>5, <2>1, <2>2, <2>5 DEF StaysHere
  <2>7. FlushGives(f, P, P)
    BY <2>1, <2>2, <2>6 DEF FlushGives
  <2> QED BY <2>7 DEF f
<1>6. CASE here.y # page.y
  <2> DEFINE P == there.placed
             Q == here.placed
  <2>1. /\ f.x = there.x /\ f.y = there.y /\ f.characters = page.characters \o P
        /\ f.buffer = <<>> /\ f.text = page.text \o Ids(B)
    BY <1>4, <1>6
  <2>2. /\ Same(P, B) /\ Chain(P, indent, page.y + LineHeight)
        /\ PenBehind(P, there.x, there.y, indent, page.y + LineHeight)
        /\ there.x \in Int /\ there.y \in Nat
    BY <1>2 DEF PlaceGives
  <2>3. /\ Same(Q, B) /\ Chain(Q, page.x, page.y)
        /\ PenBehind(Q, here.x, here.y, page.x, page.y)
    BY <1>1 DEF PlaceGives
  <2> HIDE DEF P, Q
  <2>4. Len(P) = Len(B) /\ Len(Q) = Len(B)
    BY <2>2, <2>3 DEF Same
  <2>5. Len(Q) # 0 /\ Q[Len(Q)].y # page.y
    BY <1>6, <2>3 DEF PenBehind
  <2>6. GoesOn(f, P, Q)
    BY <1>0, <2>1, <2>2, <2>3, <2>4, <2>5 DEF GoesOn
  <2>7. FlushGives(f, P, Q)
    BY <2>1, <2>2, <2>6 DEF FlushGives
  <2> QED BY <2>7 DEF f
<1> QED BY <1>5, <1>6

-----------------------------------------------------------------------------
(* The lines, when a group is added to them.                               *)

\* InsideBox, LeadingKept and LinesAreFilled of any characters and breaks.
Inside(s) ==
  \A i \in 1 .. Len(s) :
     IF i > 1 /\ s[i - 1].y = s[i].y
     THEN /\ s[i].x = s[i - 1].x + s[i - 1].advance
          /\ s[i].x + s[i].advance <= box
     ELSE s[i].x + s[i].advance <= box \/ i = Len(s) \/ s[i].y # s[i + 1].y

Kept(s, breaks) ==
  \A i \in 1 .. Len(s) - 1 :
     s[i].kind = Leading /\ s[i].y # s[i + 1].y /\ s[i].id \notin breaks
       => \A j \in 1 .. i : s[j].y = s[i].y => s[j].kind = Leading

Filled(s, breaks) ==
  \A i \in 1 .. Len(s) - 1 :
     s[i].y # s[i + 1].y /\ s[i].id \notin breaks
       => s[i].x + s[i].advance + Widths(s, breaks)[i + 1] > box

\* The last character ends a group.
Complete(s, breaks) ==
  Len(s) > 0 => s[Len(s)].kind # Leading \/ s[Len(s)].id \in breaks

\* The pen stands behind the last character, or the text broke the line there.
PenAfter(s, x, y, breaks) ==
  Len(s) > 0 => \/ x = s[Len(s)].x + s[Len(s)].advance /\ y = s[Len(s)].y
                \/ s[Len(s)].id \in breaks /\ y > s[Len(s)].y

\* No character stands below the pen.
Above(s, y) == \A i \in 1 .. Len(s) : s[i].y <= y

\* P is put behind s with the pen at x, y: on its line or on the next.
Added(s, x, y, breaks, P) ==
  /\ s \in Seq(Character) /\ P \in Seq(Character) /\ x \in Int /\ y \in Nat
  /\ Complete(s, breaks) /\ PenAfter(s, x, y, breaks) /\ Above(s, y)
  /\ \/ Chain(P, x, y) /\ \A i \in 1 .. Len(P) : P[i].y = y
     \/ Chain(P, indent, y + LineHeight)

Joined(t, s, P) ==
  /\ t \in Seq(Character) /\ Len(t) = Len(s) + Len(P)
  /\ \A i \in 1 .. Len(s) : t[i] = s[i]
  /\ \A i \in 1 .. Len(P) : t[Len(s) + i] = P[i]
  /\ \A i \in 1 .. Len(t) : i <= Len(s) => i \in 1 .. Len(s)
  /\ \A i \in 1 .. Len(t) : i > Len(s) => i - Len(s) \in 1 .. Len(P) /\ t[i] = P[i - Len(s)]

\* The characters of two sequences one after the other.
LEMMA JoinedFacts ==
  ASSUME NEW s \in Seq(Character), NEW P \in Seq(Character)
  PROVE  Joined(s \o P, s, P)
<1> DEFINE t == s \o P
<1>1. Len(s) \in Nat /\ Len(P) \in Nat
  OBVIOUS
<1>2. t \in Seq(Character) /\ Len(t) = Len(s) + Len(P)
  OBVIOUS
<1>3. \A i \in 1 .. Len(s) : t[i] = s[i]
  OBVIOUS
<1>4. \A i \in 1 .. Len(P) : t[Len(s) + i] = P[i]
  OBVIOUS
<1> HIDE DEF t
<1>5. ASSUME NEW i \in 1 .. Len(t), i > Len(s)
      PROVE  i - Len(s) \in 1 .. Len(P) /\ t[i] = P[i - Len(s)]
  <2>1. i - Len(s) \in 1 .. Len(P) /\ Len(s) + (i - Len(s)) = i
    BY <1>1, <1>2, <1>5
  <2> QED BY <1>4, <2>1
<1>6. Joined(t, s, P)
  BY <1>1, <1>2, <1>3, <1>4, <1>5 DEF Joined
<1> QED BY <1>6 DEF t

\* What is put stands at or below the pen, and below its line unless it stays there.
LEMMA AddedBelow ==
  ASSUME Ruled, NEW s, NEW x, NEW y, NEW breaks, NEW P, Added(s, x, y, breaks, P)
  PROVE  \/ /\ Chain(P, x, y)
            /\ \A i \in 1 .. Len(P) : P[i].y = y
         \/ /\ Chain(P, indent, y + LineHeight)
            /\ \A i \in 1 .. Len(P) : P[i].y > y
<1>1. P \in Seq(Character) /\ y \in Nat
  BY DEF Added
<1>2. CASE Chain(P, indent, y + LineHeight)
  <2>1. indent \in Int /\ y + LineHeight \in Nat /\ y + LineHeight > y
    BY <1>1 DEF Ruled
  <2>2. \A i \in 1 .. Len(P) : P[i].y >= y + LineHeight
    BY <1>1, <1>2, <2>1, ChainDown
  <2>3. \A i \in 1 .. Len(P) : P[i].y \in Nat
    BY <1>1, Numbers
  <2> QED BY <1>1, <1>2, <2>1, <2>2, <2>3
<1> QED BY <1>2 DEF Added

\* A character that is put on the line of the last one stands right behind it
\* and inside the box.
LEMMA Seam ==
  ASSUME Ruled, NEW s, NEW x, NEW y, NEW breaks, NEW P, Added(s, x, y, breaks, P),
         Len(s) > 0, Len(P) > 0, s[Len(s)].y = P[1].y
  PROVE  /\ P[1].x = s[Len(s)].x + s[Len(s)].advance
         /\ P[1].x + P[1].advance <= box
<1>1. /\ s \in Seq(Character) /\ P \in Seq(Character) /\ x \in Int /\ y \in Nat
      /\ PenAfter(s, x, y, breaks) /\ Above(s, y)
  BY DEF Added
<1>2. /\ Len(s) \in 1 .. Len(s) /\ 1 \in 1 .. Len(P)
      /\ s[Len(s)].y \in Nat /\ P[1].y \in Nat /\ P[1].advance \in Int
  BY <1>1, Numbers
<1>3. s[Len(s)].y <= y
  BY <1>1, <1>2 DEF Above
<1>4. Chain(P, x, y) /\ P[1].y = y
  BY <1>1, <1>2, <1>3, AddedBelow
<1>5. x = s[Len(s)].x + s[Len(s)].advance
  BY <1>1, <1>2, <1>4 DEF PenAfter
<1>6. Behind(P[1], x, y)
  BY <1>2, <1>4 DEF Chain
<1>7. P[1].x = x /\ x + P[1].advance <= box
  BY <1>1, <1>4, <1>6 DEF Behind, Ruled
<1> QED BY <1>5, <1>7

\* Inside a run each character was put behind the one before it.
LEMMA AddedStep ==
  ASSUME NEW s, NEW x, NEW y, NEW breaks, NEW P, Added(s, x, y, breaks, P),
         NEW k \in 1 .. Len(P) - 1
  PROVE  Behind(P[k + 1], P[k].x + P[k].advance, P[k].y)
<1>1. Len(P) \in Nat
  BY DEF Added
<1>2. k + 1 \in 1 .. Len(P) /\ k + 1 # 1 /\ (k + 1) - 1 = k
  BY <1>1
<1> QED BY <1>2 DEF Added, Chain

\* A character that is too wide for the line it begins stays alone there.
LEMMA AloneTooWide ==
  ASSUME Ruled, NEW c, NEW d, c.x \in Int, c.advance \in Int, c.y \in Nat,
         d.x \in Int, d.advance \in Int, d.y \in Nat, d.advance >= 0,
         Behind(d, c.x + c.advance, c.y)
  PROVE  c.x + c.advance <= box \/ c.y # d.y
<1>1. \A a, b, l \in Int : b >= 0 /\ a + b <= l => a <= l
  OBVIOUS
<1>2. c.x + c.advance \in Int /\ box \in Int
  BY DEF Ruled
<1>3. CASE (c.x + c.advance) + d.advance <= box
  BY <1>1, <1>2, <1>3
<1>4. CASE ~((c.x + c.advance) + d.advance <= box)
  <2>1. d.y = c.y + LineHeight
    BY <1>2, <1>4 DEF Behind
  <2> QED BY <2>1 DEF Ruled
<1> QED BY <1>3, <1>4

\* The lines stay inside the box.
LEMMA JoinInside ==
  ASSUME Ruled, NEW s, NEW x, NEW y, NEW breaks, NEW P, Added(s, x, y, breaks, P),
         NEW t, Joined(t, s, P), Inside(s), Forward(P)
  PROVE  Inside(t)
<1> DEFINE m == Len(s)
           n == Len(P)
<1>0. /\ s \in Seq(Character) /\ P \in Seq(Character) /\ x \in Int /\ y \in Nat
      /\ PenAfter(s, x, y, breaks) /\ Above(s, y)
  BY DEF Added
<1>1. /\ m \in Nat /\ n \in Nat /\ Len(t) = m + n
      /\ \A i \in 1 .. m : t[i] = s[i]
      /\ \A i \in 1 .. n : t[m + i] = P[i]
      /\ \A i \in 1 .. m : s[i].x \in Int /\ s[i].y \in Nat /\ s[i].advance \in Int
      /\ \A i \in 1 .. n : /\ P[i].x \in Int /\ P[i].y \in Nat
                           /\ P[i].advance \in Int /\ P[i].advance >= 0
  BY <1>0, Numbers DEF Joined, Forward
<1> SUFFICES ASSUME NEW i \in 1 .. Len(t)
             PROVE  IF i > 1 /\ t[i - 1].y = t[i].y
                    THEN /\ t[i].x = t[i - 1].x + t[i - 1].advance
                         /\ t[i].x + t[i].advance <= box
                    ELSE \/ t[i].x + t[i].advance <= box
                         \/ i = Len(t) \/ t[i].y # t[i + 1].y
  BY DEF Inside
<1>2. ASSUME n > 0, m > 0
      PROVE  s[m].x + s[m].advance <= box \/ s[m].y # P[1].y
  <2> SUFFICES ASSUME s[m].y = P[1].y PROVE s[m].x + s[m].advance <= box
    OBVIOUS
  <2>1. P[1].x = s[m].x + s[m].advance /\ P[1].x + P[1].advance <= box
    BY <1>2, Seam
  <2>2. m \in 1 .. m /\ 1 \in 1 .. n
    BY <1>1, <1>2
  <2>3. P[1].x \in Int /\ P[1].advance \in Int /\ P[1].advance >= 0 /\ box \in Int
    BY <1>1, <2>2 DEF Ruled
  <2> HIDE DEF m, n
  <2>4. P[1].x <= box
    BY <2>1, <2>3
  <2> QED BY <2>1, <2>4
<1>3. ASSUME NEW k \in 1 .. n - 1
      PROVE  /\ P[k].x + P[k].advance <= box \/ P[k].y # P[k + 1].y
             /\ P[k].y = P[k + 1].y => /\ P[k + 1].x = P[k].x + P[k].advance
                                       /\ P[k + 1].x + P[k + 1].advance <= box
  <2>1. Behind(P[k + 1], P[k].x + P[k].advance, P[k].y)
    BY AddedStep
  <2>2. k \in 1 .. n /\ k + 1 \in 1 .. n
    BY <1>1
  <2>3. /\ P[k].x \in Int /\ P[k].y \in Nat /\ P[k].advance \in Int
        /\ P[k + 1].x \in Int /\ P[k + 1].y \in Nat /\ P[k + 1].advance \in Int
        /\ P[k + 1].advance >= 0
    BY <1>1, <2>2
  <2>4. P[k].x + P[k].advance <= box \/ P[k].y # P[k + 1].y
    BY <2>1, <2>3, AloneTooWide
  <2>5. ASSUME P[k].y = P[k + 1].y
        PROVE  /\ P[k + 1].x = P[k].x + P[k].advance
               /\ P[k + 1].x + P[k + 1].advance <= box
    <3>1. P[k + 1].y # P[k].y + LineHeight
      BY <2>3, <2>5 DEF Ruled
    <3> QED BY <2>1, <3>1 DEF Behind
  <2> QED BY <2>4, <2>5
<1>4. CASE i < m
  <2>1. i \in 1 .. m /\ i + 1 \in 1 .. m /\ (i > 1 => i - 1 \in 1 .. m)
    BY <1>1, <1>4
  <2>2. t[i] = s[i] /\ t[i + 1] = s[i + 1] /\ (i > 1 => t[i - 1] = s[i - 1])
    BY <1>1, <2>1
  <2> QED BY <1>4, <2>1, <2>2 DEF Inside
<1>5. CASE i = m
  <2>1. i \in 1 .. m /\ (i > 1 => i - 1 \in 1 .. m) /\ m > 0
    BY <1>1, <1>5
  <2>2. t[i] = s[i] /\ (i > 1 => t[i - 1] = s[i - 1])
    BY <1>1, <2>1
  <2>3. CASE i > 1 /\ s[i - 1].y = s[i].y
    BY <2>1, <2>2, <2>3 DEF Inside
  <2>4. CASE ~(i > 1 /\ s[i - 1].y = s[i].y)
    <3>1. CASE n = 0
      BY <1>1, <1>5, <2>2, <2>4, <3>1
    <3>2. CASE n # 0
      <4>1. 1 \in 1 .. n /\ t[i + 1] = P[1]
        BY <1>1, <1>5, <3>2
      <4>2. s[m].x + s[m].advance <= box \/ s[m].y # P[1].y
        BY <1>1, <1>2, <2>1, <3>2
      <4> QED BY <1>5, <2>2, <2>4, <4>1, <4>2
    <3> QED BY <3>1, <3>2
  <2> QED BY <2>3, <2>4
<1>6. CASE i > m
  <2> DEFINE k == i - m
  <2>1. k \in 1 .. n /\ t[i] = P[k] /\ m + k = i
    BY <1>1, <1>6
  <2>2. \/ t[i].x + t[i].advance <= box
        \/ i = Len(t) \/ t[i].y # t[i + 1].y
    <3>1. CASE k = n
      BY <1>1, <2>1, <3>1
    <3>2. CASE k # n
      <4>1. k \in 1 .. n - 1 /\ k + 1 \in 1 .. n /\ m + (k + 1) = i + 1
        BY <1>1, <2>1, <3>2
      <4>2. t[i + 1] = P[k + 1]
        BY <1>1, <4>1
      <4> QED BY <1>3, <2>1, <4>1, <4>2
    <3> QED BY <3>1, <3>2
  <2>3. ASSUME i > 1, t[i - 1].y = t[i].y
        PROVE  /\ t[i].x = t[i - 1].x + t[i - 1].advance
               /\ t[i].x + t[i].advance <= box
    <3>1. CASE k = 1
      <4>1. m \in 1 .. m /\ i - 1 = m /\ n > 0 /\ m > 0
        BY <1>1, <2>1, <2>3, <3>1
      <4>2. t[i - 1] = s[m] /\ t[i] = P[1]
        BY <1>1, <2>1, <3>1, <4>1
      <4> QED BY <2>3, <4>1, <4>2, Seam
    <3>2. CASE k # 1
      <4>1. k - 1 \in 1 .. n - 1 /\ k - 1 \in 1 .. n /\ m + (k - 1) = i - 1 /\ (k - 1) + 1 = k
        BY <1>1, <2>1, <3>2
      <4>2. t[i - 1] = P[k - 1]
        BY <1>1, <4>1
      <4>3. P[k - 1].y = P[(k - 1) + 1].y
        BY <2>1, <2>3, <4>1, <4>2
      <4>4. /\ P[(k - 1) + 1].x = P[k - 1].x + P[k - 1].advance
            /\ P[(k - 1) + 1].x + P[(k - 1) + 1].advance <= box
        BY <1>3, <4>1, <4>3
      <4> QED BY <2>1, <4>1, <4>2, <4>4
    <3> QED BY <3>1, <3>2
  <2> QED BY <2>2, <2>3
<1> QED BY <1>1, <1>4, <1>5, <1>6

\* A line that ends with a leading character has only such.
LEMMA JoinKept ==
  ASSUME Ruled, NEW s, NEW x, NEW y, NEW breaks, NEW P, Added(s, x, y, breaks, P),
         NEW t, Joined(t, s, P), Kept(s, breaks),
         \A i \in 1 .. Len(P) - 1 : P[i].kind = Leading
  PROVE  Kept(t, breaks)
<1> DEFINE m == Len(s)
           n == Len(P)
<1>0. /\ s \in Seq(Character) /\ P \in Seq(Character) /\ x \in Int /\ y \in Nat
      /\ Complete(s, breaks) /\ Above(s, y)
  BY DEF Added
<1>1. /\ m \in Nat /\ n \in Nat /\ Len(t) = m + n
      /\ \A i \in 1 .. m : t[i] = s[i]
      /\ \A i \in 1 .. n : t[m + i] = P[i]
      /\ \A i \in 1 .. m : s[i].y \in Nat
      /\ \A i \in 1 .. n : P[i].y \in Nat
  BY <1>0, Numbers DEF Joined
<1> SUFFICES ASSUME NEW i \in 1 .. Len(t) - 1,
                    t[i].kind = Leading, t[i].y # t[i + 1].y, t[i].id \notin breaks,
                    NEW j \in 1 .. i, t[j].y = t[i].y
             PROVE  t[j].kind = Leading
  BY DEF Kept
<1>2. CASE i < m
  <2>1. i \in 1 .. m - 1 /\ i \in 1 .. m /\ i + 1 \in 1 .. m /\ j \in 1 .. m
    BY <1>1, <1>2
  <2>2. t[i] = s[i] /\ t[i + 1] = s[i + 1] /\ t[j] = s[j]
    BY <1>1, <2>1
  <2> QED BY <2>1, <2>2 DEF Kept
<1>3. CASE i = m
  <2>1. i \in 1 .. m /\ t[i] = s[m] /\ m > 0
    BY <1>1, <1>3
  <2> QED BY <1>0, <2>1 DEF Complete
<1>4. CASE i > m
  <2> DEFINE k == i - m
  <2>1. /\ k \in 1 .. n - 1 /\ k \in 1 .. n /\ k + 1 \in 1 .. n
        /\ m + k = i /\ m + (k + 1) = i + 1
    BY <1>1, <1>4
  <2>2. t[i] = P[k] /\ t[i + 1] = P[k + 1]
    BY <1>1, <2>1
  <2>3. \A l \in 1 .. n : P[l].y > y
    BY <2>1, <2>2, AddedBelow
  <2>4. j > m
    <3> SUFFICES ASSUME ~(j > m) PROVE FALSE
      OBVIOUS
    <3>1. j \in 1 .. m
      BY <1>1
    <3>2. t[j] = s[j] /\ s[j].y <= y /\ s[j].y \in Nat
      BY <1>0, <1>1, <3>1 DEF Above
    <3>3. P[k].y > y
      BY <2>1, <2>3
    <3>4. P[k].y \in Nat
      BY <1>1, <2>1
    <3> QED BY <1>0, <2>2, <3>2, <3>3, <3>4
  <2>5. j - m \in 1 .. n - 1 /\ j - m \in 1 .. n /\ m + (j - m) = j
    BY <1>1, <2>4
  <2>6. t[j] = P[j - m]
    BY <1>1, <2>5
  <2> QED BY <2>5, <2>6
<1> QED BY <1>1, <1>2, <1>3, <1>4

\* The lines are still filled: what begins a line would not have fitted before.
LEMMA JoinFilled ==
  ASSUME Ruled, NEW s, NEW x, NEW y, NEW breaks, NEW P, Added(s, x, y, breaks, P),
         NEW t, Joined(t, s, P), Filled(s, breaks), Forward(P),
         \A i \in 1 .. Len(P) - 1 : ~Ends(P, breaks, i),
         Len(P) > 0 /\ P[1].y # y => x + Widths(P, breaks)[1] > box
  PROVE  Filled(t, breaks)
<1> DEFINE m == Len(s)
           n == Len(P)
           w == Widths(t, breaks)
<1>0. /\ s \in Seq(Character) /\ P \in Seq(Character) /\ t \in Seq(Character)
      /\ x \in Int /\ y \in Nat
      /\ Complete(s, breaks) /\ PenAfter(s, x, y, breaks) /\ Above(s, y)
  BY DEF Added, Joined
<1>1. /\ m \in Nat /\ n \in Nat /\ Len(t) = m + n
      /\ \A i \in 1 .. m : t[i] = s[i]
      /\ \A i \in 1 .. n : t[m + i] = P[i]
      /\ \A i \in 1 .. m : s[i].x \in Int /\ s[i].y \in Nat /\ s[i].advance \in Int
      /\ \A i \in 1 .. n : P[i].x \in Int /\ P[i].y \in Nat /\ P[i].advance \in Int
  BY <1>0, Numbers DEF Joined
<1>2. \A i \in 1 .. m : w[0 + i] = Widths(s, breaks)[i]
  <2>1. ASSUME NEW i \in 1 .. m
        PROVE  /\ 0 + i \in 1 .. Len(t) /\ t[0 + i].advance = s[i].advance
               /\ Ends(t, breaks, 0 + i) <=> Ends(s, breaks, i)
    <3>1. 0 + i = i /\ i \in 1 .. Len(t) /\ t[i] = s[i]
      BY <1>1
    <3>2. CASE i = m
      <4>1. Ends(s, breaks, i)
        BY <3>2 DEF Ends
      <4>2. s[i].kind # Leading \/ s[i].id \in breaks
        BY <1>0, <1>1, <3>2 DEF Complete
      <4> QED BY <3>1, <4>1, <4>2 DEF Ends
    <3>3. CASE i # m
      <4>1. i # Len(t)
        BY <1>1, <3>3
      <4> QED BY <3>1, <3>3, <4>1 DEF Ends
    <3> QED BY <3>2, <3>3
  <2>2. Part(s, breaks, t, breaks, 0)
    BY <2>1 DEF Part
  <2> QED BY <1>0, <2>2, WidthsAgree
<1>3. \A i \in 1 .. n : w[m + i] = Widths(P, breaks)[i]
  <2>1. ASSUME NEW i \in 1 .. n
        PROVE  /\ m + i \in 1 .. Len(t) /\ t[m + i].advance = P[i].advance
               /\ Ends(t, breaks, m + i) <=> Ends(P, breaks, i)
    <3>1. m + i \in 1 .. Len(t) /\ (m + i = Len(t) <=> i = n)
      <4> HIDE DEF m, n
      <4> QED BY <1>1
    <3>2. t[m + i] = P[i]
      BY <1>1
    <3> QED BY <3>1, <3>2 DEF Ends
  <2>2. Part(P, breaks, t, breaks, m)
    BY <2>1 DEF Part
  <2> QED BY <1>0, <1>1, <2>2, WidthsAgree
<1>4. \A i \in 1 .. n : /\ Widths(P, breaks)[i] \in Int
                        /\ Widths(P, breaks)[i] >= P[i].advance
  BY <1>0, WidthsNatural
<1> HIDE DEF w
<1> SUFFICES ASSUME NEW i \in 1 .. Len(t) - 1,
                    t[i].y # t[i + 1].y, t[i].id \notin breaks
             PROVE  t[i].x + t[i].advance + w[i + 1] > box
  BY DEF Filled, w
<1>5. CASE i < m
  <2>1. i \in 1 .. m - 1 /\ i \in 1 .. m /\ i + 1 \in 1 .. m /\ 0 + (i + 1) = i + 1
    BY <1>1, <1>5
  <2>2. t[i] = s[i] /\ t[i + 1] = s[i + 1]
    BY <1>1, <2>1
  <2>3. w[i + 1] = Widths(s, breaks)[i + 1]
    BY <1>2, <2>1
  <2> QED BY <2>1, <2>2, <2>3 DEF Filled
<1>6. CASE i = m
  <2>1. m \in 1 .. m /\ m > 0 /\ n > 0 /\ 1 \in 1 .. n
    BY <1>1, <1>6
  <2>2. t[i] = s[m] /\ t[i + 1] = P[1] /\ w[i + 1] = Widths(P, breaks)[1]
    BY <1>1, <1>3, <1>6, <2>1
  <2>3. x = s[m].x + s[m].advance /\ y = s[m].y
    BY <1>0, <2>1, <2>2 DEF PenAfter
  <2>4. x + Widths(P, breaks)[1] > box
    BY <2>1, <2>2, <2>3
  <2> QED BY <2>2, <2>3, <2>4
<1>7. CASE i > m
  <2> DEFINE k == i - m
  <2>1. /\ k \in 1 .. n - 1 /\ k \in 1 .. n /\ k + 1 \in 1 .. n
        /\ m + k = i /\ m + (k + 1) = i + 1
    BY <1>1, <1>7
  <2>2. t[i] = P[k] /\ t[i + 1] = P[k + 1] /\ w[i + 1] = Widths(P, breaks)[k + 1]
    BY <1>1, <1>3, <2>1
  <2>3. Behind(P[k + 1], P[k].x + P[k].advance, P[k].y)
    BY <2>1, AddedStep
  <2>4. (P[k].x + P[k].advance) + P[k + 1].advance > box
    BY <2>2, <2>3 DEF Behind
  <2> DEFINE a == P[k].x + P[k].advance
             b == P[k + 1].advance
             c == Widths(P, breaks)[k + 1]
  <2>5. a \in Int /\ b \in Int /\ c \in Int /\ c >= b /\ a + b > box /\ box \in Int
    <3>1. P[k].x \in Int /\ P[k].advance \in Int /\ b \in Int
      BY <1>1, <2>1
    <3>2. a \in Int
      BY <3>1
    <3>3. c \in Int /\ c >= b
      BY <1>4, <2>1
    <3>4. box \in Int
      BY DEF Ruled
    <3> QED BY <2>4, <3>1, <3>2, <3>3, <3>4
  <2> HIDE DEF a, b, c
  <2>6. a + c > box
    BY <2>5
  <2> QED BY <2>2, <2>6 DEF a, c
<1> QED BY <1>1, <1>5, <1>6, <1>7

\* The pen is behind the characters again, and none stands below it.
LEMMA JoinPen ==
  ASSUME Ruled, NEW s, NEW x, NEW y, NEW breaks, NEW P, Added(s, x, y, breaks, P),
         NEW t, Joined(t, s, P), NEW fx \in Int, NEW fy \in Nat,
         \/ /\ Chain(P, x, y) /\ PenBehind(P, fx, fy, x, y)
         \/ /\ Chain(P, indent, y + LineHeight) /\ Len(P) > 0
            /\ PenBehind(P, fx, fy, indent, y + LineHeight)
  PROVE  PenAfter(t, fx, fy, breaks) /\ Above(t, fy)
<1> DEFINE m == Len(s)
           n == Len(P)
<1>0. /\ s \in Seq(Character) /\ P \in Seq(Character) /\ t \in Seq(Character)
      /\ x \in Int /\ y \in Nat
      /\ PenAfter(s, x, y, breaks) /\ Above(s, y)
  BY DEF Added, Joined
<1>1. /\ m \in Nat /\ n \in Nat /\ Len(t) = m + n
      /\ \A i \in 1 .. m : t[i] = s[i]
      /\ \A i \in 1 .. n : t[m + i] = P[i]
      /\ \A i \in 1 .. m : s[i].x \in Int /\ s[i].y \in Nat /\ s[i].advance \in Int
      /\ \A i \in 1 .. n : P[i].x \in Int /\ P[i].y \in Nat /\ P[i].advance \in Int
  BY <1>0, Numbers DEF Joined
<1>2. CASE n = 0
  <2>1. fx = x /\ fy = y
    BY <1>2 DEF PenBehind
  <2>2. Len(t) = m /\ \A i \in 1 .. m : t[i] = s[i]
    BY <1>1, <1>2
  <2>3. m > 0 => m \in 1 .. m
    BY <1>1
  <2> QED BY <1>0, <2>1, <2>2, <2>3 DEF PenAfter, Above
<1>3. CASE n # 0
  <2>1. n \in 1 .. n /\ n > 0 /\ m + n > 0
    BY <1>1, <1>3
  <2>2. t[m + n] = P[n] /\ fx = P[n].x + P[n].advance /\ fy = P[n].y
    BY <1>1, <1>3, <2>1 DEF PenBehind
  <2>3. PenAfter(t, fx, fy, breaks)
    BY <1>1, <2>1, <2>2 DEF PenAfter
  <2>4. \A i \in 1 .. n : P[i].y >= y /\ P[i].y <= fy
    <3>1. CASE Chain(P, x, y)
      <4>1. /\ \A i \in 1 .. n : P[i].y >= y
            /\ \A i, j \in 1 .. n : i <= j => P[i].y <= P[j].y
        BY <1>0, <3>1, ChainDown
      <4> QED BY <1>1, <2>1, <2>2, <4>1
    <3>2. CASE Chain(P, indent, y + LineHeight)
      <4>0. indent \in Int /\ y + LineHeight \in Nat /\ y + LineHeight >= y
        BY <1>0 DEF Ruled
      <4>1. /\ \A i \in 1 .. n : P[i].y >= y + LineHeight
            /\ \A i, j \in 1 .. n : i <= j => P[i].y <= P[j].y
        BY <1>0, <3>2, <4>0, ChainDown
      <4>2. ASSUME NEW i \in 1 .. n PROVE P[i].y >= y /\ P[i].y <= fy
        <5>1. P[i].y <= P[n].y
          BY <1>1, <2>1, <4>1
        <5>2. P[i].y >= y + LineHeight /\ P[i].y \in Nat
          BY <1>1, <4>1
        <5> QED BY <1>0, <2>2, <4>0, <5>1, <5>2
      <4> QED BY <4>2
    <3> QED BY <3>1, <3>2
  <2>5. ASSUME NEW i \in 1 .. Len(t) PROVE t[i].y <= fy
    <3>1. CASE i <= m
      <4>1. i \in 1 .. m /\ t[i] = s[i]
        BY <1>1, <3>1
      <4>2. s[i].y <= y /\ s[i].y \in Nat
        BY <1>0, <1>1, <4>1 DEF Above
      <4>3. P[n].y >= y /\ P[n].y = fy
        BY <2>1, <2>2, <2>4
      <4> QED BY <1>0, <4>1, <4>2, <4>3
    <3>2. CASE i > m
      <4>1. i - m \in 1 .. n /\ t[i] = P[i - m]
        BY <1>0, <3>2 DEF Joined
      <4> QED BY <2>4, <4>1
    <3> QED BY <1>1, <3>1, <3>2
  <2> QED BY <2>3, <2>5 DEF Above
<1> QED BY <1>2, <1>3

-----------------------------------------------------------------------------
(* Types.                                                                  *)

Pages == [x : Int, y : Nat, characters : Seq(Character),
          buffer : Seq(Character), text : Seq(Int)]

TypeInv == TypeOK /\ page \in Pages

\* A line is higher than nothing, and the box and the indent are numbers.
LEMMA TypesRule ==
  ASSUME TypeInv
  PROVE  Ruled /\ PageTypes /\ pushed \in Nat /\ MaxPushed \in Nat /\ MaxCommands \in Nat
<1>1. box \in Int
  <2>1. box \in BoxWidths \cup {0} /\ BoxWidths \subseteq Int
    BY SizesAssumption DEF TypeInv, TypeOK
  <2> QED BY <2>1
<1>2. LineHeight \in Nat /\ LineHeight > 0
  <2>1. applied \in Nat /\ LineSpacing \in Nat /\ LineSpacing > 0
    BY SizesAssumption DEF TypeInv, TypeOK
  <2> QED BY <2>1 DEF LineHeight
<1>3. Ruled
  BY <1>1, <1>2 DEF TypeInv, TypeOK, Ruled
<1>4. PageTypes /\ pushed \in Nat /\ MaxPushed \in Nat /\ MaxCommands \in Nat
  BY SizesAssumption DEF PageTypes, Pages, TypeInv, TypeOK
<1> QED BY <1>3, <1>4

\* The identities of characters are numbers.
LEMMA IdsTypes ==
  ASSUME NEW B \in Seq(Character)
  PROVE  /\ Ids(B) \in Seq(Int) /\ Len(Ids(B)) = Len(B)
         /\ \A i \in 1 .. Len(B) : Ids(B)[i] = B[i].id
<1>1. Len(B) \in Nat /\ DOMAIN B = 1 .. Len(B) /\ \A i \in 1 .. Len(B) : B[i].id \in Int
  BY Numbers
<1>2. Ids(B) = [i \in 1 .. Len(B) |-> B[i].id]
  BY <1>1 DEF Ids
<1> QED BY <1>1, <1>2

\* What flush returns is a page, with its parts.
LEMMA FlushTypes ==
  ASSUME TypeInv
  PROVE  /\ Flush(page) \in Pages /\ Flush(page).buffer = <<>>
         /\ Linebreak(Flush(page)) \in Pages
         /\ Linebreak(Flush(page)) = [Flush(page) EXCEPT !.x = indent, !.y = @ + LineHeight]
<1> DEFINE f == Flush(page)
<1>1. Ruled /\ PageTypes
  BY TypesRule
<1>2. PICK P, Q : FlushGives(f, P, Q)
  BY <1>1, FlushFacts
<1>3. /\ P \in Seq(Character) /\ f.x \in Int /\ f.y \in Nat
      /\ f.characters = page.characters \o P /\ f.buffer = <<>>
      /\ f.text = page.text \o Ids(page.buffer)
  BY <1>2 DEF FlushGives, Same
<1>4. /\ page.characters \in Seq(Character) /\ page.buffer \in Seq(Character)
      /\ page.text \in Seq(Int)
  BY <1>1 DEF PageTypes
<1>5. f.characters \in Seq(Character)
  BY <1>3, <1>4
<1>6. f.text \in Seq(Int)
  BY <1>3, <1>4, IdsTypes
<1>7. f.buffer \in Seq(Character)
  BY <1>3
<1>8. f = [x |-> f.x, y |-> f.y, characters |-> f.characters,
           buffer |-> f.buffer, text |-> f.text]
  BY DEF Flush
<1> HIDE DEF f
<1>9. f \in Pages
  BY <1>3, <1>5, <1>6, <1>7, <1>8 DEF Pages
<1>10. Linebreak(f) = [f EXCEPT !.x = indent, !.y = @ + LineHeight]
  BY DEF Linebreak
<1>11. Linebreak(f) \in Pages
  <2>1. indent \in Int /\ f.y + LineHeight \in Nat
    BY <1>1, <1>3 DEF Ruled
  <2>2. Linebreak(f) = [f EXCEPT !.x = indent, !.y = f.y + LineHeight]
    BY DEF Linebreak
  <2> QED BY <1>9, <2>1, <2>2 DEF Pages
<1> QED BY <1>3, <1>9, <1>10, <1>11 DEF f

\* A page stays a page when a character begins or joins the group.
LEMMA AppendTypes ==
  ASSUME NEW p \in Pages, NEW c \in Character
  PROVE  [p EXCEPT !.buffer = Append(@, c)] \in Pages
<1>1. p.buffer \in Seq(Character)
  BY DEF Pages
<1>2. Append(p.buffer, c) \in Seq(Character)
  BY <1>1
<1> QED BY <1>2 DEF Pages

\* A page has the characters TypeOK speaks of.
LEMMA PageCharacters ==
  ASSUME NEW p \in Pages
  PROVE  /\ p.x \in Int /\ p.y \in Nat
         /\ \A part \in {p.characters, p.buffer} :
               \A i \in DOMAIN part : part[i] \in Character
<1>1. p.x \in Int /\ p.y \in Nat /\ p.characters \in Seq(Character) /\ p.buffer \in Seq(Character)
  BY DEF Pages
<1>2. \A s \in Seq(Character) : \A i \in DOMAIN s : s[i] \in Character
  OBVIOUS
<1> QED BY <1>1, <1>2

\* The group a character is pushed to.
Open == IF mode # Leading THEN Flush(page) ELSE page

Pushed(kind) == [id |-> pushed + 1, kind |-> kind, cw |-> applied,
                 x |-> 0, y |-> 0, advance |-> 0]

\* pushCharacter appends to the group that is open.
LEMMA PushAppends ==
  ASSUME TypeInv, NEW kind \in Kinds, PushCharacter(kind)
  PROVE  /\ page' = [Open EXCEPT !.buffer = Append(@, Pushed(kind))]
         /\ Pushed(kind) \in Character /\ Open \in Pages
<1>1. Leading # Following
  BY DEF Leading, Following
<1>2. page' = [Open EXCEPT !.buffer = Append(@, Pushed(kind))]
  BY <1>1 DEF PushCharacter, Open, Pushed
<1>3. Pushed(kind) \in Character
  <2>1. pushed + 1 \in 1 .. MaxPushed
    BY TypesRule DEF PushCharacter
  <2>2. applied \in Nat
    BY DEF TypeInv, TypeOK
  <2> QED BY <2>1, <2>2 DEF Pushed, Character
<1>4. Open \in Pages
  BY FlushTypes DEF Open, TypeInv
<1> QED BY <1>2, <1>3, <1>4

\* clear leaves a page with nothing but the group.
LEMMA ClearTypes ==
  ASSUME page \in Pages
  PROVE  /\ [NewPage EXCEPT !.buffer = page.buffer] \in Pages
         /\ [NewPage EXCEPT !.buffer = page.buffer]
              = [x |-> 0, y |-> 0, characters |-> <<>>,
                 buffer |-> page.buffer, text |-> <<>>]
<1>1. page.buffer \in Seq(Character)
  BY DEF Pages
<1>2. [NewPage EXCEPT !.buffer = page.buffer]
        = [x |-> 0, y |-> 0, characters |-> <<>>, buffer |-> page.buffer, text |-> <<>>]
  BY DEF NewPage
<1>3. <<>> \in Seq(Character) /\ <<>> \in Seq(Int)
  OBVIOUS
<1>4. [x |-> 0, y |-> 0, characters |-> <<>>, buffer |-> page.buffer, text |-> <<>>] \in Pages
  BY <1>1, <1>3 DEF Pages
<1> QED BY <1>2, <1>4

\* The initial state has the types.
LEMMA InitTypes == Init => TypeInv
<1> SUFFICES ASSUME Init PROVE TypeInv
  OBVIOUS
<1>1. page \in Pages
  BY DEF Init, NewPage, Pages
<1>2. TypeOK
  <2>1. default \in Defaults \cup {BuiltIn} /\ state.pitch \in Int
    BY SizesAssumption DEF Init
  <2>2. applied \in Nat
    BY SizesAssumption DEF Init
  <2>3. pushed \in 0 .. MaxPushed /\ commands \in 0 .. MaxCommands
    BY SizesAssumption DEF Init
  <2>4. /\ page.x \in Int /\ page.y \in Nat
        /\ \A part \in {page.characters, page.buffer} :
              \A i \in DOMAIN part : part[i] \in Character
    BY <1>1, PageCharacters
  <2>5. rendering \in BOOLEAN /\ mode \in Kinds
    BY DEF Init, Kinds
  <2>6. box \in BoxWidths \cup {0} /\ indent \in Int /\ cut \subseteq 0 .. MaxPushed
        /\ cleared \in [upTo : 0..MaxPushed, kept : Nat]
    BY SizesAssumption DEF Init
  <2> QED BY <2>1, <2>2, <2>3, <2>4, <2>5, <2>6 DEF TypeOK
<1> QED BY <1>1, <1>2 DEF TypeInv

\* A step keeps the types if what it changes has them.
LEMMA TypesFrom ==
  ASSUME (page \in Pages)',
         (/\ box \in BoxWidths \cup {0}
          /\ default \in Defaults \cup {BuiltIn}
          /\ state.pitch \in Int
          /\ applied \in Nat
          /\ indent \in Int
          /\ mode \in Kinds
          /\ rendering \in BOOLEAN
          /\ pushed \in 0..MaxPushed
          /\ cleared \in [upTo : 0..MaxPushed, kept : Nat]
          /\ cut \subseteq 0..MaxPushed
          /\ commands \in 0..MaxCommands)'
  PROVE  TypeInv'
<1>1. (/\ page.x \in Int /\ page.y \in Nat
       /\ \A part \in {page.characters, page.buffer} :
             \A i \in DOMAIN part : part[i] \in Character)'
  BY PageCharacters
<1> QED BY <1>1 DEF TypeInv, TypeOK

\* The characters of the script's fonts have sizes.
LEMMA SizesAreNumbers ==
  ASSUME NEW d \in Defaults \cup {BuiltIn}
  PROVE  /\ Extent(d.size) \in Nat /\ d.pitch \in Int
         /\ \A percent \in Percents : Extent(Scaled(d.size, percent)) \in Nat
  BY SizesAssumption

\* Every step keeps the types.
LEMMA NextTypes == TypeInv /\ [Next]_vars => TypeInv'
<1> SUFFICES ASSUME TypeInv, [Next]_vars PROVE TypeInv'
  OBVIOUS
<1>0. /\ page \in Pages
      /\ box \in BoxWidths \cup {0}
      /\ default \in Defaults \cup {BuiltIn}
      /\ state.pitch \in Int
      /\ applied \in Nat
      /\ indent \in Int
      /\ mode \in Kinds
      /\ rendering \in BOOLEAN
      /\ pushed \in 0..MaxPushed
      /\ cleared \in [upTo : 0..MaxPushed, kept : Nat]
      /\ cut \subseteq 0..MaxPushed
      /\ commands \in 0..MaxCommands
  BY DEF TypeInv, TypeOK
<1>c. ASSUME Command PROVE commands' \in 0..MaxCommands
  <2>1. commands \in Nat /\ MaxCommands \in Nat
    BY <1>0, TypesRule
  <2> QED BY <1>c, <2>1 DEF Command
<1>d. Extent(default.size) \in Nat /\ default.pitch \in Int
      /\ \A percent \in Percents : Extent(Scaled(default.size, percent)) \in Nat
  BY <1>0, SizesAreNumbers
<1>e. ASSUME Cut PROVE cut' \subseteq 0..MaxPushed
  BY <1>0, <1>e DEF Cut
<1>1. CASE Render \/ RenderEnd
  BY <1>0, <1>1, TypesFrom DEF Render, RenderEnd
<1>2. ASSUME NEW kind \in Kinds, PushCharacter(kind) PROVE TypeInv'
  <2>1. page' \in Pages
    <3>1. /\ page' = [Open EXCEPT !.buffer = Append(@, Pushed(kind))]
          /\ Pushed(kind) \in Character /\ Open \in Pages
      BY <1>2, PushAppends
    <3> HIDE DEF Pushed, Open
    <3>2. [Open EXCEPT !.buffer = Append(@, Pushed(kind))] \in Pages
      BY <3>1, AppendTypes
    <3> QED BY <3>1, <3>2
  <2>2. pushed' \in 0..MaxPushed
    BY <1>0, <1>2, TypesRule DEF PushCharacter
  <2> QED BY <1>0, <1>2, <2>1, <2>2, TypesFrom DEF PushCharacter
<1>3. CASE Newline
  <2>1. page' \in Pages
    BY <1>3, FlushTypes DEF Newline
  <2> QED BY <1>0, <1>3, <1>c, <1>e, <2>1, TypesFrom DEF Newline
<1>4. CASE SetIndent
  <2>1. indent' \in Int
    BY <1>0, <1>4 DEF SetIndent, Pages
  <2> QED BY <1>0, <1>4, <1>c, <2>1, TypesFrom DEF SetIndent
<1>5. ASSUME NEW pitch \in Pitches, SetPitch(pitch) PROVE TypeInv'
  <2>1. state'.pitch \in Int
    BY <1>5, SizesAssumption DEF SetPitch
  <2> QED BY <1>0, <1>5, <1>c, <2>1, TypesFrom DEF SetPitch
<1>6. ASSUME NEW percent \in Percents, SetSize(percent) PROVE TypeInv'
  BY <1>0, <1>6, <1>c, <1>d, TypesFrom DEF SetSize
<1>7. CASE ResetFont
  <2>1. page' \in Pages
    <3>1. page' = [page EXCEPT !.text = <<>>] /\ <<>> \in Seq(Int)
      BY <1>7 DEF ResetFont
    <3> QED BY <1>0, <3>1 DEF Pages
  <2>2. state'.pitch \in Int
    BY <1>7, <1>d DEF ResetFont
  <2> QED BY <1>0, <1>7, <1>c, <2>1, <2>2, TypesFrom DEF ResetFont
<1>8. CASE Done
  <2>1. page' \in Pages
    BY <1>8, FlushTypes DEF Done
  <2> QED BY <1>0, <1>8, <1>c, <1>e, <2>1, TypesFrom DEF Done
<1>9. ASSUME NEW width \in BoxWidths \cup {0}, ClearWith(width) PROVE TypeInv'
  <2>1. page' \in Pages
    BY <1>9, ClearTypes DEF TypeInv, ClearWith
  <2>2. state'.pitch \in Int /\ applied' \in Nat
    BY <1>9, <1>d DEF ClearWith
  <2>3. /\ box' \in BoxWidths \cup {0} /\ indent' \in Int
        /\ cut' \subseteq 0 .. MaxPushed
    BY <1>9 DEF ClearWith
  <2>6. cleared' \in [upTo : 0..MaxPushed, kept : Nat]
    <3>1. Len(page.buffer) \in Nat
      BY <1>0 DEF Pages
    <3> QED BY <1>0, <1>9, <3>1 DEF ClearWith
  <2>5. rendering' \in BOOLEAN
    BY <1>0, <1>9 DEF ClearWith
  <2>4. /\ default' \in Defaults \cup {BuiltIn} /\ mode' \in Kinds
        /\ pushed' \in 0 .. MaxPushed /\ commands' \in 0 .. MaxCommands
    BY <1>0, <1>9, <1>c DEF ClearWith
  <2> QED BY <2>1, <2>2, <2>3, <2>4, <2>5, <2>6, TypesFrom
<1>10. ASSUME NEW d \in Defaults, SetDefault(d) PROVE TypeInv'
  BY <1>0, <1>10, <1>c, TypesFrom DEF SetDefault
<1>11. ASSUME NEW size \in OtherSizes, OtherFont(size) PROVE TypeInv'
  <2>1. applied' \in Nat
    BY <1>11, SizesAssumption DEF OtherFont
  <2> QED BY <1>0, <1>11, <1>c, <2>1, TypesFrom DEF OtherFont
<1>12. CASE UNCHANGED vars
  BY <1>0, <1>12, TypesFrom DEF vars
<1> QED
  BY <1>0, <1>1, <1>2, <1>3, <1>4, <1>5, <1>6, <1>7, <1>8, <1>9, <1>10, <1>11, <1>12
     DEF Next, Clear, SetRenderSize

\* The variables of TextRenderBase have the types the code gives them, for every
\* text, every size of a font, be it zero, and every sequence of calls.
THEOREM LayoutTypes == Spec => []TypeOK
<1>1. Spec => []TypeInv
  BY InitTypes, NextTypes, PTL DEF Spec
<1>2. TypeInv => TypeOK
  BY DEF TypeInv
<1> QED BY <1>1, <1>2, PTL

-----------------------------------------------------------------------------
(* The order of the characters.                                            *)

\* Of the first n characters pushed, those placed and those that wait are the
\* last, in the order they were pushed in.
Numbered(p, n) ==
  /\ \A i \in 1 .. Len(p.characters) :
        p.characters[i].id = (n - Len(p.buffer) - Len(p.characters)) + i
  /\ \A i \in 1 .. Len(p.buffer) : p.buffer[i].id = (n - Len(p.buffer)) + i

\* renderText tells the last of the characters that were placed.
Told(p) ==
  /\ Len(p.text) <= Len(p.characters)
  /\ \A i \in 1 .. Len(p.text) :
        p.text[i] = p.characters[(Len(p.characters) - Len(p.text)) + i].id

\* The group that waits is leading characters and at most one other.
Waits(p, last) ==
  /\ \A i \in 1 .. Len(p.buffer) - 1 : p.buffer[i].kind = Leading
  /\ Len(p.buffer) > 0 => p.buffer[Len(p.buffer)].kind = last

\* Nothing that was pushed since the last clear, or kept by it, is missing.
Total(p) == Len(p.characters) + Len(p.buffer)

Whole == Total(page) = cleared.kept + pushed - cleared.upTo

OrderInv ==
  /\ TypeInv /\ Whole
  /\ Numbered(page, pushed) /\ Told(page) /\ Waits(page, mode)

\* The parts of a page are sequences.
LEMMA PageLengths ==
  ASSUME NEW p \in Pages
  PROVE  /\ Len(p.characters) \in Nat /\ DOMAIN p.characters = 1 .. Len(p.characters)
         /\ Len(p.buffer) \in Nat /\ DOMAIN p.buffer = 1 .. Len(p.buffer)
         /\ Len(p.text) \in Nat /\ DOMAIN p.text = 1 .. Len(p.text)
         /\ p.characters \in Seq(Character) /\ p.buffer \in Seq(Character)
         /\ p.text \in Seq(Int)
<1>1. /\ p.characters \in Seq(Character) /\ p.buffer \in Seq(Character)
      /\ p.text \in Seq(Int)
  BY DEF Pages
<1>2. Len(p.text) \in Nat /\ DOMAIN p.text = 1 .. Len(p.text)
  BY <1>1
<1> QED BY <1>1, <1>2, Numbers

Concatenated(u, s, t) ==
  /\ u \in Seq(Int) /\ Len(u) = Len(s) + Len(t) /\ DOMAIN u = 1 .. Len(s) + Len(t)
  /\ \A i \in 1 .. Len(s) : u[i] = s[i]
  /\ \A i \in 1 .. Len(t) : u[Len(s) + i] = t[i]

\* Two sequences of numbers one after the other.
LEMMA ConcatenatedFacts ==
  ASSUME NEW s \in Seq(Int), NEW t \in Seq(Int)
  PROVE  Concatenated(s \o t, s, t)
<1>1. s \o t \in Seq(Int) /\ Len(s \o t) = Len(s) + Len(t)
  OBVIOUS
<1>2. DOMAIN (s \o t) = 1 .. Len(s) + Len(t)
  BY <1>1
<1>3. \A i \in 1 .. Len(s) : (s \o t)[i] = s[i]
  OBVIOUS
<1>4. \A i \in 1 .. Len(t) : (s \o t)[Len(s) + i] = t[i]
  OBVIOUS
<1> QED BY <1>1, <1>2, <1>3, <1>4 DEF Concatenated

\* flush moves the group behind the characters, and tells it.
LEMMA FlushOrder ==
  ASSUME TypeInv, Numbered(page, pushed), Told(page)
  PROVE  Numbered(Flush(page), pushed) /\ Told(Flush(page))
<1> DEFINE f == Flush(page)
           s == page.characters
           B == page.buffer
           e == page.text
           m == Len(s)
           b == Len(B)
           k == Len(e)
<1>1. Ruled /\ PageTypes /\ pushed \in Nat
  BY TypesRule
<1>2. PICK P, Q : FlushGives(f, P, Q)
  BY <1>1, FlushFacts
<1>3. f.characters = s \o P /\ f.buffer = <<>> /\ f.text = e \o Ids(B) /\ Same(P, B)
  BY <1>2 DEF FlushGives
<1>4. /\ s \in Seq(Character) /\ B \in Seq(Character) /\ e \in Seq(Int)
      /\ m \in Nat /\ b \in Nat /\ k \in Nat
  BY PageLengths DEF TypeInv
<1>5. P \in Seq(Character) /\ Len(P) = b /\ \A i \in 1 .. b : P[i].id = B[i].id
  BY <1>3 DEF Same
<1>6. Joined(f.characters, s, P)
  BY <1>3, <1>4, <1>5, JoinedFacts
<1>7. /\ Ids(B) \in Seq(Int) /\ Len(Ids(B)) = b
      /\ \A i \in 1 .. b : Ids(B)[i] = B[i].id
  BY <1>4, IdsTypes
<1>8. /\ Len(f.characters) = m + b
      /\ \A i \in 1 .. m : f.characters[i] = s[i]
      /\ \A i \in 1 .. b : f.characters[m + i] = P[i]
  BY <1>5, <1>6 DEF Joined
<1>9. /\ Len(f.text) = k + b
      /\ \A i \in 1 .. k : f.text[i] = e[i]
      /\ \A i \in 1 .. b : f.text[k + i] = Ids(B)[i]
  <2>1. Concatenated(f.text, e, Ids(B))
    BY <1>3, <1>4, <1>7, ConcatenatedFacts
  <2> QED BY <1>7, <2>1 DEF Concatenated
<1>10. /\ \A i \in 1 .. m : s[i].id = (pushed - b - m) + i
       /\ \A i \in 1 .. b : B[i].id = (pushed - b) + i
       /\ k <= m
       /\ \A i \in 1 .. k : e[i] = s[(m - k) + i].id
  BY DEF Numbered, Told
<1>11. Len(f.buffer) = 0
  BY <1>3
<1> HIDE DEF f, s, B, e, m, b, k
<1>12. Numbered(f, pushed)
  <2>1. ASSUME NEW i \in 1 .. m + b PROVE f.characters[i].id = (pushed - 0 - (m + b)) + i
    <3>1. CASE i <= m
      <4>1. i \in 1 .. m /\ f.characters[i] = s[i]
        BY <1>4, <1>8, <3>1
      <4>2. (pushed - b - m) + i = (pushed - 0 - (m + b)) + i
        BY <1>1, <1>4, <4>1
      <4> QED BY <1>10, <4>1, <4>2
    <3>2. CASE i > m
      <4>1. i - m \in 1 .. b /\ m + (i - m) = i
        BY <1>4, <3>2
      <4>2. f.characters[i] = P[i - m] /\ P[i - m].id = (pushed - b) + (i - m)
        BY <1>5, <1>8, <1>10, <4>1
      <4>3. (pushed - b) + (i - m) = (pushed - 0 - (m + b)) + i
        BY <1>1, <1>4, <4>1
      <4> QED BY <4>2, <4>3
    <3> QED BY <1>4, <3>1, <3>2
  <2> QED BY <1>8, <1>11, <2>1 DEF Numbered
<1>13. Told(f)
  <2>1. k + b <= m + b /\ (m + b) - (k + b) = m - k
    BY <1>4, <1>10
  <2>2. ASSUME NEW i \in 1 .. k + b PROVE f.text[i] = f.characters[(m - k) + i].id
    <3>1. CASE i <= k
      <4>1. i \in 1 .. k /\ (m - k) + i \in 1 .. m
        BY <1>4, <1>10, <3>1
      <4> QED BY <1>8, <1>9, <1>10, <4>1
    <3>2. CASE i > k
      <4>1. i - k \in 1 .. b /\ k + (i - k) = i /\ (m - k) + i = m + (i - k)
        BY <1>4, <1>10, <3>2
      <4>2. f.text[i] = B[i - k].id
        BY <1>7, <1>9, <4>1
      <4>3. f.characters[(m - k) + i] = P[i - k]
        BY <1>8, <4>1
      <4> QED BY <1>5, <4>1, <4>2, <4>3
    <3> QED BY <1>4, <3>1, <3>2
  <2> QED BY <1>8, <1>9, <2>1, <2>2 DEF Told
<1> QED BY <1>12, <1>13 DEF f

\* flush neither loses a character nor doubles one.
LEMMA FlushLength ==
  ASSUME TypeInv
  PROVE  Len(Flush(page).characters) = Len(page.characters) + Len(page.buffer)
<1>1. Ruled /\ PageTypes
  BY TypesRule
<1>2. PICK P, Q : FlushGives(Flush(page), P, Q)
  BY <1>1, FlushFacts
<1>3. Flush(page).characters = page.characters \o P /\ Same(P, page.buffer)
  BY <1>2 DEF FlushGives
<1>4. page.characters \in Seq(Character) /\ P \in Seq(Character) /\ Len(P) = Len(page.buffer)
  BY <1>3, PageLengths DEF TypeInv, Same
<1> DEFINE f == Flush(page)
           s == page.characters
<1> HIDE DEF f, s
<1>5. Joined(f.characters, s, P)
  BY <1>3, <1>4, JoinedFacts DEF f, s
<1>6. Len(f.characters) = Len(s) + Len(P)
  BY <1>5 DEF Joined
<1> QED BY <1>4, <1>6 DEF f, s

\* A character that is appended to the group has the next number.
LEMMA AppendOrder ==
  ASSUME NEW p \in Pages, NEW n \in Nat, Numbered(p, n), Told(p),
         NEW c, c.id = n + 1, NEW q, q = [p EXCEPT !.buffer = Append(@, c)]
  PROVE  Numbered(q, n + 1) /\ Told(q)
<1> DEFINE m == Len(p.characters)
           b == Len(p.buffer)
<1>1. m \in Nat /\ b \in Nat /\ p.buffer \in Seq(Character)
  BY PageLengths
<1>2. q.characters = p.characters /\ q.text = p.text /\ q.buffer = Append(p.buffer, c)
  BY DEF Pages
<1>3. /\ Len(q.buffer) = b + 1 /\ q.buffer[b + 1] = c
      /\ \A i \in 1 .. b : q.buffer[i] = p.buffer[i]
  BY <1>1, <1>2
<1>4. /\ \A i \in 1 .. m : p.characters[i].id = (n - b - m) + i
      /\ \A i \in 1 .. b : p.buffer[i].id = (n - b) + i
  BY DEF Numbered
<1> HIDE DEF m, b
<1>5. \A i \in 1 .. m : q.characters[i].id = ((n + 1) - (b + 1) - m) + i
  <2>1. (n + 1) - (b + 1) - m = n - b - m
    BY <1>1
  <2> QED BY <1>2, <1>4, <2>1
<1>6. ASSUME NEW i \in 1 .. b + 1 PROVE q.buffer[i].id = ((n + 1) - (b + 1)) + i
  <2>1. (n + 1) - (b + 1) = n - b
    BY <1>1
  <2>2. CASE i = b + 1
    <3>1. (n - b) + (b + 1) = n + 1
      BY <1>1
    <3> QED BY <1>3, <2>1, <2>2, <3>1
  <2>3. CASE i # b + 1
    <3>1. i \in 1 .. b
      BY <1>1, <2>3
    <3> QED BY <1>3, <1>4, <2>1, <3>1
  <2> QED BY <2>2, <2>3
<1>7. Numbered(q, n + 1)
  <2>1. Len(q.characters) = m
    BY <1>2 DEF m
  <2> QED BY <1>3, <1>5, <1>6, <2>1 DEF Numbered
<1>8. Told(q)
  BY <1>2 DEF Told
<1> QED BY <1>7, <1>8

\* The group that is open has no character after a leading one but leading ones.
LEMMA AppendWaits ==
  ASSUME NEW p \in Pages, NEW last, Waits(p, last), last # Leading => Len(p.buffer) = 0,
         NEW c, NEW q, q = [p EXCEPT !.buffer = Append(@, c)]
  PROVE  Waits(q, c.kind)
<1> DEFINE b == Len(p.buffer)
<1>1. b \in Nat /\ p.buffer \in Seq(Character)
  BY PageLengths
<1>2. q.buffer = Append(p.buffer, c)
  BY DEF Pages
<1>3. /\ Len(q.buffer) = b + 1 /\ q.buffer[b + 1] = c
      /\ \A i \in 1 .. b : q.buffer[i] = p.buffer[i]
  BY <1>1, <1>2
<1>4. /\ \A i \in 1 .. b - 1 : p.buffer[i].kind = Leading
      /\ b > 0 => p.buffer[b].kind = last /\ last = Leading
  BY DEF Waits
<1> HIDE DEF b
<1>5. ASSUME NEW i \in 1 .. (b + 1) - 1 PROVE q.buffer[i].kind = Leading
  <2>1. i \in 1 .. b /\ b > 0 /\ (i = b \/ i \in 1 .. b - 1)
    BY <1>1
  <2> QED BY <1>3, <1>4, <2>1
<1> QED BY <1>3, <1>5 DEF Waits

\* InOrder is what OrderInv says of the page.
LEMMA OrderFromInv == OrderInv => InOrder
<1> SUFFICES ASSUME OrderInv PROVE InOrder
  OBVIOUS
<1> DEFINE m == Len(placed)
           b == Len(page.buffer)
           k == Len(page.text)
           all == Ids(placed) \o Ids(page.buffer)
<1>1. /\ m \in Nat /\ b \in Nat /\ k \in Nat /\ pushed \in Nat
      /\ placed \in Seq(Character) /\ page.buffer \in Seq(Character)
      /\ DOMAIN page.text = 1 .. k
  BY PageLengths, TypesRule DEF OrderInv, TypeInv, placed
<1>2. /\ \A i \in 1 .. m : placed[i].id = (pushed - b - m) + i
      /\ \A i \in 1 .. b : page.buffer[i].id = (pushed - b) + i
      /\ k <= m
      /\ \A i \in 1 .. k : page.text[i] = placed[(m - k) + i].id
      /\ \A i \in 1 .. b - 1 : page.buffer[i].kind = Leading
  BY DEF OrderInv, Numbered, Told, Waits, placed
<1>3. /\ Ids(placed) \in Seq(Int) /\ Len(Ids(placed)) = m
      /\ \A i \in 1 .. m : Ids(placed)[i] = placed[i].id
      /\ Ids(page.buffer) \in Seq(Int) /\ Len(Ids(page.buffer)) = b
      /\ \A i \in 1 .. b : Ids(page.buffer)[i] = page.buffer[i].id
  BY <1>1, IdsTypes
<1>4. /\ Len(all) = m + b /\ DOMAIN all = 1 .. m + b
      /\ \A i \in 1 .. m : all[i] = Ids(placed)[i]
      /\ \A i \in 1 .. b : all[m + i] = Ids(page.buffer)[i]
  <2>1. Concatenated(all, Ids(placed), Ids(page.buffer))
    BY <1>3, ConcatenatedFacts
  <2> QED BY <1>3, <2>1 DEF Concatenated
<1> HIDE DEF m, b, k, all
<1>5. ASSUME NEW i \in DOMAIN all PROVE all[i] = pushed - Len(all) + i
  <2>1. i \in 1 .. m + b /\ pushed - Len(all) + i = (pushed - (m + b)) + i
    BY <1>4
  <2>2. CASE i <= m
    <3>1. i \in 1 .. m /\ (pushed - b - m) + i = (pushed - (m + b)) + i
      BY <1>1, <2>1, <2>2
    <3> QED BY <1>2, <1>3, <1>4, <2>1, <3>1
  <2>3. CASE i > m
    <3>1. /\ i - m \in 1 .. b /\ m + (i - m) = i
          /\ (pushed - b) + (i - m) = (pushed - (m + b)) + i
      BY <1>1, <2>1, <2>3
    <3> QED BY <1>2, <1>3, <1>4, <2>1, <3>1
  <2> QED BY <1>1, <2>1, <2>2, <2>3
<1>6. ASSUME NEW i \in DOMAIN page.text
      PROVE  page.text[i] = Ids(placed)[Len(placed) - Len(page.text) + i]
  <2>1. i \in 1 .. k /\ (m - k) + i \in 1 .. m
    BY <1>1, <1>2
  <2>2. Len(placed) - Len(page.text) + i = (m - k) + i
    BY DEF m, k
  <2> QED BY <1>2, <1>3, <2>1, <2>2
<1>7. \A i \in 1 .. (Len(page.buffer) - 1) : page.buffer[i].kind = Leading
  BY <1>2 DEF b
<1>8. Len(page.text) <= Len(placed)
  BY <1>2 DEF m, k
<1>9. Len(all) = cleared.kept + pushed - cleared.upTo
  BY <1>4 DEF OrderInv, Whole, Total, placed, m, b
<1> QED BY <1>5, <1>6, <1>7, <1>8, <1>9 DEF InOrder, all

\* What most steps leave alone.
Keeps ==
  /\ page'.x = page.x /\ page'.y = page.y
  /\ page'.characters = page.characters /\ page'.buffer = page.buffer
  /\ page'.text = page.text \/ page'.text = <<>>
  /\ box' = box /\ cut' = cut /\ pushed' = pushed /\ cleared' = cleared /\ mode' = mode

\* Only these steps touch the characters.
LEMMA StepKinds ==
  ASSUME TypeInv, [Next]_vars
  PROVE  \/ Keeps
         \/ \E kind \in Kinds : PushCharacter(kind)
         \/ Newline \/ Done
         \/ \E width \in BoxWidths \cup {0} : ClearWith(width)
<1>1. CASE Render \/ RenderEnd
  BY <1>1 DEF Render, RenderEnd, Keeps
<1>2. CASE SetIndent
  BY <1>2 DEF SetIndent, Keeps
<1>3. ASSUME NEW pitch \in Pitches, SetPitch(pitch) PROVE Keeps
  BY <1>3 DEF SetPitch, Keeps
<1>4. ASSUME NEW percent \in Percents, SetSize(percent) PROVE Keeps
  BY <1>4 DEF SetSize, Keeps
<1>5. CASE ResetFont
  <2>1. page' = [page EXCEPT !.text = <<>>] /\ page \in Pages
    BY <1>5 DEF ResetFont, TypeInv
  <2> QED BY <1>5, <2>1 DEF ResetFont, Keeps, Pages
<1>6. ASSUME NEW d \in Defaults, SetDefault(d) PROVE Keeps
  BY <1>6 DEF SetDefault, Keeps
<1>7. ASSUME NEW size \in OtherSizes, OtherFont(size) PROVE Keeps
  BY <1>7 DEF OtherFont, Keeps
<1>8. CASE UNCHANGED vars
  BY <1>8 DEF vars, Keeps
<1>9. box \in BoxWidths \cup {0}
  BY DEF TypeInv, TypeOK
<1> QED
  BY <1>1, <1>2, <1>3, <1>4, <1>5, <1>6, <1>7, <1>8, <1>9 DEF Next, Clear, SetRenderSize

\* Every step keeps the characters.
LEMMA NextWhole == OrderInv /\ [Next]_vars => Whole'
<1> SUFFICES ASSUME OrderInv, [Next]_vars PROVE Whole'
  OBVIOUS
<1>0. TypeInv /\ page \in Pages
  BY DEF OrderInv, TypeInv
<1>a. /\ Whole /\ pushed \in Nat
      /\ Len(page.characters) \in Nat /\ Len(page.buffer) \in Nat
      /\ cleared.upTo \in Nat /\ cleared.kept \in Nat /\ Total(page) \in Nat
  <2>1. cleared \in [upTo : 0 .. MaxPushed, kept : Nat] /\ MaxPushed \in Nat
    BY <1>0, SizesAssumption DEF TypeInv, TypeOK
  <2>2. cleared.upTo \in Nat /\ cleared.kept \in Nat
    BY <2>1
  <2>3. Len(page.characters) \in Nat /\ Len(page.buffer) \in Nat
    BY <1>0, PageLengths
  <2>4. Total(page) \in Nat
    <3> DEFINE m == Len(page.characters)
               b == Len(page.buffer)
    <3>1. Total(page) = m + b /\ m \in Nat /\ b \in Nat
      BY <2>3 DEF Total
    <3> HIDE DEF m, b
    <3> QED BY <3>1
  <2> QED BY <1>0, <2>2, <2>3, <2>4, TypesRule DEF OrderInv
<1>1. CASE Keeps
  BY <1>1, <1>a DEF Keeps, Whole, Total
<1>2. ASSUME NEW kind \in Kinds, PushCharacter(kind) PROVE Whole'
  <2>1. /\ page' = [Open EXCEPT !.buffer = Append(@, Pushed(kind))]
        /\ Open \in Pages
    BY <1>0, <1>2, PushAppends
  <2>2. Len(Open.characters) + Len(Open.buffer) = Len(page.characters) + Len(page.buffer)
    <3>1. CASE mode # Leading
      <4>1. Open.buffer = <<>> /\ Len(Open.characters) = Len(page.characters) + Len(page.buffer)
        BY <1>0, <3>1, FlushTypes, FlushLength DEF Open
      <4>2. Len(Open.buffer) = 0
        BY <4>1
      <4> HIDE DEF Open
      <4> QED BY <1>0, <4>1, <4>2
    <3>2. CASE mode = Leading
      BY <3>2 DEF Open
    <3> QED BY <3>1, <3>2
  <2>3. pushed' = pushed + 1 /\ cleared' = cleared
    BY <1>2 DEF PushCharacter
  <2> HIDE DEF Open, Pushed
  <2>4. /\ page'.characters = Open.characters
        /\ page'.buffer = Append(Open.buffer, Pushed(kind))
    BY <2>1 DEF Pages
  <2>5. Open.buffer \in Seq(Character) /\ Len(Open.buffer) \in Nat /\ Len(Open.characters) \in Nat
    BY <2>1, PageLengths
  <2>6. Len(page'.buffer) = Len(Open.buffer) + 1 /\ Len(page'.characters) = Len(Open.characters)
    BY <2>4, <2>5
  <2>7. Total(page') = Total(page) + 1
    <3> DEFINE m == Len(Open.characters)
               b == Len(Open.buffer)
    <3>1. Total(page') = m + (b + 1) /\ m \in Nat /\ b \in Nat /\ Total(page) = m + b
      BY <2>2, <2>5, <2>6 DEF Total
    <3> HIDE DEF m, b
    <3> QED BY <3>1
  <2> QED BY <1>a, <2>3, <2>7 DEF Whole
<1>3. CASE Newline \/ Done
  <2>1. Flush(page) \in Pages /\ Flush(page).buffer = <<>>
        /\ Len(Flush(page).characters) = Len(page.characters) + Len(page.buffer)
        /\ Linebreak(Flush(page)) = [Flush(page) EXCEPT !.x = indent, !.y = @ + LineHeight]
    BY <1>0, FlushTypes, FlushLength
  <2>2. /\ page'.characters = Flush(page).characters
        /\ page'.buffer = Flush(page).buffer
        /\ pushed' = pushed /\ cleared' = cleared
    <3> HIDE DEF Flush
    <3>1. CASE Newline
      BY <2>1, <3>1 DEF Newline, Pages
    <3>2. CASE Done
      BY <3>2 DEF Done
    <3> QED BY <1>3, <3>1, <3>2
  <2>3. Len(page'.buffer) = 0
    BY <2>1, <2>2
  <2>4. Total(page') = Total(page)
    <3> HIDE DEF Flush
    <3>1. Len(page'.characters) = Len(page.characters) + Len(page.buffer)
      BY <2>1, <2>2
    <3> QED BY <1>a, <2>3, <3>1 DEF Total
  <2> QED BY <1>a, <2>2, <2>4 DEF Whole
<1>4. ASSUME NEW width \in BoxWidths \cup {0}, ClearWith(width) PROVE Whole'
  <2>1. /\ page' = [NewPage EXCEPT !.buffer = page.buffer] /\ pushed' = pushed
        /\ cleared' = [upTo |-> pushed, kept |-> Len(page.buffer)]
    BY <1>4 DEF ClearWith
  <2>2. page'.characters = <<>> /\ page'.buffer = page.buffer
    BY <1>0, <2>1, ClearTypes
  <2>3. Len(page'.characters) = 0 /\ Len(page'.buffer) = Len(page.buffer)
    BY <2>2
  <2>4. pushed' = pushed /\ cleared'.upTo = pushed /\ cleared'.kept = Len(page.buffer)
    BY <2>1
  <2>5. Total(page') = Len(page.buffer)
    BY <1>a, <2>3 DEF Total
  <2> QED BY <1>a, <2>4, <2>5 DEF Whole
<1> QED BY <1>0, <1>1, <1>2, <1>3, <1>4, StepKinds

\* Every step keeps the order.
LEMMA NextOrder == OrderInv /\ TypeInv' /\ [Next]_vars => OrderInv'
<1> SUFFICES ASSUME OrderInv, TypeInv', [Next]_vars PROVE OrderInv'
  OBVIOUS
<1>0. /\ TypeInv /\ Numbered(page, pushed) /\ Told(page) /\ Waits(page, mode)
      /\ page \in Pages /\ pushed \in Nat
  BY TypesRule DEF OrderInv, TypeInv
<1> SUFFICES Numbered(page', pushed') /\ Told(page') /\ Waits(page', mode')
  BY NextWhole DEF OrderInv
<1>1. CASE Keeps
  <2>1. Told(page')
    <3>1. CASE page'.text = page.text
      BY <1>0, <1>1, <3>1 DEF Told, Keeps
    <3>2. CASE page'.text = <<>>
      <4>1. Len(page'.text) = 0 /\ Len(page'.characters) \in Nat
        BY <1>0, <1>1, <3>2, PageLengths DEF Keeps
      <4> QED BY <4>1 DEF Told
    <3> QED BY <1>1, <3>1, <3>2 DEF Keeps
  <2> QED BY <1>0, <1>1, <2>1 DEF Keeps, Numbered, Waits
<1>2. ASSUME NEW kind \in Kinds, PushCharacter(kind)
      PROVE  Numbered(page', pushed') /\ Told(page') /\ Waits(page', mode')
  <2>1. /\ page' = [Open EXCEPT !.buffer = Append(@, Pushed(kind))]
        /\ Open \in Pages
    BY <1>0, <1>2, PushAppends
  <2>2. Numbered(Open, pushed) /\ Told(Open)
    BY <1>0, FlushOrder DEF Open
  <2>3. Waits(Open, mode) /\ (mode # Leading => Len(Open.buffer) = 0)
    <3>1. CASE mode # Leading
      <4>1. Open.buffer = <<>>
        BY <1>0, <3>1, FlushTypes DEF Open
      <4>2. Len(Open.buffer) = 0
        BY <4>1
      <4> QED BY <4>2 DEF Waits
    <3>2. CASE mode = Leading
      BY <1>0, <3>2 DEF Open
    <3> QED BY <3>1, <3>2
  <2>4. /\ Pushed(kind).id = pushed + 1 /\ Pushed(kind).kind = kind
        /\ pushed' = pushed + 1 /\ mode' = kind
    BY <1>2 DEF Pushed, PushCharacter
  <2> HIDE DEF Open, Pushed
  <2>5. Numbered(page', pushed + 1) /\ Told(page')
    BY <1>0, <2>1, <2>2, <2>4, AppendOrder
  <2>6. Waits(page', Pushed(kind).kind)
    BY <2>1, <2>3, AppendWaits
  <2> QED BY <2>4, <2>5, <2>6
<1>3. CASE Newline \/ Done
  <2>1. Numbered(Flush(page), pushed) /\ Told(Flush(page))
    BY <1>0, FlushOrder
  <2>2. /\ Flush(page) \in Pages /\ Flush(page).buffer = <<>>
        /\ Linebreak(Flush(page)) = [Flush(page) EXCEPT !.x = indent, !.y = @ + LineHeight]
    BY <1>0, FlushTypes
  <2>3. /\ page'.characters = Flush(page).characters
        /\ page'.buffer = Flush(page).buffer /\ page'.text = Flush(page).text
        /\ pushed' = pushed
    <3> HIDE DEF Flush
    <3>1. CASE Newline
      BY <2>2, <3>1 DEF Newline, Pages
    <3>2. CASE Done
      BY <3>2 DEF Done
    <3> QED BY <1>3, <3>1, <3>2
  <2>4. Len(page'.buffer) = 0
    BY <2>2, <2>3
  <2>5. Numbered(page', pushed')
    BY <2>1, <2>3 DEF Numbered
  <2>6. Told(page')
    BY <2>1, <2>3 DEF Told
  <2>7. Waits(page', mode')
    BY <2>4 DEF Waits
  <2> QED BY <2>5, <2>6, <2>7
<1>4. ASSUME NEW width \in BoxWidths \cup {0}, ClearWith(width)
      PROVE  Numbered(page', pushed') /\ Told(page') /\ Waits(page', mode')
  <2>1. page' = [NewPage EXCEPT !.buffer = page.buffer] /\ pushed' = pushed /\ mode' = mode
    BY <1>4 DEF ClearWith
  <2>2. page'.characters = <<>> /\ page'.text = <<>> /\ page'.buffer = page.buffer
    BY <1>0, <2>1, ClearTypes
  <2>3. Len(page'.characters) = 0 /\ Len(page'.text) = 0
    BY <2>2
  <2> QED BY <1>0, <2>1, <2>2, <2>3 DEF Numbered, Told, Waits
<1> QED BY <1>0, <1>1, <1>2, <1>3, <1>4, StepKinds

\* The initial state has no characters.
LEMMA InitOrder == Init => OrderInv
<1> SUFFICES ASSUME Init PROVE OrderInv
  OBVIOUS
<1>1. TypeInv
  BY InitTypes
<1>2. Len(page.characters) = 0 /\ Len(page.buffer) = 0 /\ Len(page.text) = 0
  BY DEF Init, NewPage
<1>3. cleared.kept + pushed - cleared.upTo = 0
  BY DEF Init
<1> QED BY <1>1, <1>2, <1>3 DEF OrderInv, Numbered, Told, Waits, Whole, Total

\* Every character pushed since the last clear(), or kept by it, is in
\* m_characters or m_buffer, once and in the order of the text, the group that waits is leading characters and at most one
\* other, and renderText tells the last of the characters that were placed, for
\* every text, box, font and sequence of calls.
THEOREM CharactersInOrder == Spec => []InOrder
<1>1. Init => OrderInv
  BY InitOrder
<1>2. OrderInv /\ [Next]_vars => OrderInv'
  BY NextOrder, NextTypes DEF OrderInv
<1> QED BY <1>1, <1>2, OrderFromInv, PTL DEF Spec

-----------------------------------------------------------------------------
(* Lines that end with a leading character.                                *)

\* The text breaks after none of the characters that wait.
CutBefore(p, breaks, n) == \A k \in breaks : k <= n - Len(p.buffer)

\* The pen is behind the characters, which are kept together.
Held(p, breaks) ==
  /\ PenAfter(p.characters, p.x, p.y, breaks)
  /\ Above(p.characters, p.y)
  /\ Kept(p.characters, breaks)

LineInv ==
  /\ OrderInv
  /\ CutBefore(page, cut, pushed)
  /\ Complete(page.characters, cut)
  /\ Held(page, cut)

\* What flush adds to the characters.
AddedBy(f, P) ==
  /\ Added(page.characters, page.x, page.y, cut, P)
  /\ Joined(f.characters, page.characters, P)
  /\ Same(P, page.buffer)
  /\ \/ Chain(P, page.x, page.y) /\ PenBehind(P, f.x, f.y, page.x, page.y)
     \/ /\ Chain(P, indent, page.y + LineHeight) /\ Len(P) > 0
        /\ PenBehind(P, f.x, f.y, indent, page.y + LineHeight)
  /\ f.x \in Int /\ f.y \in Nat

LEMMA FlushAdds ==
  ASSUME LineInv, NEW f, NEW P, NEW Q, FlushGives(f, P, Q)
  PROVE  AddedBy(f, P)
<1>1. TypeInv /\ PageTypes /\ page \in Pages
  BY TypesRule DEF LineInv, OrderInv, TypeInv
<1>2. /\ page.characters \in Seq(Character) /\ page.x \in Int /\ page.y \in Nat
  BY <1>1 DEF Pages
<1>3. /\ Same(P, page.buffer) /\ f.characters = page.characters \o P
      /\ f.x \in Int /\ f.y \in Nat /\ P \in Seq(Character)
  BY DEF FlushGives, Same
<1>4. Joined(f.characters, page.characters, P)
  BY <1>2, <1>3, JoinedFacts
<1>5. \/ Chain(P, page.x, page.y) /\ (\A i \in 1 .. Len(P) : P[i].y = page.y)
      \/ Chain(P, indent, page.y + LineHeight)
  BY DEF FlushGives, StaysHere, GoesOn
<1>6. Added(page.characters, page.x, page.y, cut, P)
  BY <1>2, <1>3, <1>5 DEF Added, LineInv, Held
<1>7. \/ Chain(P, page.x, page.y) /\ PenBehind(P, f.x, f.y, page.x, page.y)
      \/ /\ Chain(P, indent, page.y + LineHeight) /\ Len(P) > 0
         /\ PenBehind(P, f.x, f.y, indent, page.y + LineHeight)
  BY DEF FlushGives, StaysHere, GoesOn
<1> QED BY <1>3, <1>4, <1>6, <1>7 DEF AddedBy

\* flush keeps the characters together, and leaves a group that is complete if
\* the last character was not leading.
LEMMA FlushHolds ==
  ASSUME LineInv
  PROVE  /\ Held(Flush(page), cut)
         /\ mode # Leading => Complete(Flush(page).characters, cut)
<1> DEFINE f == Flush(page)
           s == page.characters
           B == page.buffer
<1>1. TypeInv /\ Ruled /\ PageTypes /\ page \in Pages
  BY TypesRule DEF LineInv, OrderInv, TypeInv
<1>2. PICK P, Q : FlushGives(f, P, Q)
  BY <1>1, FlushFacts
<1> HIDE DEF f
<1>3. AddedBy(f, P)
  BY <1>2, FlushAdds
<1>4. /\ Added(s, page.x, page.y, cut, P) /\ Joined(f.characters, s, P) /\ Same(P, B)
      /\ \/ Chain(P, page.x, page.y) /\ PenBehind(P, f.x, f.y, page.x, page.y)
         \/ /\ Chain(P, indent, page.y + LineHeight) /\ Len(P) > 0
            /\ PenBehind(P, f.x, f.y, indent, page.y + LineHeight)
      /\ f.x \in Int /\ f.y \in Nat
  BY <1>3 DEF AddedBy
<1>5. PenAfter(f.characters, f.x, f.y, cut) /\ Above(f.characters, f.y)
  BY <1>1, <1>4, JoinPen
<1>6. /\ Len(s) \in Nat /\ Len(B) \in Nat /\ Len(P) = Len(B)
      /\ \A i \in 1 .. Len(B) : P[i].kind = B[i].kind
  BY <1>1, <1>4, PageLengths DEF Same
<1>7. /\ \A i \in 1 .. Len(B) - 1 : B[i].kind = Leading
      /\ Len(B) > 0 => B[Len(B)].kind = mode
  BY DEF LineInv, OrderInv, Waits
<1>8. \A i \in 1 .. Len(P) - 1 : P[i].kind = Leading
  <2>1. \A i \in 1 .. Len(B) - 1 : i \in 1 .. Len(B)
    BY <1>6
  <2> QED BY <1>6, <1>7, <2>1
<1>9. Kept(f.characters, cut)
  <2>1. Kept(s, cut)
    BY DEF LineInv, Held
  <2> HIDE DEF s
  <2> QED BY <1>1, <1>4, <1>8, <2>1, JoinKept
<1>10. ASSUME mode # Leading PROVE Complete(f.characters, cut)
  <2>1. Len(f.characters) = Len(s) + Len(P)
    BY <1>4 DEF Joined
  <2>2. CASE Len(P) = 0
    <3>1. Len(f.characters) = Len(s)
      BY <1>6, <2>1, <2>2
    <3>2. Len(s) > 0 => f.characters[Len(s)] = s[Len(s)]
      <4>1. Len(s) > 0 => Len(s) \in 1 .. Len(s)
        BY <1>6
      <4> QED BY <1>4, <4>1 DEF Joined
    <3>3. Complete(s, cut)
      BY DEF LineInv
    <3> QED BY <3>1, <3>2, <3>3 DEF Complete
  <2>3. CASE Len(P) # 0
    <3>1. Len(P) \in 1 .. Len(P) /\ Len(B) > 0
      BY <1>6, <2>3
    <3>2. f.characters[Len(s) + Len(P)] = P[Len(P)]
      BY <1>4, <3>1 DEF Joined
    <3>3. P[Len(P)].kind = mode
      BY <1>6, <1>7, <3>1
    <3> QED BY <1>10, <2>1, <3>2, <3>3 DEF Complete
  <2> QED BY <2>2, <2>3
<1> QED BY <1>5, <1>9, <1>10 DEF Held, f

\* A break of the text after the last character completes the group.
LEMMA CutHolds ==
  ASSUME NEW p \in Pages, NEW n \in Nat, Numbered(p, n), Len(p.buffer) = 0,
         NEW breaks, Held(p, breaks), NEW more, more = breaks \cup {n}
  PROVE  /\ Complete(p.characters, more) /\ Held(p, more)
         /\ Len(p.characters) > 0 => p.characters[Len(p.characters)].id \in more
<1> DEFINE s == p.characters
<1>1. Len(s) \in Nat /\ s \in Seq(Character)
  BY PageLengths
<1>2. Len(s) > 0 => s[Len(s)].id \in more
  <2> SUFFICES ASSUME Len(s) > 0 PROVE s[Len(s)].id = n
    OBVIOUS
  <2>1. Len(s) \in 1 .. Len(s) /\ (n - 0 - Len(s)) + Len(s) = n
    BY <1>1
  <2> QED BY <2>1 DEF Numbered
<1>3. Complete(s, more)
  BY <1>2 DEF Complete
<1>4. PenAfter(s, p.x, p.y, more)
  BY DEF Held, PenAfter
<1>5. Kept(s, more)
  BY DEF Held, Kept
<1> QED BY <1>2, <1>3, <1>4, <1>5 DEF Held

\* The pen may go to the next line where the text breaks.
LEMMA BreakHolds ==
  ASSUME Ruled, NEW p \in Pages, NEW breaks, Held(p, breaks),
         Len(p.characters) > 0 => p.characters[Len(p.characters)].id \in breaks,
         NEW q, q = [p EXCEPT !.x = indent, !.y = @ + LineHeight]
  PROVE  Held(q, breaks) /\ q.characters = p.characters /\ q.buffer = p.buffer
<1> DEFINE s == p.characters
<1>1. /\ q.characters = s /\ q.y = p.y + LineHeight /\ q.buffer = p.buffer
      /\ p.y \in Nat /\ q.y \in Nat /\ q.y > p.y
  BY DEF Pages, Ruled
<1>2. /\ Len(s) \in Nat /\ \A i \in 1 .. Len(s) : s[i].y \in Nat /\ s[i].y <= p.y
  <2>1. s \in Seq(Character)
    BY PageLengths
  <2> QED BY <2>1, Numbers DEF Held, Above
<1> HIDE DEF s
<1>3. \A i \in 1 .. Len(s) : s[i].y < q.y
  BY <1>1, <1>2
<1>4. Above(s, q.y)
  BY <1>1, <1>2, <1>3 DEF Above
<1>5. PenAfter(s, q.x, q.y, breaks)
  <2>1. Len(s) > 0 => Len(s) \in 1 .. Len(s)
    BY <1>2
  <2> QED BY <1>3, <2>1 DEF PenAfter, s
<1>6. Kept(s, breaks)
  BY DEF Held, s
<1> QED BY <1>1, <1>4, <1>5, <1>6 DEF Held

\* After a flush the text breaks at most after the last character.
LEMMA FlushCut ==
  ASSUME LineInv
  PROVE  \A k \in cut : k \in Nat /\ k <= pushed
<1>1. /\ TypeInv /\ CutBefore(page, cut, pushed) /\ Len(page.buffer) \in Nat
      /\ pushed \in Nat
  BY TypesRule, PageLengths DEF LineInv, OrderInv, TypeInv
<1>2. cut \subseteq 0 .. MaxPushed /\ MaxPushed \in Nat
  BY <1>1, TypesRule DEF TypeInv, TypeOK
<1>3. ASSUME NEW k \in cut PROVE k \in Nat /\ k <= pushed
  <2>1. k \in Nat /\ k <= pushed - Len(page.buffer)
    BY <1>1, <1>2 DEF CutBefore
  <2> QED BY <1>1, <2>1
<1> QED BY <1>3

\* Newline and done flush, and break the text.
LEMMA FlushAndCut ==
  ASSUME LineInv, Newline \/ Done
  PROVE  /\ cut' = cut \cup {pushed} /\ pushed' = pushed /\ box' = box
         /\ page'.characters = Flush(page).characters /\ Len(page'.buffer) = 0
         /\ Complete(page'.characters, cut') /\ Held(page', cut')
<1> DEFINE f == Flush(page)
<1>1. TypeInv /\ Ruled /\ pushed \in Nat
  BY TypesRule DEF LineInv, OrderInv
<1>2. f \in Pages /\ f.buffer = <<>> /\ Numbered(f, pushed)
      /\ Linebreak(f) = [f EXCEPT !.x = indent, !.y = @ + LineHeight]
  BY <1>1, FlushTypes, FlushOrder DEF LineInv, OrderInv
<1>3. Held(f, cut)
  BY FlushHolds
<1>4. cut' = cut \cup {pushed} /\ pushed' = pushed /\ box' = box
  BY DEF Newline, Done, Cut
<1>5. (Newline => page' = Linebreak(f)) /\ (Done => page' = f)
  BY DEF Newline, Done
<1> HIDE DEF f
<1>6. Len(f.buffer) = 0
  BY <1>2
<1>7. /\ Complete(f.characters, cut') /\ Held(f, cut')
      /\ Len(f.characters) > 0 => f.characters[Len(f.characters)].id \in cut'
  BY <1>1, <1>2, <1>3, <1>4, <1>6, CutHolds
<1>8. CASE Newline
  <2>1. page' = [f EXCEPT !.x = indent, !.y = @ + LineHeight]
    BY <1>2, <1>5, <1>8
  <2>2. Held(page', cut') /\ page'.characters = f.characters /\ page'.buffer = f.buffer
    BY <1>1, <1>2, <1>7, <2>1, BreakHolds
  <2> QED BY <1>4, <1>6, <1>7, <2>2 DEF f
<1>9. CASE Done
  BY <1>4, <1>5, <1>6, <1>7, <1>9 DEF f
<1> QED BY <1>8, <1>9

\* What a character is pushed behind.
LEMMA PushBehind ==
  ASSUME LineInv, NEW kind \in Kinds, PushCharacter(kind)
  PROVE  /\ page'.characters = Open.characters /\ page'.x = Open.x /\ page'.y = Open.y
         /\ page'.buffer = Append(Open.buffer, Pushed(kind))
         /\ Len(page'.buffer) = Len(Open.buffer) + 1
         /\ cut' = cut /\ pushed' = pushed + 1 /\ box' = box
         /\ Open \in Pages
<1>1. /\ page' = [Open EXCEPT !.buffer = Append(@, Pushed(kind))]
      /\ Open \in Pages
  BY PushAppends DEF LineInv, OrderInv
<1>2. cut' = cut /\ pushed' = pushed + 1 /\ box' = box
  BY DEF PushCharacter
<1> HIDE DEF Open, Pushed
<1>3. /\ page'.characters = Open.characters /\ page'.x = Open.x /\ page'.y = Open.y
      /\ page'.buffer = Append(Open.buffer, Pushed(kind))
  BY <1>1 DEF Pages
<1>4. Open.buffer \in Seq(Character)
  BY <1>1, PageLengths
<1>5. Len(page'.buffer) = Len(Open.buffer) + 1
  BY <1>3, <1>4
<1> QED BY <1>1, <1>2, <1>3, <1>5

\* Every step keeps the lines.
LEMMA NextLines == LineInv /\ OrderInv' /\ [Next]_vars => LineInv'
<1> SUFFICES ASSUME LineInv, OrderInv', [Next]_vars PROVE LineInv'
  OBVIOUS
<1>0. /\ TypeInv /\ page \in Pages /\ pushed \in Nat
      /\ CutBefore(page, cut, pushed) /\ Complete(page.characters, cut) /\ Held(page, cut)
  BY TypesRule DEF LineInv, OrderInv, TypeInv
<1> SUFFICES /\ CutBefore(page', cut', pushed')
             /\ Complete(page'.characters, cut') /\ Held(page', cut')
  BY DEF LineInv
<1>1. CASE Keeps
  BY <1>0, <1>1 DEF Keeps, CutBefore, Complete, Held
<1>2. ASSUME NEW kind \in Kinds, PushCharacter(kind)
      PROVE  /\ CutBefore(page', cut', pushed')
             /\ Complete(page'.characters, cut') /\ Held(page', cut')
  <2>1. /\ page'.characters = Open.characters /\ page'.x = Open.x /\ page'.y = Open.y
        /\ Len(page'.buffer) = Len(Open.buffer) + 1
        /\ cut' = cut /\ pushed' = pushed + 1 /\ Open \in Pages
    BY <1>2, PushBehind
  <2>2. Held(Open, cut) /\ Complete(Open.characters, cut)
    BY <1>0, FlushHolds DEF Open
  <2>3. \A k \in cut : k \in Nat /\ k <= pushed - Len(Open.buffer)
    <3>1. \A k \in cut : k \in Nat /\ k <= pushed
      BY FlushCut
    <3>2. CASE mode # Leading
      <4>1. Open.buffer = <<>>
        BY <1>0, <3>2, FlushTypes DEF Open
      <4>2. Len(Open.buffer) = 0
        BY <4>1
      <4> QED BY <1>0, <3>1, <4>2
    <3>3. CASE mode = Leading
      <4>1. Open = page
        BY <3>3 DEF Open
      <4> QED BY <1>0, <3>1, <4>1 DEF CutBefore
    <3> QED BY <3>2, <3>3
  <2> HIDE DEF Open
  <2>4. Len(Open.buffer) \in Nat
    BY <2>1, PageLengths
  <2>5. (pushed + 1) - (Len(Open.buffer) + 1) = pushed - Len(Open.buffer)
    BY <1>0, <2>4
  <2>6. CutBefore(page', cut', pushed')
    BY <2>1, <2>3, <2>5 DEF CutBefore
  <2> QED BY <2>1, <2>2, <2>6 DEF Held
<1>3. CASE Newline \/ Done
  <2>1. /\ cut' = cut \cup {pushed} /\ pushed' = pushed /\ Len(page'.buffer) = 0
        /\ Complete(page'.characters, cut') /\ Held(page', cut')
    BY <1>3, FlushAndCut
  <2>2. \A k \in cut' : k \in Nat /\ k <= pushed
    BY <1>0, <2>1, FlushCut
  <2>3. CutBefore(page', cut', pushed')
    BY <1>0, <2>1, <2>2 DEF CutBefore
  <2> QED BY <2>1, <2>3
<1>4. ASSUME NEW width \in BoxWidths \cup {0}, ClearWith(width)
      PROVE  /\ CutBefore(page', cut', pushed')
             /\ Complete(page'.characters, cut') /\ Held(page', cut')
  <2>1. page' = [NewPage EXCEPT !.buffer = page.buffer] /\ cut' = {}
    BY <1>4 DEF ClearWith
  <2>2. page'.characters = <<>>
    BY <1>0, <2>1, ClearTypes
  <2>3. Len(page'.characters) = 0
    BY <2>2
  <2> QED BY <2>1, <2>3 DEF CutBefore, Complete, Held, PenAfter, Above, Kept
<1> QED BY <1>0, <1>1, <1>2, <1>3, <1>4, StepKinds

\* The initial state has no lines.
LEMMA InitLines == Init => LineInv
<1> SUFFICES ASSUME Init PROVE LineInv
  OBVIOUS
<1>1. OrderInv
  BY InitOrder
<1>2. Len(page.characters) = 0 /\ cut = {}
  BY DEF Init, NewPage
<1> QED BY <1>1, <1>2 DEF LineInv, CutBefore, Complete, Held, PenAfter, Above, Kept

LEMMA LinesAlways == Spec => []LineInv
<1>1. Init => LineInv
  BY InitLines
<1>2. LineInv /\ [Next]_vars => LineInv'
  BY NextOrder, NextTypes, NextLines DEF LineInv, OrderInv
<1> QED BY <1>1, <1>2, PTL DEF Spec

\* No line ends with a leading character unless the text breaks or done() was
\* called there or the group alone is wider than the line, for every text, box, font and sequence
\* of calls.
THEOREM LeadingStaysKept == Spec => []LeadingKept
<1>1. LineInv => LeadingKept
  BY DEF LineInv, Held, Kept, LeadingKept, OnSameLine, placed
<1> QED BY <1>1, LinesAlways, PTL

-----------------------------------------------------------------------------
(* Lines stay inside the box, and are filled.                              *)

\* Fonts and pitches are those PitchesAreMild speaks of.
MildInv ==
  /\ applied \in Sizes /\ state.pitch \in AllPitches
  /\ \A i \in 1 .. Len(page.buffer) : page.buffer[i].cw \in Sizes

FillInv ==
  /\ LineInv
  /\ MildInv
  /\ Inside(page.characters)
  /\ Filled(page.characters, cut)

\* The fonts and pitches of the defaults are among all.
LEMMA DefaultsMild ==
  ASSUME NEW d \in Defaults \cup {BuiltIn}
  PROVE  /\ Extent(d.size) \in Sizes /\ d.pitch \in AllPitches
         /\ \A percent \in Percents : Extent(Scaled(d.size, percent)) \in Sizes
  BY DEF Sizes, AllPitches

\* Every step keeps the fonts and pitches.
LEMMA NextMild == LineInv /\ MildInv /\ [Next]_vars => MildInv'
<1> SUFFICES ASSUME LineInv, MildInv, [Next]_vars PROVE MildInv'
  OBVIOUS
<1>0. /\ TypeInv /\ page \in Pages /\ default \in Defaults \cup {BuiltIn}
      /\ Len(page.buffer) \in Nat
  BY PageLengths DEF LineInv, OrderInv, TypeInv, TypeOK
<1>1. applied' \in Sizes /\ state'.pitch \in AllPitches
  <2>1. \A size \in OtherSizes : size \in Sizes
    BY DEF Sizes
  <2>2. \A pitch \in Pitches : pitch \in AllPitches
    BY DEF AllPitches
  <2>3. /\ Extent(default.size) \in Sizes /\ default.pitch \in AllPitches
        /\ \A percent \in Percents : Extent(Scaled(default.size, percent)) \in Sizes
    BY <1>0, DefaultsMild
  <2>4. applied \in Sizes /\ state.pitch \in AllPitches
    BY DEF MildInv
  <2>5. applied' \in Sizes
    BY <2>1, <2>3, <2>4
       DEF Next, vars, Render, RenderEnd, PushCharacter, Newline, SetIndent,
           SetPitch, SetSize, ResetFont, Done, ClearWith, Clear, SetRenderSize,
           SetDefault, OtherFont
  <2>6. state'.pitch \in AllPitches
    <3>1. \/ state' = state \/ state' = [pitch |-> default.pitch]
          \/ \E pitch \in Pitches : SetPitch(pitch)
      BY DEF Next, vars, Render, RenderEnd, PushCharacter, Newline, SetIndent,
             SetSize, ResetFont, Done, ClearWith, Clear, SetRenderSize, SetDefault,
             OtherFont
    <3>2. ASSUME NEW pitch \in Pitches, SetPitch(pitch) PROVE state'.pitch = pitch
      BY <3>2 DEF SetPitch
    <3>3. [pitch |-> default.pitch].pitch = default.pitch
      OBVIOUS
    <3> QED BY <2>2, <2>3, <2>4, <3>1, <3>2, <3>3
  <2> QED BY <2>5, <2>6
<1>2. \A i \in 1 .. Len(page'.buffer) : page'.buffer[i].cw \in Sizes
  <2>0. \A i \in 1 .. Len(page.buffer) : page.buffer[i].cw \in Sizes
    BY DEF MildInv
  <2>1. CASE Keeps
    BY <2>0, <2>1 DEF Keeps
  <2>2. ASSUME NEW kind \in Kinds, PushCharacter(kind)
        PROVE  \A i \in 1 .. Len(page'.buffer) : page'.buffer[i].cw \in Sizes
    <3>1. /\ page'.buffer = Append(Open.buffer, Pushed(kind))
          /\ Len(page'.buffer) = Len(Open.buffer) + 1 /\ Open \in Pages
      BY <2>2, PushBehind
    <3>2. \A i \in 1 .. Len(Open.buffer) : Open.buffer[i].cw \in Sizes
      <4>1. CASE mode # Leading
        <5>1. Open.buffer = <<>>
          BY <1>0, <4>1, FlushTypes DEF Open
        <5> QED BY <5>1
      <4>2. CASE mode = Leading
        BY <2>0, <4>2 DEF Open
      <4> QED BY <4>1, <4>2
    <3>3. Pushed(kind).cw \in Sizes
      BY DEF Pushed, MildInv
    <3> HIDE DEF Open, Pushed
    <3>4. Open.buffer \in Seq(Character) /\ Len(Open.buffer) \in Nat
      BY <3>1, PageLengths
    <3>5. ASSUME NEW i \in 1 .. Len(Open.buffer) + 1 PROVE page'.buffer[i].cw \in Sizes
      <4>1. CASE i = Len(Open.buffer) + 1
        <5>1. page'.buffer[i] = Pushed(kind)
          BY <3>1, <3>4, <4>1
        <5> QED BY <3>3, <5>1
      <4>2. CASE i # Len(Open.buffer) + 1
        <5>1. i \in 1 .. Len(Open.buffer)
          BY <3>4, <4>2
        <5>2. page'.buffer[i] = Open.buffer[i]
          BY <3>1, <3>4, <5>1
        <5> QED BY <3>2, <5>1, <5>2
      <4> QED BY <4>1, <4>2
    <3> QED BY <3>1, <3>5
  <2>3. CASE Newline \/ Done
    <3>1. Len(page'.buffer) = 0
      BY <2>3, FlushAndCut
    <3> QED BY <3>1
  <2>4. ASSUME NEW width \in BoxWidths \cup {0}, ClearWith(width)
        PROVE  \A i \in 1 .. Len(page'.buffer) : page'.buffer[i].cw \in Sizes
    <3>1. page' = [NewPage EXCEPT !.buffer = page.buffer]
      BY <2>4 DEF ClearWith
    <3>2. page'.buffer = page.buffer
      BY <1>0, <3>1, ClearTypes
    <3> QED BY <2>0, <3>2
  <2> QED BY <1>0, <2>1, <2>2, <2>3, <2>4, StepKinds
<1> QED BY <1>1, <1>2 DEF MildInv

\* What the layout is proved for, character by character.
LEMMA FlushMild ==
  ASSUME PitchesAreMild, FillInv
  PROVE  Inside(Flush(page).characters) /\ Filled(Flush(page).characters, cut)
<1> DEFINE f == Flush(page)
           s == page.characters
           B == page.buffer
           W(P) == Widths(P, cut)
<1>0. LineInv /\ MildInv /\ Inside(s) /\ Filled(s, cut)
  BY DEF FillInv
<1>1. TypeInv /\ Ruled /\ PageTypes /\ page \in Pages /\ pushed \in Nat
  BY <1>0, TypesRule DEF LineInv, OrderInv, TypeInv
<1>2. PICK P, Q : FlushGives(f, P, Q)
  BY <1>1, FlushFacts
<1> HIDE DEF f
<1>3. AddedBy(f, P)
  BY <1>0, <1>2, FlushAdds
<1>4. /\ Added(s, page.x, page.y, cut, P) /\ Joined(f.characters, s, P) /\ Same(P, B)
  BY <1>3 DEF AddedBy
<1>5. /\ Len(B) \in Nat /\ Len(P) = Len(B) /\ P \in Seq(Character)
      /\ \A i \in 1 .. Len(B) : /\ P[i].id = B[i].id /\ P[i].kind = B[i].kind
                                /\ P[i].advance = B[i].cw + state.pitch
  BY <1>1, <1>4, PageLengths DEF Same
<1>6. Forward(P)
  <2>1. \A i \in 1 .. Len(B) : B[i].cw + state.pitch >= 0
    BY <1>0 DEF MildInv, PitchesAreMild
  <2> QED BY <1>5, <2>1 DEF Forward
<1>7. \A i \in 1 .. Len(P) - 1 : ~Ends(P, cut, i)
  <2> SUFFICES ASSUME NEW i \in 1 .. Len(P) - 1 PROVE ~Ends(P, cut, i)
    OBVIOUS
  <2>1. i \in 1 .. Len(B) /\ i \in 1 .. Len(B) - 1 /\ i # Len(P)
    BY <1>5
  <2>2. P[i].kind = Leading
    BY <1>0, <1>5, <2>1 DEF LineInv, OrderInv, Waits
  <2>3. P[i].id = (pushed - Len(B)) + i
    BY <1>0, <1>5, <2>1 DEF LineInv, OrderInv, Numbered
  <2>4. ~(P[i].id <= pushed - Len(B))
    BY <1>1, <1>5, <2>1, <2>3
  <2>5. P[i].id \notin cut
    BY <1>0, <2>4 DEF LineInv, CutBefore
  <2> QED BY <2>1, <2>2, <2>5 DEF Ends
<1>8. Inside(f.characters)
  <2> HIDE DEF s
  <2> QED BY <1>0, <1>1, <1>4, <1>6, JoinInside
<1>9. Len(P) > 0 /\ P[1].y # page.y => page.x + Widths(P, cut)[1] > box
  <2> SUFFICES ASSUME Len(P) > 0, P[1].y # page.y
               PROVE  page.x + Widths(P, cut)[1] > box
    OBVIOUS
  <2>1. 1 \in 1 .. Len(P)
    BY <1>5
  <2>2. GoesOn(f, P, Q)
    BY <1>2, <2>1 DEF FlushGives, StaysHere
  <2>3. Same(Q, B) /\ Chain(Q, page.x, page.y) /\ Q[Len(Q)].y # page.y
    BY <2>2 DEF GoesOn
  <2>4. /\ Q \in Seq(Character) /\ Len(Q) = Len(P)
        /\ \A i \in 1 .. Len(P) : Q[i].advance = P[i].advance
    BY <1>5, <2>3 DEF Same
  <2>5. page.x \in Int /\ page.y \in Nat
    BY <1>1 DEF Pages
  <2> QED BY <1>1, <1>5, <1>6, <1>7, <2>3, <2>4, <2>5, GroupTooWide
<1>10. Filled(f.characters, cut)
  <2> HIDE DEF s
  <2> QED BY <1>0, <1>1, <1>4, <1>6, <1>7, <1>9, JoinFilled
<1> QED BY <1>8, <1>10 DEF f

\* Where the text breaks after the last character, no group changes.
LEMMA CutFills ==
  ASSUME NEW p \in Pages, NEW n \in Nat, Numbered(p, n), Len(p.buffer) = 0,
         NEW breaks, Filled(p.characters, breaks), NEW more, more = breaks \cup {n}
  PROVE  Filled(p.characters, more)
<1> DEFINE s == p.characters
<1>1. Len(s) \in Nat /\ s \in Seq(Character)
  BY PageLengths
<1>2. ASSUME NEW i \in 1 .. Len(s)
      PROVE  /\ 0 + i \in 1 .. Len(s) /\ s[0 + i].advance = s[i].advance
             /\ Ends(s, more, 0 + i) <=> Ends(s, breaks, i)
  <2>1. s[i].id = (n - 0 - Len(s)) + i
    BY DEF Numbered
  <2>2. 0 + i = i /\ (i # Len(s) => s[i].id # n)
    BY <1>1, <2>1
  <2> QED BY <2>2 DEF Ends
<1>3. Part(s, breaks, s, more, 0)
  BY <1>2 DEF Part
<1>4. \A i \in 1 .. Len(s) : Widths(s, more)[0 + i] = Widths(s, breaks)[i]
  <2> HIDE DEF s
  <2> QED BY <1>1, <1>3, WidthsAgree
<1>5. \A i \in 1 .. Len(s) : Widths(s, more)[i] = Widths(s, breaks)[i]
  <2>1. \A i \in 1 .. Len(s) : 0 + i = i
    BY <1>1
  <2> QED BY <1>4, <2>1
<1>6. \A i \in 1 .. Len(s) - 1 : i + 1 \in 1 .. Len(s)
  BY <1>1
<1> HIDE DEF s
<1>7. Filled(s, breaks)
  BY DEF s
<1>8. Filled(s, more)
  BY <1>5, <1>6, <1>7 DEF Filled
<1> QED BY <1>8 DEF s

\* Every step keeps the lines inside the box and filled.
LEMMA NextFill ==
  ASSUME PitchesAreMild
  PROVE  FillInv /\ LineInv' /\ [Next]_vars => FillInv'
<1> SUFFICES ASSUME FillInv, LineInv', [Next]_vars PROVE FillInv'
  OBVIOUS
<1>0. /\ LineInv /\ TypeInv /\ page \in Pages /\ pushed \in Nat
      /\ Inside(page.characters) /\ Filled(page.characters, cut)
  BY TypesRule DEF FillInv, LineInv, OrderInv, TypeInv
<1>1. MildInv'
  BY NextMild DEF FillInv
<1> SUFFICES /\ (Inside(page.characters))' /\ (Filled(page.characters, cut))'
  BY <1>1 DEF FillInv
<1>2. CASE Keeps
  BY <1>0, <1>2 DEF Keeps, Inside, Filled
<1>3. ASSUME NEW kind \in Kinds, PushCharacter(kind)
      PROVE  /\ (Inside(page.characters))' /\ (Filled(page.characters, cut))'
  <2>1. page'.characters = Open.characters /\ cut' = cut /\ box' = box
    BY <1>0, <1>3, PushBehind
  <2>2. Inside(Open.characters) /\ Filled(Open.characters, cut)
    BY <1>0, FlushMild DEF Open
  <2> QED BY <2>1, <2>2 DEF Inside, Filled
<1>4. CASE Newline \/ Done
  <2>1. /\ cut' = cut \cup {pushed} /\ box' = box
        /\ page'.characters = Flush(page).characters
    BY <1>0, <1>4, FlushAndCut
  <2>2. Inside(Flush(page).characters) /\ Filled(Flush(page).characters, cut)
    BY FlushMild
  <2>3. /\ Flush(page) \in Pages /\ Flush(page).buffer = <<>> /\ Numbered(Flush(page), pushed)
    BY <1>0, FlushTypes, FlushOrder DEF LineInv, OrderInv
  <2>4. Len(Flush(page).buffer) = 0
    BY <2>3
  <2>5. Filled(Flush(page).characters, cut')
    BY <1>0, <2>1, <2>2, <2>3, <2>4, CutFills
  <2> QED BY <2>1, <2>2, <2>5 DEF Inside, Filled
<1>5. ASSUME NEW width \in BoxWidths \cup {0}, ClearWith(width)
      PROVE  /\ (Inside(page.characters))' /\ (Filled(page.characters, cut))'
  <2>1. page' = [NewPage EXCEPT !.buffer = page.buffer]
    BY <1>5 DEF ClearWith
  <2>2. page'.characters = <<>>
    BY <1>0, <2>1, ClearTypes
  <2>3. Len(page'.characters) = 0
    BY <2>2
  <2> QED BY <2>3 DEF Inside, Filled
<1> QED BY <1>0, <1>2, <1>3, <1>4, <1>5, StepKinds

\* The initial state has nothing on its lines.
LEMMA InitFill == Init => FillInv
<1> SUFFICES ASSUME Init PROVE FillInv
  OBVIOUS
<1>1. LineInv
  BY InitLines
<1>2. Len(page.characters) = 0 /\ Len(page.buffer) = 0
  BY DEF Init, NewPage
<1>3. applied \in Sizes /\ state.pitch \in AllPitches
  <2>1. BuiltIn \in Defaults \cup {BuiltIn}
    OBVIOUS
  <2> QED BY <2>1, DefaultsMild DEF Init, Sizes
<1> QED BY <1>1, <1>2, <1>3 DEF FillInv, MildInv, Inside, Filled

LEMMA FillAlways ==
  ASSUME PitchesAreMild
  PROVE  Spec => []FillInv
<1>1. Init => FillInv
  BY InitFill
<1>2. FillInv /\ [Next]_vars => FillInv'
  BY NextOrder, NextTypes, NextLines, NextFill DEF FillInv, LineInv, OrderInv
<1> QED BY <1>1, <1>2, PTL DEF Spec

\* The characters of a line stand one after the other, inside the box, except
\* one that is alone too wide, for every text, box, font and sequence of calls,
\* if no pitch takes back more than a character.
THEOREM LinesInsideBox ==
  ASSUME PitchesAreMild
  PROVE  Spec => []InsideBox
<1>1. ASSUME NEW s \in Seq(Character), s = page.characters, Inside(s) PROVE InsideBox
  <2>1. Len(s) \in Nat /\ DOMAIN s = 1 .. Len(s)
    BY Numbers
  <2> QED BY <1>1, <2>1 DEF Inside, InsideBox, OnSameLine, placed
<1>2. FillInv => InsideBox
  <2> SUFFICES ASSUME FillInv PROVE InsideBox
    OBVIOUS
  <2>1. page.characters \in Seq(Character) /\ Inside(page.characters)
    BY DEF FillInv, LineInv, OrderInv, TypeInv, Pages
  <2> QED BY <1>1, <2>1
<1> QED BY <1>2, FillAlways, PTL

\* A line is only broken where the text breaks or where the next group would
\* not have fitted, for every text, box, font and sequence of calls, if no
\* pitch takes back more than a character.
THEOREM LinesFilled ==
  ASSUME PitchesAreMild
  PROVE  Spec => []LinesAreFilled
<1>1. FillInv => LinesAreFilled
  BY DEF FillInv, Filled, LinesAreFilled, OnSameLine, placed
<1> QED BY <1>1, FillAlways, PTL
=============================================================================
