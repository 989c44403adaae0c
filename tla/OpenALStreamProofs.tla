------------------------- MODULE OpenALStreamProofs -------------------------
(***************************************************************************)
(* Proofs about the device of one sound (OpenALStream).                    *)
(*                                                                         *)
(* What a thread has still to do is a sequence of steps, of which the      *)
(* proofs ask only which steps come before which others (Before): a call   *)
(* that will release BufferCS holds it, one that will call "refill" and    *)
(* not "reset" any more has reset the device, and so on.  BeforePush gives *)
(* these answers for a sequence from those for what is left after its      *)
(* first step, so that every action is judged by its first step alone.     *)
(*                                                                         *)
(* Then every action keeps the types (NextTypes) and, as long as           *)
(* SetBufferPaused has not called the device from outside BufferCS, the    *)
(* invariant Inv (the lemmas ...Keeps, one for each action); from it       *)
(* follow the properties of the module.                                    *)
(***************************************************************************)
EXTENDS OpenALStream, SequenceTheorems, TLAPS

-----------------------------------------------------------------------------
(* The steps a thread still has to do.                                      *)

\* A step of X comes, and no step of Y before it.
Before(s, X, Y) == \E i \in 1 .. Len(s) : s[i] \in X /\ \A j \in 1 .. i : s[j] \notin Y

\* The next step.
Lead(s) == IF s = <<>> THEN "end" ELSE Head(s)

\* The call still has to release BufferCS, which it holds.
Locked(s) == Before(s, {"unlock", "go", "refill"}, {"lock"})

\* StopPlay is over, as far as the flags of the sound go, and StartPlay has
\* not set them again.
Halted(s) == Before(s, {"unlock", "refill"}, {"stopped"})

\* StartPlay has reset the device and has not filled it.
ResetDone(s) == Before(s, {"refill"}, {"reset"})

\* StartPlay has given the device its first unit, or has none.
FirstGiven(s) == Before(s, {"go"}, {"take", "append", "queue"})

\* StartPlay has set _playing, unless the sound is paused.
PlayDone(s) == Before(s, {"go"}, {"play"})

\* FillBuffer is about to give a unit to a device that plays.
Feeding(s) == Before(s, {"check", "take", "append", "queue"}, {"play"})

\* FillBuffer has found a sound that plays.
Filling(s) == Before(s, {"play", "check", "take"}, {})

\* FillBuffer has stopped the device and not yet said so.
Silencing(s) == Before(s, {"silent", "stopped"}, {"pause"})

\* A unit has been taken from the ring and is not yet queued.
Carrying(s) == Before(s, {"queue"}, {})

\* A call of the main thread, and one of the playing thread.
OfMain(s) == ~Before(s, {"pause", "silent", "serve", "fill", "check", "restore"}, {})
OfPlayer(s) == ~Before(s, {"stop", "reset", "refill", "go", "quiet"}, {})

\* StartPlay does all this while it holds BufferCS.
Within(s) == ResetDone(s) \/ FirstGiven(s) \/ PlayDone(s) => Locked(s)

\* What may be left after the step a.
Fits(a, r) ==
  /\ a = "ensure" <=> Lead(r) = "act"
  /\ a = "append" <=> Lead(r) = "queue"
  /\ a \in {"queue", "play", "pause", "stop", "reset"} => Lead(r) = "ensure"
  /\ Lead(r) = "refill" => a = "act"
  /\ Lead(r) \notin {"append", "take"}
  /\ a \in {"lock", "stop", "stopped", "reset", "take", "append", "queue", "play",
            "pause", "fill", "check", "silent"} => Locked(r)
  /\ a \in {"unlock", "go"} => ~Locked(r)
  /\ a \in {"unlock", "fill"} => ~Silencing(r)
  /\ a = "stopped" => ~Filling(r)
  /\ a \in {"lock", "fill", "check"} => ~Filling(r) /\ ~Feeding(r)
  /\ a = "pause" => ~Feeding(r) /\ Silencing(r)
  /\ a \in {"stop", "reset"} => ~PlayDone(r) /\ ~FirstGiven(r)
  /\ a \in {"take", "append", "queue", "play"} => ~ResetDone(r)
  /\ a = "play" => FirstGiven(r) \/ ~OfMain(r)
  /\ a = "restore" => Lead(r) \in {"end", "serve"}
  /\ a \in {"serve", "refill", "go"} => r = <<>>
  /\ a = "unlock" => Lead(r) \in {"end", "lock"} \/ ~OfPlayer(r)
  /\ Within(r)

\* Every step fits to those after it.
Formed(s) == \A i \in 1 .. Len(s) : Fits(s[i], SubSeq(s, i + 1, Len(s)))

\* What the two threads still have to do.
M == todo["main"]
P == todo["player"]

-----------------------------------------------------------------------------
(* The invariant.                                                           *)

\* The buffers in the queue; a unit on its way there, before and after processed
\* buffers are taken back; a decoder that has nothing more to give.
Queued == 1 .. Len(source.queue)
Carried == Lead(M) \in {"append", "queue"} \/ Lead(P) \in {"append", "queue"}
Queueing == Lead(M) = "queue" \/ Lead(P) = "queue"
Exhausted == ring.ended /\ ring.units = 0

\* The calls hold the locks they are to release, and what a call has read of the
\* source is still so, unless the source has stopped by itself.
CallInv ==
  /\ OfMain(M) /\ OfPlayer(P)
  /\ Formed(M) /\ Formed(P) /\ Within(M)
  /\ bufferCS = "main" <=> Locked(M)
  /\ bufferCS = "player" <=> Locked(P)
  /\ bufferCS # "player" => Lead(P) \in {"end", "restore", "serve", "lock"}
  /\ \A t \in Threads : Lead(todo[t]) \in {"act", "queue"} => mtx = t
  /\ \A t \in Threads : Lead(todo[t]) = "act" =>
        \/ seen[t] = source.state
        \/ seen[t] = "playing" /\ source.state = "stopped" /\ heard.dry
  /\ P # <<>> => primary
  /\ primary => program
  /\ Carried => heard.primed

\* What StopPlay and StartPlay have done to the device while they hold BufferCS.
MainInv ==
  /\ Halted(M) => ~sound.buffer /\ ~sound.device
  /\ ResetDone(M) => index = -1 /\ ~playing /\ ~sent
  /\ Lead(M) \in {"take", "append", "queue"} => index = -1 /\ ~playing /\ primary
  /\ Lead(M) \in {"refill", "take", "append"} =>
       source.state = "stopped" \/ source.queue = <<>>
  /\ Lead(M) = "take" => ~heard.primed
  /\ FirstGiven(M) /\ heard.primed => index # -1
  /\ PlayDone(M) /\ ~sound.paused => playing

\* What FillBuffer has found is still so; a device that is said to play does.
PlayerInv ==
  /\ bufferCS = "player" /\ Filling(P) => sound.buffer
  /\ bufferCS = "player" /\ Feeding(P) => playing
  /\ sound.device => playing \/ bufferCS = "main" \/ (bufferCS = "player" /\ Silencing(P))

\* Before its first unit a started sound has no buffers to be played, but those
\* of before its start that are about to be taken back.
UnprimedInv ==
  /\ ~primary => source.queue = <<>> /\ ~heard.primed
  /\ ~heard.primed => index = -1
  /\ ~heard.primed => Exhausted
       \/ (heard.last = given /\ (source.queue = <<>> \/ Lead(M) = "take"))

\* The first buffer after a start or a stop: no other is in the queue when it is
\* queued.
FirstInv ==
  /\ index = -1 /\ heard.primed => ~sound.buffer \/ bufferCS = "main" \/ Lead(P) \in {"append", "queue"}
  /\ index = -1 /\ heard.primed /\ playing => source.queue = <<>>
  /\ index = -1 /\ (Queueing \/ Lead(P) = "append") => source.queue = <<>>
  /\ index = -1 /\ Carried => heard.last = given - 1

\* The number of a buffer, counted backwards from another one.
Numbered(b) == IF b >= 0 THEN b ELSE b + Buffers

\* The buffers in the queue are the ones numbered last.
BufferInv ==
  /\ index # -1 => source.queue # <<>> \/ Queueing
  /\ index # -1 => \A i \in Queued :
       source.queue[i].buffer = Numbered(index - (Len(source.queue) - i))

\* A source that has not run dry is not found stopped, but while EnsurePlayState
\* is about to start it.
StartedInv ==
  index # -1 /\ ~heard.dry =>
    /\ source.state = "stopped" =>
         /\ source.done = 0
         /\ ~playing \/ \E t \in Threads : bufferCS = t /\ Lead(todo[t]) \in {"ensure", "act"}
    /\ Lead(P) = "append" => source.done > 0 \/ Len(source.queue) < Buffers
    /\ Lead(P) = "queue" => Len(source.queue) < Buffers

\* The last unit that was queued.
Base == IF Carried THEN given - 1 ELSE given

\* The units in the queue are the last ones, and what was heard comes before
\* those that are not yet processed.
OrderInv ==
  /\ (heard.primed /\ ~heard.dry /\ (index # -1 \/ source.state = "playing")) =>
       /\ \A i \in Queued : source.queue[i].unit = Base - (Len(source.queue) - i)
       /\ heard.last = Base - (Len(source.queue) - source.done)
  /\ heard.dry /\ ~heard.early => Exhausted /\ heard.last = given

\* All of it.
Inv ==
  CallInv /\ MainInv /\ PlayerInv /\ UnprimedInv /\ FirstInv /\ BufferInv
    /\ StartedInv /\ OrderInv

-----------------------------------------------------------------------------
(* Steps that are put before others.                                        *)

\* What a sequence is that begins with a.
LEMMA Push ==
  ASSUME NEW S, NEW a \in S, NEW r \in Seq(S)
  PROVE  /\ <<a>> \o r \in Seq(S) /\ <<a>> \o r # <<>>
         /\ Head(<<a>> \o r) = a /\ Tail(<<a>> \o r) = r
         /\ Len(<<a>> \o r) = Len(r) + 1
         /\ (<<a>> \o r)[1] = a
         /\ \A i \in 1 .. Len(r) : (<<a>> \o r)[i + 1] = r[i]
<1>1. <<a>> \in Seq(S)
  OBVIOUS
<1> QED BY <1>1

\* A sequence is its first element and the others.
LEMMA Pop ==
  ASSUME NEW S, NEW s \in Seq(S), s # <<>>
  PROVE  /\ Head(s) \in S /\ Tail(s) \in Seq(S)
         /\ s = <<Head(s)>> \o Tail(s)
<1>1. Head(s) \in S /\ Tail(s) \in Seq(S) /\ Len(s) \in Nat /\ Len(s) >= 1
      /\ Len(Tail(s)) = Len(s) - 1 /\ Head(s) = s[1]
      /\ \A i \in 1 .. Len(Tail(s)) : Tail(s)[i] = s[i + 1]
  OBVIOUS
<1> DEFINE u == <<Head(s)>> \o Tail(s)
<1>2. u \in Seq(S) /\ Len(u) = Len(s) /\ u[1] = s[1]
      /\ \A i \in 1 .. Len(s) - 1 : u[i + 1] = s[i + 1]
  BY <1>1, Push
<1>3. \A i \in 1 .. Len(s) : s[i] = u[i]
  <2> SUFFICES ASSUME NEW i \in 1 .. Len(s) PROVE s[i] = u[i]
    OBVIOUS
  <2> HIDE DEF u
  <2>1. CASE i = 1
    BY <2>1, <1>2
  <2>2. CASE i # 1
    <3>1. i - 1 \in 1 .. Len(s) - 1 /\ (i - 1) + 1 = i
      BY <2>2, <1>1
    <3> QED BY <3>1, <1>2
  <2> QED BY <2>1, <2>2
<1> HIDE DEF u
<1>4. s = u
  BY <1>2, <1>3, SeqEqual
<1> QED BY <1>1, <1>4 DEF u

\* What comes before what in a sequence that begins with a.
LEMMA BeforePush ==
  ASSUME NEW S, NEW a \in S, NEW r \in Seq(S), NEW X, NEW Y
  PROVE  Before(<<a>> \o r, X, Y) <=> a \notin Y /\ (a \in X \/ Before(r, X, Y))
<1> DEFINE s == <<a>> \o r
<1>1. /\ Len(s) = Len(r) + 1 /\ Len(r) \in Nat /\ s[1] = a
      /\ \A i \in 1 .. Len(r) : s[i + 1] = r[i]
  BY Push
<1> HIDE DEF s
<1>2. ASSUME Before(s, X, Y) PROVE a \notin Y /\ (a \in X \/ Before(r, X, Y))
  <2>1. PICK i \in 1 .. Len(s) : s[i] \in X /\ \A j \in 1 .. i : s[j] \notin Y
    BY <1>2 DEF Before
  <2>2. a \notin Y
    BY <2>1, <1>1
  <2>3. CASE i = 1
    BY <2>1, <2>2, <2>3, <1>1
  <2>4. CASE i # 1
    <3>1. i - 1 \in 1 .. Len(r) /\ (i - 1) + 1 = i
      BY <2>4, <1>1
    <3>2. r[i - 1] \in X
      BY <3>1, <2>1, <1>1
    <3>3. ASSUME NEW j \in 1 .. (i - 1) PROVE r[j] \notin Y
      <4>1. j \in 1 .. Len(r) /\ j + 1 \in 1 .. i
        BY <3>1
      <4> QED BY <4>1, <1>1, <2>1
    <3>4. Before(r, X, Y)
      BY <3>1, <3>2, <3>3 DEF Before
    <3> QED BY <3>4, <2>2
  <2> QED BY <2>3, <2>4
<1>3. ASSUME a \notin Y, a \in X PROVE Before(s, X, Y)
  <2>1. 1 \in 1 .. Len(s) /\ s[1] \in X /\ \A j \in 1 .. 1 : s[j] \notin Y
    BY <1>1, <1>3
  <2> QED BY <2>1 DEF Before
<1>4. ASSUME a \notin Y, Before(r, X, Y) PROVE Before(s, X, Y)
  <2>1. PICK i \in 1 .. Len(r) : r[i] \in X /\ \A j \in 1 .. i : r[j] \notin Y
    BY <1>4 DEF Before
  <2>2. i + 1 \in 1 .. Len(s) /\ s[i + 1] \in X
    BY <2>1, <1>1
  <2>3. ASSUME NEW j \in 1 .. (i + 1) PROVE s[j] \notin Y
    <3>1. CASE j = 1
      BY <3>1, <1>1, <1>4
    <3>2. CASE j # 1
      <4>1. j - 1 \in 1 .. i /\ j - 1 \in 1 .. Len(r) /\ (j - 1) + 1 = j
        BY <3>2, <1>1
      <4> QED BY <4>1, <1>1, <2>1
    <3> QED BY <3>1, <3>2
  <2> QED BY <2>2, <2>3 DEF Before
<1> QED BY <1>2, <1>3, <1>4 DEF s

\* Nothing comes in an empty sequence.
LEMMA BeforeEmpty == ASSUME NEW X, NEW Y PROVE ~Before(<<>>, X, Y)
  BY DEF Before

\* Each step of a sequence that begins with a fits to what is left after it.
LEMMA FormedPush ==
  ASSUME NEW S, NEW a \in S, NEW r \in Seq(S)
  PROVE  Formed(<<a>> \o r) <=> Fits(a, r) /\ Formed(r)
<1> DEFINE s == <<a>> \o r
<1>1. /\ s \in Seq(S) /\ Len(s) = Len(r) + 1 /\ Len(r) \in Nat /\ s[1] = a
      /\ \A i \in 1 .. Len(r) : s[i + 1] = r[i]
  BY Push
<1> HIDE DEF s
<1>2. ASSUME NEW i \in 0 .. Len(r)
      PROVE  SubSeq(s, i + 2, Len(s)) = SubSeq(r, i + 1, Len(r))
  <2> DEFINE u == SubSeq(s, i + 2, Len(s))
             v == SubSeq(r, i + 1, Len(r))
  <2>0. /\ \A j \in i + 2 .. Len(s) : s[j] \in S
        /\ \A j \in i + 1 .. Len(r) : r[j] \in S
    BY <1>1
  <2>1. u \in Seq(S) /\ Len(u) = Len(r) - i
        /\ \A j \in 1 .. Len(s) - (i + 2) + 1 : u[j] = s[i + 2 + j - 1]
    BY <1>1, <1>2, <2>0, SubSeqProperties
  <2>2. v \in Seq(S) /\ Len(v) = Len(r) - i
        /\ \A j \in 1 .. Len(r) - (i + 1) + 1 : v[j] = r[i + 1 + j - 1]
    BY <1>1, <1>2, <2>0, SubSeqProperties
  <2> HIDE DEF u, v
  <2>3. ASSUME NEW j \in 1 .. Len(u) PROVE u[j] = v[j]
    <3>1. i + j \in 1 .. Len(r) /\ i + 2 + j - 1 = (i + j) + 1 /\ i + 1 + j - 1 = i + j
          /\ j \in 1 .. Len(s) - (i + 2) + 1 /\ j \in 1 .. Len(r) - (i + 1) + 1
      BY <2>1, <1>1, <1>2
    <3> QED BY <3>1, <2>1, <2>2, <1>1
  <2>4. u = v
    BY <2>1, <2>2, <2>3, SeqEqual
  <2> QED BY <2>4 DEF u, v
<1>3. SubSeq(s, 2, Len(s)) = r
  <2>1. SubSeq(s, 0 + 2, Len(s)) = SubSeq(r, 0 + 1, Len(r))
    BY <1>1, <1>2
  <2>2. SubSeq(r, 1, Len(r)) = r
    OBVIOUS
  <2> QED BY <2>1, <2>2
<1>4. ASSUME Formed(s) PROVE Fits(a, r) /\ Formed(r)
  <2>1. Fits(a, r)
    <3>1. 1 \in 1 .. Len(s) /\ 1 + 1 = 2
      BY <1>1
    <3>2. Fits(s[1], SubSeq(s, 1 + 1, Len(s)))
      BY <3>1, <1>4 DEF Formed
    <3> QED BY <3>1, <3>2, <1>1, <1>3
  <2>2. ASSUME NEW i \in 1 .. Len(r) PROVE Fits(r[i], SubSeq(r, i + 1, Len(r)))
    <3>1. i + 1 \in 1 .. Len(s) /\ s[i + 1] = r[i] /\ (i + 1) + 1 = i + 2
          /\ i \in 0 .. Len(r)
      BY <1>1
    <3>2. Fits(s[i + 1], SubSeq(s, (i + 1) + 1, Len(s)))
      BY <3>1, <1>4 DEF Formed
    <3>3. SubSeq(s, i + 2, Len(s)) = SubSeq(r, i + 1, Len(r))
      BY <3>1, <1>2
    <3> QED BY <3>1, <3>2, <3>3
  <2> QED BY <2>1, <2>2 DEF Formed
<1>5. ASSUME Fits(a, r), Formed(r) PROVE Formed(s)
  <2> SUFFICES ASSUME NEW i \in 1 .. Len(s) PROVE Fits(s[i], SubSeq(s, i + 1, Len(s)))
    BY DEF Formed
  <2>1. CASE i = 1
    <3>1. i + 1 = 2 /\ s[i] = a
      BY <2>1, <1>1
    <3> QED BY <3>1, <1>3, <1>5
  <2>2. CASE i # 1
    <3> DEFINE k == i - 1
    <3>1. k \in 1 .. Len(r) /\ k \in 0 .. Len(r) /\ i = k + 1 /\ i + 1 = k + 2
      BY <2>2, <1>1
    <3> HIDE DEF k
    <3>2. Fits(r[k], SubSeq(r, k + 1, Len(r)))
      BY <3>1, <1>5 DEF Formed
    <3>3. s[k + 1] = r[k] /\ SubSeq(s, k + 2, Len(s)) = SubSeq(r, k + 1, Len(r))
      BY <3>1, <1>1, <1>2
    <3> QED BY <3>1, <3>2, <3>3
  <2> QED BY <2>1, <2>2
<1> QED BY <1>4, <1>5 DEF s

\* What is said of a call s whose first step is a, and r after it.
Said(s, a, r) ==
  /\ s \in Seq(Steps) /\ r \in Seq(Steps) /\ s # <<>> /\ Lead(s) = a
  /\ Head(s) = a /\ Tail(s) = r
  /\ Locked(s) <=> a # "lock" /\ (a \in {"unlock", "go", "refill"} \/ Locked(r))
  /\ Halted(s) <=> a # "stopped" /\ (a \in {"unlock", "refill"} \/ Halted(r))
  /\ ResetDone(s) <=> a # "reset" /\ (a = "refill" \/ ResetDone(r))
  /\ FirstGiven(s) <=> a \notin {"take", "append", "queue"} /\ (a = "go" \/ FirstGiven(r))
  /\ PlayDone(s) <=> a # "play" /\ (a = "go" \/ PlayDone(r))
  /\ Feeding(s) <=> a # "play" /\ (a \in {"check", "take", "append", "queue"} \/ Feeding(r))
  /\ Filling(s) <=> a \in {"play", "check", "take"} \/ Filling(r)
  /\ Silencing(s) <=> a # "pause" /\ (a \in {"silent", "stopped"} \/ Silencing(r))
  /\ Carrying(s) <=> a = "queue" \/ Carrying(r)
  /\ OfMain(s) <=>
       a \notin {"pause", "silent", "serve", "fill", "check", "restore"} /\ OfMain(r)
  /\ OfPlayer(s) <=> a \notin {"stop", "reset", "refill", "go", "quiet"} /\ OfPlayer(r)
  /\ Formed(s) <=> Fits(a, r) /\ Formed(r)

\* It is so of every call that begins with a.
LEMMA Begins ==
  ASSUME NEW a \in Steps, NEW r \in Seq(Steps)
  PROVE  Said(<<a>> \o r, a, r)
<1> DEFINE s == <<a>> \o r
<1>1. s \in Seq(Steps) /\ s # <<>> /\ Lead(s) = a /\ Tail(s) = r /\ Head(s) = a
  BY Push DEF Lead
<1>2. Formed(s) <=> Fits(a, r) /\ Formed(r)
  BY FormedPush
<1>3. /\ Before(s, {"unlock", "go", "refill"}, {"lock"}) <=>
           a \notin {"lock"} /\ (a \in {"unlock", "go", "refill"} \/ Before(r, {"unlock", "go", "refill"}, {"lock"}))
      /\ Before(s, {"unlock", "refill"}, {"stopped"}) <=>
           a \notin {"stopped"} /\ (a \in {"unlock", "refill"} \/ Before(r, {"unlock", "refill"}, {"stopped"}))
      /\ Before(s, {"refill"}, {"reset"}) <=>
           a \notin {"reset"} /\ (a \in {"refill"} \/ Before(r, {"refill"}, {"reset"}))
      /\ Before(s, {"go"}, {"take", "append", "queue"}) <=>
           a \notin {"take", "append", "queue"} /\ (a \in {"go"} \/ Before(r, {"go"}, {"take", "append", "queue"}))
      /\ Before(s, {"go"}, {"play"}) <=>
           a \notin {"play"} /\ (a \in {"go"} \/ Before(r, {"go"}, {"play"}))
  BY BeforePush
<1>4. /\ Before(s, {"check", "take", "append", "queue"}, {"play"}) <=>
           a \notin {"play"} /\ (a \in {"check", "take", "append", "queue"}
                                   \/ Before(r, {"check", "take", "append", "queue"}, {"play"}))
      /\ Before(s, {"play", "check", "take"}, {}) <=>
           a \notin {} /\ (a \in {"play", "check", "take"} \/ Before(r, {"play", "check", "take"}, {}))
      /\ Before(s, {"silent", "stopped"}, {"pause"}) <=>
           a \notin {"pause"} /\ (a \in {"silent", "stopped"} \/ Before(r, {"silent", "stopped"}, {"pause"}))
      /\ Before(s, {"queue"}, {}) <=> a \notin {} /\ (a \in {"queue"} \/ Before(r, {"queue"}, {}))
  BY BeforePush
<1>8. /\ Before(s, {"pause", "silent", "serve", "fill", "check", "restore"}, {}) <=>
           a \notin {} /\ (a \in {"pause", "silent", "serve", "fill", "check", "restore"}
                \/ Before(r, {"pause", "silent", "serve", "fill", "check", "restore"}, {}))
      /\ Before(s, {"stop", "reset", "refill", "go", "quiet"}, {}) <=>
           a \notin {} /\ (a \in {"stop", "reset", "refill", "go", "quiet"}
                               \/ Before(r, {"stop", "reset", "refill", "go", "quiet"}, {}))
  BY BeforePush
<1> HIDE DEF s
<1>5. /\ Locked(s) <=> a # "lock" /\ (a \in {"unlock", "go", "refill"} \/ Locked(r))
      /\ Halted(s) <=> a # "stopped" /\ (a \in {"unlock", "refill"} \/ Halted(r))
      /\ ResetDone(s) <=> a # "reset" /\ (a = "refill" \/ ResetDone(r))
      /\ FirstGiven(s) <=> a \notin {"take", "append", "queue"} /\ (a = "go" \/ FirstGiven(r))
      /\ PlayDone(s) <=> a # "play" /\ (a = "go" \/ PlayDone(r))
  BY <1>3 DEF Locked, Halted, ResetDone, FirstGiven, PlayDone
<1>6. /\ Feeding(s) <=> a # "play" /\ (a \in {"check", "take", "append", "queue"} \/ Feeding(r))
      /\ Filling(s) <=> a \in {"play", "check", "take"} \/ Filling(r)
      /\ Silencing(s) <=> a # "pause" /\ (a \in {"silent", "stopped"} \/ Silencing(r))
      /\ Carrying(s) <=> a = "queue" \/ Carrying(r)
  BY <1>4 DEF Feeding, Filling, Silencing, Carrying
<1>9. /\ OfMain(s) <=>
           a \notin {"pause", "silent", "serve", "fill", "check", "restore"} /\ OfMain(r)
      /\ OfPlayer(s) <=> a \notin {"stop", "reset", "refill", "go", "quiet"} /\ OfPlayer(r)
  BY <1>8 DEF OfMain, OfPlayer
<1>7. Said(s, a, r)
  BY <1>1, <1>2, <1>5, <1>6, <1>9 DEF Said
<1> QED BY <1>7 DEF s

\* Every call that is not over begins with a step.
LEMMA Leads ==
  ASSUME NEW s \in Seq(Steps), s # <<>>
  PROVE  Lead(s) \in Steps /\ Said(s, Lead(s), Tail(s))
<1>1. Lead(s) = Head(s) /\ Head(s) \in Steps /\ Tail(s) \in Seq(Steps)
      /\ s = <<Head(s)>> \o Tail(s)
  BY Pop DEF Lead
<1>2. Said(<<Head(s)>> \o Tail(s), Head(s), Tail(s))
  BY <1>1, Begins
<1> QED BY <1>1, <1>2

\* What they say of an empty call.
LEMMA Nothing ==
  /\ Lead(<<>>) = "end" /\ Formed(<<>>) /\ ~Locked(<<>>) /\ ~Halted(<<>>) /\ ~ResetDone(<<>>)
  /\ ~FirstGiven(<<>>) /\ ~PlayDone(<<>>) /\ ~Feeding(<<>>) /\ ~Filling(<<>>)
  /\ ~Silencing(<<>>) /\ ~Carrying(<<>>) /\ OfMain(<<>>) /\ OfPlayer(<<>>)
  BY BeforeEmpty DEF Lead, Formed, Locked, Halted, ResetDone, FirstGiven, PlayDone,
                     Feeding, Filling, Silencing, Carrying, OfMain, OfPlayer

-----------------------------------------------------------------------------
(* The calls, step by step.                                                 *)

\* Steps that are put before others one by one.
LEMMA Pushes ==
  ASSUME NEW r \in Seq(Steps)
  PROVE  /\ \A a \in Steps : <<a>> \o r \in Seq(Steps)
         /\ \A a, b \in Steps : <<a, b>> \o r = <<a>> \o (<<b>> \o r)
         /\ \A a, b, c \in Steps : <<a, b, c>> \o r = <<a>> \o (<<b>> \o (<<c>> \o r))
<1>1. \A a \in Steps : <<a>> \o r \in Seq(Steps)
  BY Push
<1>2. ASSUME NEW a \in Steps, NEW b \in Steps
      PROVE  <<a, b>> \o r = <<a>> \o (<<b>> \o r)
  <2>1. <<a, b>> \in Seq(Steps) /\ <<a, b>> # <<>> /\ Head(<<a, b>>) = a
        /\ Tail(<<a, b>>) = <<b>> /\ <<a>> \in Seq(Steps) /\ <<b>> \in Seq(Steps)
    OBVIOUS
  <2>2. <<a, b>> = <<Head(<<a, b>>)>> \o Tail(<<a, b>>)
    BY ONLY <2>1, Pop
  <2>3. <<a, b>> = <<a>> \o <<b>>
    BY <2>1, <2>2
  <2>4. (<<a>> \o <<b>>) \o r = <<a>> \o (<<b>> \o r)
    BY <2>1, ConcatAssociative
  <2> QED BY <2>3, <2>4
<1>3. ASSUME NEW a \in Steps, NEW b \in Steps, NEW c \in Steps
      PROVE  <<a, b, c>> \o r = <<a>> \o (<<b>> \o (<<c>> \o r))
  <2>1. <<a, b, c>> \in Seq(Steps) /\ <<a, b, c>> # <<>> /\ Head(<<a, b, c>>) = a
        /\ Tail(<<a, b, c>>) = <<b, c>> /\ <<a>> \in Seq(Steps) /\ <<b, c>> \in Seq(Steps)
    OBVIOUS
  <2>2. <<a, b, c>> = <<Head(<<a, b, c>>)>> \o Tail(<<a, b, c>>)
    BY ONLY <2>1, Pop
  <2>3. <<a, b, c>> = <<a>> \o <<b, c>>
    BY <2>1, <2>2
  <2>4. (<<a>> \o <<b, c>>) \o r = <<a>> \o (<<b, c>> \o r)
    BY <2>1, ConcatAssociative
  <2> QED BY <2>3, <2>4, <1>2
<1> QED BY <1>1, <1>2, <1>3

\* EnsurePlayState before other steps.
EnsureThen(r) == <<"ensure">> \o (<<"act">> \o r)

\* The same as the model writes it.
LEMMA EnsureIs ==
  ASSUME NEW r \in Seq(Steps)
  PROVE  /\ Ensure \o r = EnsureThen(r) /\ EnsureThen(r) \in Seq(Steps)
         /\ Ensure \in Seq(Steps) /\ Ensure = EnsureThen(<<>>)
<1>1. "ensure" \in Steps /\ "act" \in Steps /\ <<>> \in Seq(Steps)
  BY DEF Steps
<1>2. Ensure \o r = EnsureThen(r) /\ Ensure \o <<>> = EnsureThen(<<>>)
  BY <1>1, Pushes DEF Ensure, EnsureThen
<1>3. Ensure \in Seq(Steps)
  BY <1>1 DEF Ensure
<1>4. Ensure \o <<>> = Ensure
  BY <1>3, ConcatEmptySeq
<1>5. EnsureThen(r) \in Seq(Steps)
  BY <1>1, Push DEF EnsureThen
<1> QED BY <1>2, <1>3, <1>4, <1>5

\* What a step of a call puts before the others.
LEMMA CallsAre ==
  ASSUME NEW r \in Seq(Steps)
  PROVE  /\ (<<"play">> \o Ensure) \o r = <<"play">> \o EnsureThen(r)
         /\ (<<"append", "queue">> \o Ensure) \o r = <<"append">> \o (<<"queue">> \o EnsureThen(r))
         /\ ((<<"pause">> \o Ensure) \o <<"silent">>) \o r
              = <<"pause">> \o EnsureThen(<<"silent">> \o r)
         /\ ((<<"pause">> \o Ensure) \o <<"stopped">>) \o r
              = <<"pause">> \o EnsureThen(<<"stopped">> \o r)
         /\ ((<<"play">> \o Ensure) \o <<"check">>) \o r
              = <<"play">> \o EnsureThen(<<"check">> \o r)
         /\ (<<>> \o <<"check">>) \o r = <<"check">> \o r
<1>1. /\ <<"play">> \in Seq(Steps) /\ <<"append", "queue">> \in Seq(Steps)
      /\ <<"pause">> \in Seq(Steps) /\ <<"silent">> \in Seq(Steps)
      /\ <<"stopped">> \in Seq(Steps) /\ <<"check">> \in Seq(Steps)
      /\ "append" \in Steps /\ "queue" \in Steps
  BY DEF Steps
<1>2. Ensure \in Seq(Steps)
  BY EnsureIs
<1>3. \A s, t \in Seq(Steps) : s \o t \in Seq(Steps)
  BY ConcatProperties
<1>4. \A s, t, u \in Seq(Steps) : (s \o t) \o u = s \o (t \o u)
  BY ConcatAssociative
<1>5. \A u \in Seq(Steps) : Ensure \o u = EnsureThen(u) /\ EnsureThen(u) \in Seq(Steps)
  BY EnsureIs
<1> HIDE DEF Ensure
<1>0. ASSUME NEW s \in Seq(Steps), NEW t \in Seq(Steps)
      PROVE  (s \o Ensure) \o t = s \o EnsureThen(t)
  <2>1. (s \o Ensure) \o t = s \o (Ensure \o t)
    BY <1>2, <1>4
  <2>2. Ensure \o t = EnsureThen(t)
    BY <1>5
  <2> QED BY <2>1, <2>2
<1>6. (<<"play">> \o Ensure) \o r = <<"play">> \o EnsureThen(r)
  BY <1>0, <1>1
<1>7. (<<"append", "queue">> \o Ensure) \o r = <<"append">> \o (<<"queue">> \o EnsureThen(r))
  <2>1. (<<"append", "queue">> \o Ensure) \o r = <<"append", "queue">> \o EnsureThen(r)
    BY <1>0, <1>1
  <2>2. <<"append", "queue">> \o EnsureThen(r) = <<"append">> \o (<<"queue">> \o EnsureThen(r))
    BY <1>1, <1>5, Pushes, ZenonT(60)
  <2> QED BY <2>1, <2>2
<1>8. ASSUME NEW s \in Seq(Steps), NEW t \in Seq(Steps)
      PROVE  ((s \o Ensure) \o t) \o r = s \o EnsureThen(t \o r)
  <2>1. ((s \o Ensure) \o t) \o r = (s \o Ensure) \o (t \o r)
    BY <1>2, <1>3, <1>4
  <2>2. (s \o Ensure) \o (t \o r) = s \o (Ensure \o (t \o r))
    BY <1>2, <1>3, <1>4, SMTT(40)
  <2>3. Ensure \o (t \o r) = EnsureThen(t \o r)
    BY <1>3, <1>5
  <2> QED BY <2>1, <2>2, <2>3
<1>9. <<>> \o <<"check">> = <<"check">>
  BY <1>1, ConcatEmptySeq
<1> QED BY <1>1, <1>6, <1>7, <1>8, <1>9

\* StopPlay before other steps, and StartPlay.
StopThen(r) ==
  <<"lock">> \o (<<"stop">> \o EnsureThen(<<"stopped">> \o (<<"unlock">> \o r)))
StartSteps ==
  <<"lock">> \o EnsureThen(<<"reset">> \o EnsureThen(<<"refill">> \o <<>>))

\* The same as the model writes them.
LEMMA StopAndStart ==
  /\ StopPlay \o StartPlay = StopThen(StartSteps)
  /\ StopPlay \o <<"quiet">> = StopThen(<<"quiet">> \o <<>>)
<1>1. /\ <<"lock", "stop">> \in Seq(Steps) /\ <<"stopped", "unlock">> \in Seq(Steps)
      /\ <<"lock">> \in Seq(Steps) /\ <<"reset">> \in Seq(Steps) /\ <<"refill">> \in Seq(Steps)
      /\ <<"quiet">> \in Seq(Steps) /\ <<>> \in Seq(Steps)
      /\ "lock" \in Steps /\ "stop" \in Steps /\ "stopped" \in Steps /\ "unlock" \in Steps
  BY DEF Steps
<1>2. Ensure \in Seq(Steps)
  BY EnsureIs, <1>1
<1>3. \A s, t \in Seq(Steps) : s \o t \in Seq(Steps)
  BY ConcatProperties
<1>4. \A s, t, u \in Seq(Steps) : (s \o t) \o u = s \o (t \o u)
  BY ConcatAssociative
<1>5. \A u \in Seq(Steps) : Ensure \o u = EnsureThen(u) /\ EnsureThen(u) \in Seq(Steps)
  BY EnsureIs
<1>6. \A u \in Seq(Steps) : u \o <<>> = u
  BY ConcatEmptySeq
<1> HIDE DEF Ensure
<1>0. ASSUME NEW s \in Seq(Steps), NEW t \in Seq(Steps)
      PROVE  (s \o Ensure) \o t = s \o EnsureThen(t)
  <2>1. (s \o Ensure) \o t = s \o (Ensure \o t)
    BY <1>2, <1>4
  <2>2. Ensure \o t = EnsureThen(t)
    BY <1>5
  <2> QED BY <2>1, <2>2
<1>7. ASSUME NEW r \in Seq(Steps) PROVE StopPlay \o r = StopThen(r)
  <2> DEFINE tail == <<"stopped", "unlock">> \o r
  <2>1. tail = <<"stopped">> \o (<<"unlock">> \o r) /\ tail \in Seq(Steps)
    BY <1>1, <1>3, Pushes
  <2>2. StopPlay \o r = (<<"lock", "stop">> \o Ensure) \o tail
    BY <1>1, <1>2, <1>3, <1>4 DEF StopPlay
  <2> HIDE DEF tail
  <2>3. (<<"lock", "stop">> \o Ensure) \o tail = <<"lock", "stop">> \o EnsureThen(tail)
    BY <1>0, <1>1, <2>1
  <2>4. <<"lock", "stop">> \o EnsureThen(tail) = <<"lock">> \o (<<"stop">> \o EnsureThen(tail))
    <3>1. EnsureThen(tail) \in Seq(Steps)
      BY <1>5, <2>1
    <3> HIDE DEF EnsureThen
    <3> QED BY <3>1, <1>1, Pushes
  <2> QED BY <2>1, <2>2, <2>3, <2>4 DEF StopThen
<1>8. StartPlay = StartSteps
  <2> DEFINE u == <<"lock">> \o Ensure
  <2>1. u \in Seq(Steps) /\ u \o <<"reset">> \in Seq(Steps)
        /\ (u \o <<"reset">>) \o Ensure \in Seq(Steps)
    BY <1>1, <1>2, <1>3
  <2>2. \A t \in Seq(Steps) : u \o t = <<"lock">> \o EnsureThen(t)
    BY <1>0, <1>1
  <2>3. StartPlay = ((u \o <<"reset">>) \o Ensure) \o <<"refill">>
    BY DEF StartPlay
  <2> HIDE DEF u
  <2>4. ((u \o <<"reset">>) \o Ensure) \o <<"refill">>
          = (u \o <<"reset">>) \o (Ensure \o <<"refill">>)
    BY <1>1, <1>2, <1>4, <2>1
  <2>5. (u \o <<"reset">>) \o EnsureThen(<<"refill">>) = u \o (<<"reset">> \o EnsureThen(<<"refill">>))
    <3>1. \A s, t \in Seq(Steps) : (u \o s) \o t = u \o (s \o t)
      BY <1>4, <2>1
    <3> QED BY <3>1, <1>1, <1>5
  <2>6. <<"reset">> \o EnsureThen(<<"refill">>) \in Seq(Steps)
    BY <1>1, <1>3, <1>5
  <2>7. <<"refill">> = <<"refill">> \o <<>>
    BY <1>1, <1>6
  <2> QED BY <1>1, <1>5, <2>2, <2>3, <2>4, <2>5, <2>6, <2>7 DEF StartSteps
<1>9. StartSteps \in Seq(Steps)
  BY <1>1, <1>3, <1>5 DEF StartSteps
<1>10. <<"quiet">> = <<"quiet">> \o <<>>
  BY <1>1, <1>6
<1> QED BY <1>1, <1>7, <1>8, <1>9, <1>10

\* What Refill puts before the others.
RefillThen(r) ==
  LET go == <<"go">> \o r
      play == IF sound.paused THEN go ELSE <<"play">> \o EnsureThen(go)
  IN  IF primary THEN <<"take">> \o play ELSE play

\* The same as the model writes it, and it carries nothing.
LEMMA RefillIs ==
  ASSUME NEW r \in Seq(Steps)
  PROVE  /\ (((IF primary THEN <<"take">> ELSE <<>>)
               \o (IF sound.paused THEN <<>> ELSE <<"play">> \o Ensure)) \o <<"go">>) \o r
              = RefillThen(r)
         /\ RefillThen(r) \in Seq(Steps)
         /\ Carrying(RefillThen(r)) => Carrying(r)
<1> DEFINE s1 == IF primary THEN <<"take">> ELSE <<>>
           s2 == IF sound.paused THEN <<>> ELSE <<"play">> \o Ensure
           g == <<"go">>
           go == g \o r
           play == IF sound.paused THEN go ELSE <<"play">> \o EnsureThen(go)
<1>1. /\ <<"take">> \in Seq(Steps) /\ <<"play">> \in Seq(Steps) /\ <<"go">> \in Seq(Steps)
      /\ <<>> \in Seq(Steps) /\ "take" \in Steps /\ "play" \in Steps /\ "go" \in Steps
      /\ "ensure" \in Steps /\ "act" \in Steps
  BY DEF Steps
<1>2. /\ Ensure \in Seq(Steps)
      /\ \A u \in Seq(Steps) : Ensure \o u = EnsureThen(u) /\ EnsureThen(u) \in Seq(Steps)
  BY EnsureIs
<1>3. \A s, t \in Seq(Steps) : s \o t \in Seq(Steps)
  BY ConcatProperties
<1>4. \A s, t, u \in Seq(Steps) : (s \o t) \o u = s \o (t \o u)
  BY ConcatAssociative
<1>5. \A u \in Seq(Steps) : <<>> \o u = u
  BY ConcatEmptySeq
<1> HIDE DEF Ensure
<1>6. g \in Seq(Steps) /\ go \in Seq(Steps) /\ (Carrying(go) <=> Carrying(r))
  <2>1. Said(go, "go", r)
    BY <1>1, Begins
  <2> QED BY <1>1, <2>1 DEF Said
<1> HIDE DEF g, go
<1>7. s1 \in Seq(Steps) /\ s2 \in Seq(Steps)
  BY <1>1, <1>2, <1>3
<1>8. s2 \o go = play /\ play \in Seq(Steps) /\ (Carrying(play) => Carrying(r))
  <2>1. CASE sound.paused
    BY <2>1, <1>5, <1>6
  <2>2. CASE ~sound.paused
    <3>1. (<<"play">> \o Ensure) \o go = <<"play">> \o EnsureThen(go)
      BY <1>6, CallsAre
    <3>2. Said(<<"act">> \o go, "act", go)
      BY <1>1, <1>6, Begins
    <3>3. Said(EnsureThen(go), "ensure", <<"act">> \o go)
      BY <1>1, <3>2, Begins DEF Said, EnsureThen
    <3>4. Said(<<"play">> \o EnsureThen(go), "play", EnsureThen(go))
      BY <1>1, <1>2, <1>6, Begins
    <3> QED BY <2>2, <3>1, <3>2, <3>3, <3>4, <1>6 DEF Said
  <2> QED BY <2>1, <2>2
<1>9. ((s1 \o s2) \o g) \o r = s1 \o (s2 \o go)
  <2> HIDE DEF s1, s2
  <2>1. s1 \o s2 \in Seq(Steps)
    BY <1>3, <1>7
  <2>2. ((s1 \o s2) \o g) \o r = (s1 \o s2) \o (g \o r)
    BY <1>4, <1>6, <2>1
  <2>3. (s1 \o s2) \o go = s1 \o (s2 \o go)
    BY <1>4, <1>6, <1>7, ZenonT(60)
  <2> QED BY <2>2, <2>3 DEF go
<1> HIDE DEF s2, play
<1>10. /\ s1 \o play = (IF primary THEN <<"take">> \o play ELSE play)
       /\ s1 \o play \in Seq(Steps) /\ (Carrying(s1 \o play) => Carrying(r))
  <2>1. CASE primary
    <3>1. Said(<<"take">> \o play, "take", play)
      BY <1>1, <1>8, Begins
    <3> QED BY <2>1, <3>1, <1>8 DEF Said
  <2>2. CASE ~primary
    BY <2>2, <1>5, <1>8
  <2> QED BY <2>1, <2>2
<1>11. RefillThen(r) = s1 \o play
  BY <1>10 DEF RefillThen, play, go, g
<1> HIDE DEF s1
<1> QED BY <1>8, <1>9, <1>10, <1>11 DEF s1, s2, g

\* What Fill and Check put before the others.
FillThen(r) ==
  IF ~sound.buffer THEN r
  ELSE IF sound.paused
         THEN IF sound.device THEN <<"pause">> \o EnsureThen(<<"silent">> \o r) ELSE r
         ELSE IF sound.device THEN <<"check">> \o r
                ELSE <<"play">> \o EnsureThen(<<"check">> \o r)

CheckThen(room, r) ==
  IF AtEnd THEN <<"pause">> \o EnsureThen(<<"stopped">> \o r)
  ELSE IF Remain >= room THEN r ELSE <<"take">> \o r

\* Fill as the model writes it.
LEMMA FillIs ==
  ASSUME NEW r \in Seq(Steps), sound.buffer \in BOOLEAN, sound.paused \in BOOLEAN
  PROVE  (CASE ~sound.buffer -> <<>>
            [] sound.buffer /\ sound.paused ->
                 IF sound.device THEN (<<"pause">> \o Ensure) \o <<"silent">> ELSE <<>>
            [] OTHER ->
                 (IF sound.device THEN <<>> ELSE <<"play">> \o Ensure) \o <<"check">>) \o r
           = FillThen(r)
<1>1. <<>> \o r = r
  BY ConcatEmptySeq
<1>2. CASE ~sound.buffer
  BY <1>1, <1>2 DEF FillThen
<1>3. CASE sound.buffer /\ sound.paused
  BY <1>1, <1>3, CallsAre DEF FillThen
<1>4. CASE sound.buffer /\ ~sound.paused
  BY <1>4, CallsAre DEF FillThen
<1> QED BY <1>2, <1>3, <1>4

\* Check as the model writes it.
LEMMA CheckIs ==
  ASSUME NEW room, NEW r \in Seq(Steps)
  PROVE  (CASE AtEnd -> (<<"pause">> \o Ensure) \o <<"stopped">>
            [] ~AtEnd /\ Remain >= room -> <<>>
            [] OTHER -> <<"take">>) \o r
           = CheckThen(room, r)
<1>1. <<>> \o r = r
  BY ConcatEmptySeq
<1>2. CASE AtEnd
  BY <1>2, CallsAre DEF CheckThen
<1>3. CASE ~AtEnd /\ Remain >= room
  BY <1>1, <1>3 DEF CheckThen
<1>4. CASE ~AtEnd /\ ~(Remain >= room)
  BY <1>4 DEF CheckThen
<1> QED BY <1>2, <1>3, <1>4

-----------------------------------------------------------------------------
(* Types.                                                                   *)

\* The states of the source.
Sources == [state : States, done : 0 .. Buffers,
            queue : Seq([buffer : 0 .. Buffers - 1, unit : 1 .. MaxUnits])]

\* What can be said of the source alone.
SourceInv(s, g) ==
  /\ s \in Sources
  /\ Len(s.queue) <= Buffers /\ s.done <= Len(s.queue)
  /\ s.state \in {"playing", "paused"} => s.done < Len(s.queue)
  /\ s.state = "initial" => s.done = 0
  /\ \A i \in 1 .. Len(s.queue) : s.queue[i].unit <= g

\* What can be said of the calls alone.
TodoInv ==
  /\ todo \in [Threads -> Seq(Steps)]
  /\ \A t \in Threads : Carrying(todo[t]) => given >= 1

\* What can be said of the ring, of the history and of the flags.
RingInv ==
  /\ ring \in [units : 0 .. Units, ended : BOOLEAN]
  /\ given \in 0 .. MaxUnits /\ given + ring.units <= MaxUnits

HeardInv ==
  /\ heard \in [last : 0 .. MaxUnits, dry : BOOLEAN,
                early : BOOLEAN, primed : BOOLEAN, restored : BOOLEAN]
  /\ heard.last <= given

FlagInv ==
  /\ index \in -1 .. Buffers - 1
  /\ playing \in BOOLEAN /\ sent \in BOOLEAN
  /\ mtx \in Threads \cup {None} /\ bufferCS \in Threads \cup {None}
  /\ seen \in [Threads -> States \cup {None}]
  /\ sound \in [buffer : BOOLEAN, device : BOOLEAN, paused : BOOLEAN, callback : BOOLEAN]
  /\ primary \in BOOLEAN /\ program \in BOOLEAN

\* The types, with what keeps them.
TypeInv == SourceInv(source, given) /\ TodoInv /\ RingInv /\ HeardInv /\ FlagInv

\* It is stronger than the type invariant.
LEMMA TypeInvIsTyped == TypeInv => TypeOK
  BY DEF TypeInv, SourceInv, Sources, TodoInv, RingInv, HeardInv, FlagInv, TypeOK

\* What a call says before its first step is done.
LEMMA Does ==
  ASSUME TodoInv, NEW t \in Threads, NEW a \in Steps, At(t, a)
  PROVE  Said(todo[t], a, Tail(todo[t]))
<1> DEFINE r == Tail(todo[t])
<1>1. todo[t] \in Seq(Steps) /\ todo[t] # <<>> /\ Head(todo[t]) = a
  BY DEF TodoInv, At
<1>2. r \in Seq(Steps) /\ todo[t] = <<a>> \o r
  BY <1>1, Pop
<1> HIDE DEF r
<1> QED BY <1>1, <1>2, Begins DEF r

\* The steps left change for one thread only.
LEMMA TodoChanges ==
  ASSUME TodoInv, NEW t \in Threads, NEW s \in Seq(Steps), NEW u \in Threads,
         todo' = [todo EXCEPT ![t] = s]
  PROVE  /\ todo' \in [Threads -> Seq(Steps)]
         /\ todo'[u] = IF u = t THEN s ELSE todo[u]
  BY DEF TodoInv

\* A step that is done adds nothing to carry.
LEMMA DoneTypes ==
  ASSUME TodoInv, NEW t \in Threads, todo[t] # <<>>, Done(t), given' = given
  PROVE  TodoInv'
<1> DEFINE a == Head(todo[t])
           r == Tail(todo[t])
<1>1. todo[t] \in Seq(Steps)
  BY DEF TodoInv
<1>2. a \in Steps /\ r \in Seq(Steps) /\ At(t, a)
  BY <1>1, Pop DEF At
<1>3. Carrying(r) => Carrying(todo[t])
  BY <1>2, Does DEF Said
<1>4. todo' = [todo EXCEPT ![t] = r]
  BY DEF Done
<1> HIDE DEF a, r
<1>5. todo' \in [Threads -> Seq(Steps)] /\ \A u \in Threads : todo'[u] = IF u = t THEN r ELSE todo[u]
  BY <1>2, <1>4, TodoChanges
<1> QED BY <1>3, <1>5 DEF TodoInv

\* Steps put before the others that carry nothing.
LEMMA ThenTypes ==
  ASSUME TodoInv, NEW t \in Threads, NEW s \in Seq(Steps), todo' = [todo EXCEPT ![t] = s],
         Carrying(s) => Carrying(todo[t]) \/ given' >= 1, given' >= given, given \in Nat, given' \in Nat
  PROVE  TodoInv'
<1>1. todo' \in [Threads -> Seq(Steps)] /\ \A u \in Threads : todo'[u] = IF u = t THEN s ELSE todo[u]
  BY TodoChanges
<1>2. ASSUME NEW u \in Threads, Carrying(todo'[u]) PROVE given' >= 1
  BY <1>1, <1>2 DEF TodoInv
<1> QED BY <1>1, <1>2 DEF TodoInv

-----------------------------------------------------------------------------
(* Type correctness.                                                        *)

\* The operations of OpenAL keep what can be said of a source.
LEMMA SourceOperations ==
  ASSUME NEW s, NEW g \in Nat, SourceInv(s, g)
  PROVE  /\ SourceInv(SourcePlay(s), g) /\ SourceInv(SourcePause(s), g)
         /\ SourceInv(SourceStop(s), g) /\ SourceInv(EmptySource, g)
         /\ Processed(s) \in 0 .. Len(s.queue)
<1> USE DEF SourceInv, Sources
<1>0. Buffers \in Nat /\ Buffers >= 1
  BY StreamAssumption
<1>1. s.state \in States /\ s.done \in 0 .. Buffers
      /\ s.queue \in Seq([buffer : 0 .. Buffers - 1, unit : 1 .. MaxUnits])
      /\ Len(s.queue) \in Nat
  OBVIOUS
<1>2. SourceInv(SourcePause(s), g)
  BY <1>1 DEF SourcePause, States
<1>3. SourceInv(SourceStop(s), g)
  BY <1>1 DEF SourceStop, States
<1>4. SourceInv(EmptySource, g)
  BY <1>0 DEF EmptySource, States
<1>5. SourceInv(SourcePlay(s), g)
  <2>1. CASE s.queue = <<>>
    BY <1>1, <2>1 DEF SourcePlay, States
  <2>2. CASE s.queue # <<>>
    <3>1. Len(s.queue) >= 1
      BY <1>1, <2>2
    <3> DEFINE d == IF s.state = "paused" THEN s.done ELSE 0
    <3>2. SourcePlay(s) = [s EXCEPT !.state = "playing", !.done = d]
      BY <2>2 DEF SourcePlay
    <3>3. d \in 0 .. Buffers /\ d < Len(s.queue)
      BY <1>0, <1>1, <3>1
    <3> HIDE DEF d
    <3>4. "playing" \in States
      BY DEF States
    <3> DEFINE p == SourcePlay(s)
    <3>5. p.state = "playing" /\ p.done = d /\ p.queue = s.queue
          /\ p = [state |-> "playing", done |-> d, queue |-> s.queue]
      BY <3>2
    <3> HIDE DEF p
    <3>6. p \in Sources
      BY <1>1, <3>3, <3>4, <3>5
    <3>7. SourceInv(p, g)
      BY <3>3, <3>5, <3>6
    <3> QED BY <3>7 DEF p
  <2> QED BY <2>1, <2>2
<1>6. Processed(s) \in 0 .. Len(s.queue)
  BY <1>1 DEF Processed
<1> QED BY <1>2, <1>3, <1>4, <1>5, <1>6

\* And so does EnsurePlayState.
LEMMA WantedTypes ==
  ASSUME NEW s, NEW g \in Nat, SourceInv(s, g), NEW state
  PROVE  SourceInv(Wanted(s, state), g)
<1>1. SourceInv(Silenced(s, state), g)
  <2> DEFINE p == IF state = "playing" THEN SourcePause(s) ELSE s
  <2>1. SourceInv(p, g)
    BY SourceOperations
  <2> HIDE DEF p
  <2>2. SourceInv(SourceStop(p), g) /\ SourceInv(EmptySource, g)
    BY <2>1, SourceOperations
  <2>3. Silenced(s, state) \in {SourceStop(p), EmptySource, p}
    BY DEF Silenced, p
  <2> QED BY <2>1, <2>2, <2>3
<1> QED BY <1>1, SourceOperations DEF Wanted

\* More may have been taken from the ring.
LEMMA SourceGrows ==
  ASSUME NEW s, NEW g \in Nat, NEW h \in Nat, g <= h, SourceInv(s, g)
  PROVE  SourceInv(s, h)
<1>1. SUFFICES ASSUME NEW i \in 1 .. Len(s.queue) PROVE s.queue[i].unit <= h
  BY DEF SourceInv
<1> DEFINE R == [buffer : 0 .. Buffers - 1, unit : 1 .. MaxUnits]
<1>0. s.queue \in Seq(R)
  BY DEF SourceInv, Sources
<1>2. s.queue[i] \in R
  <2> HIDE DEF R
  <2> QED BY <1>0
<1>3. s.queue[i].unit \in 1 .. MaxUnits /\ s.queue[i].unit <= g
  BY <1>2 DEF SourceInv
<1> QED BY <1>3, StreamAssumption

\* The source u is s without its first n buffers.
Unqueued(s, n, u) ==
  /\ Len(u.queue) = Len(s.queue) - n /\ u.done = 0 /\ u.state = s.state
  /\ \A i \in 1 .. Len(u.queue) : u.queue[i] = s.queue[i + n] /\ i + n \in 1 .. Len(s.queue)

\* What AppendBuffer takes back.
LEMMA UnqueueTypes ==
  ASSUME NEW s, NEW g \in Nat, SourceInv(s, g), NEW n, n = Processed(s),
         NEW u, u = [s EXCEPT !.queue = SubSeq(@, n + 1, Len(@)), !.done = 0]
  PROVE  SourceInv(u, g) /\ Unqueued(s, n, u)
<1> DEFINE R == [buffer : 0 .. Buffers - 1, unit : 1 .. MaxUnits]
           q == SubSeq(s.queue, n + 1, Len(s.queue))
<1>0. n \in 0 .. Len(s.queue)
  BY SourceOperations
<1>1. s.queue \in Seq(R) /\ Len(s.queue) \in Nat /\ n \in 0 .. Len(s.queue)
      /\ s.state \in States /\ s.done \in 0 .. Buffers
  BY <1>0 DEF SourceInv, Sources
<1>2. \A i \in n + 1 .. Len(s.queue) : s.queue[i] \in R
  <2> HIDE DEF R
  <2> QED BY <1>1
<1>3. q \in Seq(R) /\ Len(q) = (IF n + 1 <= Len(s.queue) THEN Len(s.queue) - (n + 1) + 1 ELSE 0)
      /\ \A i \in 1 .. Len(s.queue) - (n + 1) + 1 : q[i] = s.queue[n + 1 + i - 1]
  <2> HIDE DEF R
  <2> QED BY <1>1, <1>2, SubSeqProperties, SMTT(40)
<1>4. Len(q) = Len(s.queue) - n
  BY <1>1, <1>3
<1>5. \A i \in 1 .. Len(q) : q[i] = s.queue[i + n] /\ i + n \in 1 .. Len(s.queue)
  <2> SUFFICES ASSUME NEW i \in 1 .. Len(q)
               PROVE  q[i] = s.queue[i + n] /\ i + n \in 1 .. Len(s.queue)
    OBVIOUS
  <2>0. i \in 1 .. (Len(s.queue) - n)
    BY <1>4
  <2>1. i \in 1 .. Len(s.queue) - (n + 1) + 1 /\ n + 1 + i - 1 = i + n
        /\ i + n \in 1 .. Len(s.queue)
    BY ONLY <2>0, Len(s.queue) \in Nat, n \in 0 .. Len(s.queue)
  <2> QED BY <2>1, <1>3
<1>6. u.queue = q /\ u.done = 0 /\ u.state = s.state
      /\ u = [state |-> s.state, done |-> 0, queue |-> q]
  BY DEF SourceInv, Sources
<1> HIDE DEF q
<1>7. u \in Sources
  <2>1. 0 \in 0 .. Buffers
    BY StreamAssumption
  <2> QED BY <2>1, <1>1, <1>3, <1>6 DEF Sources
<1>8. s.state \in {"playing", "paused"} => Len(q) >= 1
  BY <1>1, <1>4 DEF SourceInv, Processed
<1>9. \A i \in 1 .. Len(q) : q[i].unit <= g
  BY <1>5 DEF SourceInv
<1>10. Len(q) <= Buffers /\ 0 <= Len(q) /\ Len(q) \in Nat
  BY <1>1, <1>4, StreamAssumption DEF SourceInv
<1>11. SourceInv(u, g)
  <2>1. u.state \in {"playing", "paused"} => u.done < Len(u.queue)
    <3>1. u.state = s.state /\ u.done = 0 /\ u.queue = q
      BY <1>6
    <3>2. s.state \in {"playing", "paused"} => 0 < Len(q)
      BY <1>8, <1>10
    <3> QED BY ONLY <3>1, <3>2
  <2> QED BY <1>6, <1>7, <1>9, <1>10, <2>1 DEF SourceInv
<1> QED BY <1>11, <1>6, <1>4, <1>5 DEF Unqueued

\* What AppendBuffer queues.
LEMMA QueueTypes ==
  ASSUME NEW s, NEW g \in 1 .. MaxUnits, SourceInv(s, g), Len(s.queue) < Buffers,
         NEW b \in 0 .. Buffers - 1,
         NEW u, u = [s EXCEPT !.queue = Append(@, [buffer |-> b, unit |-> g])]
  PROVE  /\ SourceInv(u, g) /\ Len(u.queue) = Len(s.queue) + 1 /\ u.done = s.done
         /\ u.state = s.state
         /\ \A i \in 1 .. Len(s.queue) : u.queue[i] = s.queue[i]
         /\ u.queue[Len(s.queue) + 1] = [buffer |-> b, unit |-> g]
<1> DEFINE R == [buffer : 0 .. Buffers - 1, unit : 1 .. MaxUnits]
           e == [buffer |-> b, unit |-> g]
           q == Append(s.queue, e)
<1>1. s.queue \in Seq(R) /\ Len(s.queue) \in Nat /\ e \in R /\ e.unit = g
      /\ s.state \in States /\ s.done \in 0 .. Buffers
  BY DEF SourceInv, Sources
<1> HIDE DEF R, e
<1>2. q \in Seq(R) /\ Len(q) = Len(s.queue) + 1
      /\ (\A i \in 1 .. Len(s.queue) : q[i] = s.queue[i]) /\ q[Len(s.queue) + 1] = e
  BY <1>1, AppendProperties
<1>3. u.queue = q /\ u.done = s.done /\ u.state = s.state
      /\ u = [state |-> s.state, done |-> s.done, queue |-> q]
  BY DEF SourceInv, Sources, e
<1> HIDE DEF q
<1>4. u \in Sources
  BY <1>1, <1>2, <1>3 DEF Sources, R
<1>5. \A i \in 1 .. Len(q) : q[i].unit <= g
  <2> SUFFICES ASSUME NEW i \in 1 .. Len(q) PROVE q[i].unit <= g
    OBVIOUS
  <2>1. CASE i \in 1 .. Len(s.queue)
    BY <2>1, <1>2 DEF SourceInv
  <2>2. CASE i = Len(s.queue) + 1
    BY <2>2, <1>1, <1>2
  <2> QED BY <2>1, <2>2, <1>1, <1>2
<1>6. Len(q) <= Buffers /\ (s.done <= Len(s.queue) => s.done <= Len(q))
      /\ (s.done < Len(s.queue) => s.done < Len(q))
  BY <1>1, <1>2, StreamAssumption
<1>7. SourceInv(u, g)
  BY <1>3, <1>4, <1>5, <1>6 DEF SourceInv
<1> QED BY <1>2, <1>3, <1>7 DEF e

\* The steps of the calls are steps.
LEMMA CallsAreSteps ==
  /\ StopPlay \o StartPlay \in Seq(Steps) /\ StopPlay \o <<"quiet">> \in Seq(Steps)
  /\ ~Carrying(StopPlay \o StartPlay) /\ ~Carrying(StopPlay \o <<"quiet">>)
  /\ ~Carrying(Ensure)
<1>1. "ensure" \in Steps /\ "act" \in Steps /\ "lock" \in Steps /\ "stop" \in Steps
      /\ "stopped" \in Steps /\ "unlock" \in Steps /\ "reset" \in Steps
      /\ "refill" \in Steps /\ "quiet" \in Steps /\ <<>> \in Seq(Steps)
  BY DEF Steps
<1> DEFINE Light(s) == s \in Seq(Steps) /\ ~Carrying(s)
<1>2. ASSUME NEW r, Light(r), NEW a \in Steps, a # "queue" PROVE Light(<<a>> \o r)
  <2>1. Said(<<a>> \o r, a, r)
    BY <1>2, Begins
  <2> QED BY <2>1, <1>2 DEF Said
<1>3. Light(<<>>)
  BY <1>1, Nothing
<1> HIDE DEF Light
<1>4. ASSUME NEW r, Light(r) PROVE Light(EnsureThen(r))
  BY <1>1, <1>2, <1>4 DEF EnsureThen
<1>5. ASSUME NEW r, Light(r) PROVE Light(StopThen(r))
  <2>1. Light(<<"stopped">> \o (<<"unlock">> \o r))
    BY <1>1, <1>2, <1>5
  <2>2. Light(EnsureThen(<<"stopped">> \o (<<"unlock">> \o r)))
    BY <1>4, <2>1
  <2> QED BY <1>1, <1>2, <2>2 DEF StopThen
<1>6. Light(StartSteps)
  <2>1. Light(EnsureThen(<<"refill">> \o <<>>))
    BY <1>1, <1>2, <1>3, <1>4
  <2>2. Light(EnsureThen(<<"reset">> \o EnsureThen(<<"refill">> \o <<>>)))
    BY <1>1, <1>2, <1>4, <2>1
  <2> QED BY <1>1, <1>2, <2>2 DEF StartSteps
<1>7. Light(<<"quiet">> \o <<>>)
  BY <1>1, <1>2, <1>3
<1>8. Light(StopThen(StartSteps)) /\ Light(StopThen(<<"quiet">> \o <<>>)) /\ Light(EnsureThen(<<>>))
  BY <1>3, <1>4, <1>5, <1>6, <1>7
<1> QED BY <1>1, <1>8, StopAndStart, EnsureIs DEF Light

\* The mixer of OpenAL.
LEMMA MixTypes == TypeInv /\ Mix => TypeInv'
<1> SUFFICES ASSUME TypeInv, Mix PROVE TypeInv'
  OBVIOUS
<1> DEFINE done == source.done + 1
           unit == source.queue[done].unit
           dry == done = Len(source.queue)
           last == IF unit > heard.last THEN unit ELSE heard.last
           R == [buffer : 0 .. Buffers - 1, unit : 1 .. MaxUnits]
<1>1. SourceInv(source, given) /\ given \in 0 .. MaxUnits /\ HeardInv
  BY DEF TypeInv, RingInv
<1>2. source.state = "playing" /\ source.queue \in Seq(R) /\ source.done \in 0 .. Buffers
      /\ source.done < Len(source.queue) /\ Len(source.queue) \in Nat
      /\ Len(source.queue) <= Buffers
  BY <1>1 DEF Mix, SourceInv, Sources
<1>3. done \in 1 .. Len(source.queue) /\ done \in 0 .. Buffers
  <2> HIDE DEF R
  <2> QED BY <1>2, StreamAssumption, SMTT(40)
<1>4. source.queue[done] \in R
  <2> HIDE DEF R, done
  <2> QED BY <1>2, <1>3
<1>5. unit \in 1 .. MaxUnits /\ unit <= given
  <2>1. source.queue[done].unit \in 1 .. MaxUnits
    BY <1>4
  <2> QED BY <2>1, <1>1, <1>3 DEF SourceInv
<1>6. last \in 0 .. MaxUnits /\ last <= given
  BY <1>1, <1>5 DEF HeardInv
<1>7. source' = [state |-> IF dry THEN "stopped" ELSE "playing", done |-> done,
                 queue |-> source.queue]
  BY <1>1, <1>2 DEF Mix, SourceInv, Sources
<1>8. heard'.last = last /\ heard' \in
        [last : 0 .. MaxUnits, dry : BOOLEAN,
         early : BOOLEAN, primed : BOOLEAN, restored : BOOLEAN]
  <2>1. heard' = [heard EXCEPT !.last = last,
                               !.dry = heard'.dry, !.early = heard'.early]
        /\ heard'.last = last
        /\ heard'.dry \in BOOLEAN /\ heard'.early \in BOOLEAN
    <3> HIDE DEF last, dry, unit, done
    <3> QED BY <1>1 DEF Mix, HeardInv, last, dry, unit, done
  <2> HIDE DEF last
  <2> QED BY <1>1, <1>6, <2>1 DEF HeardInv
<1> HIDE DEF last, unit
<1>9. SourceInv(source', given)
  <2>1. source'.state \in States /\ source'.done = done /\ source'.queue = source.queue
        /\ source'.state \in {"playing", "stopped"}
        /\ (source'.state = "playing" => done # Len(source.queue))
    BY <1>7 DEF States
  <2>2. source' \in Sources
    <3> HIDE DEF done, dry
    <3> QED BY <1>2, <1>3, <1>7, <2>1 DEF Sources
  <2>3. done <= Len(source.queue) /\ (done # Len(source.queue) => done < Len(source.queue))
    BY <1>2, <1>3
  <2>4. \A i \in 1 .. Len(source'.queue) : source'.queue[i].unit <= given
    BY <1>1, <2>1 DEF SourceInv
  <2> HIDE DEF done
  <2> QED BY <1>2, <2>1, <2>2, <2>3, <2>4 DEF SourceInv
<1>10. given' = given /\ ring' = ring /\ todo' = todo /\ UNCHANGED <<index, playing, sent, mtx, seen,
         bufferCS, sound, primary, program>>
  BY DEF Mix, caller
<1> HIDE DEF done, dry
<1>11. HeardInv'
  BY <1>6, <1>8, <1>10 DEF HeardInv
<1>12. TodoInv' /\ RingInv' /\ FlagInv'
  BY <1>10 DEF TypeInv, TodoInv, RingInv, FlagInv
<1> QED BY <1>9, <1>10, <1>11, <1>12 DEF TypeInv

\* The steps that either thread may have to do.
LEMMA StepTypes ==
  ASSUME NEW t \in Threads, TypeInv, Step(t)
  PROVE  TypeInv'
<1> USE DEF device, caller
<1>0. /\ SourceInv(source, given) /\ TodoInv /\ RingInv /\ HeardInv /\ FlagInv
      /\ given \in Nat /\ given \in 0 .. MaxUnits /\ t # None
  BY DEF TypeInv, RingInv, Threads, None
<1>1. ASSUME NEW a \in Steps, At(t, a), Done(t), given' = given PROVE TodoInv'
  BY <1>0, <1>1, DoneTypes DEF At
<1>2. CASE EnsureRead(t)
  <2>1. seen' \in [Threads -> States \cup {None}]
    BY <1>0, <1>2 DEF EnsureRead, FlagInv, SourceInv, Sources
  <2>2. FlagInv'
    BY <1>0, <1>2, <2>1 DEF EnsureRead, FlagInv
  <2>3. TodoInv'
    BY <1>1, <1>2 DEF EnsureRead, Steps
  <2>4. SourceInv(source', given') /\ RingInv' /\ HeardInv'
    BY <1>0, <1>2 DEF EnsureRead, RingInv, HeardInv
  <2> QED BY <2>2, <2>3, <2>4 DEF TypeInv
<1>3. CASE EnsureAct(t)
  <2>1. SourceInv(source', given')
    BY <1>0, <1>3, WantedTypes DEF EnsureAct
  <2>2. seen' \in [Threads -> States \cup {None}]
    BY <1>0, <1>3 DEF EnsureAct, FlagInv
  <2>3. FlagInv'
    BY <1>0, <1>3, <2>2 DEF EnsureAct, FlagInv
  <2>4. TodoInv'
    BY <1>1, <1>3 DEF EnsureAct, Steps
  <2>5. RingInv' /\ HeardInv'
    BY <1>0, <1>3 DEF EnsureAct, RingInv, HeardInv
  <2> QED BY <2>1, <2>3, <2>4, <2>5 DEF TypeInv
<1>4. CASE Unqueue(t)
  <2>1. SourceInv(source', given')
    <3>1. source' = [source EXCEPT !.queue = SubSeq(@, Processed(source) + 1, Len(@)), !.done = 0]
          /\ given' = given
      BY <1>4 DEF Unqueue
    <3> QED BY <1>0, <3>1, UnqueueTypes
  <2>2. sent' \in BOOLEAN
    BY <1>0, <1>4 DEF Unqueue, FlagInv
  <2>3. FlagInv'
    BY <1>0, <1>4, <2>2 DEF Unqueue, FlagInv
  <2>4. TodoInv'
    BY <1>1, <1>4 DEF Unqueue, Steps
  <2>5. RingInv' /\ HeardInv'
    BY <1>0, <1>4 DEF Unqueue, RingInv, HeardInv
  <2> QED BY <2>1, <2>3, <2>4, <2>5 DEF TypeInv
<1>5. CASE Queue(t)
  <2>1. NextIndex \in 0 .. Buffers - 1
    BY <1>0, StreamAssumption DEF NextIndex, FlagInv
  <2>2. given >= 1 /\ given \in 1 .. MaxUnits
    <3>1. "queue" \in Steps /\ At(t, "queue")
      BY <1>5 DEF Queue, Steps
    <3>2. Carrying(todo[t])
      BY <1>0, <3>1, Does DEF Said
    <3> QED BY <1>0, <3>2 DEF TodoInv
  <2>3. UNCHANGED <<playing, sent, seen, caller, heard>> /\ At(t, "queue")
    BY <1>5 DEF Queue
  <2>4. RingInv' /\ HeardInv'
    BY <1>0, <2>3 DEF RingInv, HeardInv
  <2>5. CASE Len(source.queue) >= Buffers
    <3>1. mtx' = None /\ source' = source /\ index' = index
          /\ todo' = [todo EXCEPT ![t] = SubSeq(@, 4, Len(@))]
      BY <1>5, <2>5 DEF Queue
    <3>2. SubSeq(todo[t], 4, Len(todo[t])) \in Seq(Steps)
      <4>1. todo[t] \in Seq(Steps)
        BY <1>0 DEF TodoInv
      <4>2. \A i \in 4 .. Len(todo[t]) : todo[t][i] \in Steps
        BY <4>1
      <4> QED BY <4>1, <4>2, SubSeqProperties
    <3>3. todo' = [todo EXCEPT ![t] = SubSeq(todo[t], 4, Len(todo[t]))]
      BY <1>0, <3>1 DEF TodoInv
    <3>4. given' \in Nat /\ given' >= given /\ given' >= 1
      BY <1>0, <2>2, <2>3
    <3>5. TodoInv'
      <4> DEFINE s == SubSeq(todo[t], 4, Len(todo[t]))
      <4>1. s \in Seq(Steps) /\ todo' = [todo EXCEPT ![t] = s]
        BY <3>2, <3>3
      <4> HIDE DEF s
      <4> QED BY <1>0, <3>4, <4>1, ThenTypes
    <3> QED BY <1>0, <2>3, <2>4, <3>1, <3>5 DEF TypeInv, FlagInv
  <2>6. CASE Len(source.queue) < Buffers
    <3>1. index' = NextIndex /\ Done(t) /\ mtx' = mtx
          /\ source' = [source EXCEPT !.queue = Append(@, [buffer |-> NextIndex, unit |-> given])]
      <4>1. ~(Len(source.queue) >= Buffers)
        BY <1>0, <2>6, StreamAssumption DEF SourceInv, Sources
      <4> QED BY <1>5, <4>1 DEF Queue
    <3>2. SourceInv(source', given')
      BY <1>0, <2>1, <2>2, <2>3, <2>6, <3>1, QueueTypes
    <3>3. TodoInv'
      BY <1>1, <2>3, <3>1 DEF Steps
    <3>4. index' \in -1 .. Buffers - 1
      BY <2>1, <3>1
    <3> QED BY <1>0, <2>3, <2>4, <3>1, <3>2, <3>3, <3>4 DEF TypeInv, FlagInv
  <2>7. Len(source.queue) >= Buffers \/ Len(source.queue) < Buffers
    BY <1>0, StreamAssumption DEF SourceInv, Sources
  <2> QED BY <2>5, <2>6, <2>7
<1>6. CASE Flags(t)
  <2>1. UNCHANGED <<source, mtx, seen, caller, heard>> /\ Done(t)
        /\ \E a \in Steps : At(t, a)
    BY <1>6 DEF Flags, Steps
  <2>2. playing' \in BOOLEAN /\ index' \in -1 .. Buffers - 1 /\ sent' \in BOOLEAN
    <3>1. playing' \in BOOLEAN /\ index' \in {index, -1} /\ sent' \in {sent, FALSE}
      BY <1>6 DEF Flags
    <3>2. -1 \in -1 .. Buffers - 1
      BY StreamAssumption
    <3> QED BY <1>0, <3>1, <3>2 DEF FlagInv
  <2>3. TodoInv'
    BY <1>1, <2>1
  <2> QED BY <1>0, <2>1, <2>2, <2>3 DEF TypeInv, FlagInv, RingInv, HeardInv
<1>7. CASE Lock(t)
  <2>1. TodoInv'
    BY <1>1, <1>7 DEF Lock, Steps
  <2> QED BY <1>0, <1>7, <2>1 DEF Lock, TypeInv, FlagInv, RingInv, HeardInv
<1>8. CASE Unlock(t)
  <2>1. TodoInv'
    BY <1>1, <1>8 DEF Unlock, Steps
  <2> QED BY <1>0, <1>8, <2>1 DEF Unlock, TypeInv, FlagInv, RingInv, HeardInv
<1>9. CASE Take(t)
  <2>0. UNCHANGED <<device, bufferCS, sound, primary, program>> /\ At(t, "take")
    BY <1>9 DEF Take
  <2>1. PICK r \in IF ring.units = 0 /\ ~ring.ended THEN Decoded(ring) ELSE {ring} :
          IF IsBufferValid /\ r.units > 0
            THEN /\ ring' = [r EXCEPT !.units = @ - 1]
                 /\ given' = given + 1
                 /\ heard' = [heard EXCEPT !.primed = TRUE]
                 /\ Then(t, <<"append", "queue">> \o Ensure)
            ELSE ring' = r /\ Done(t) /\ UNCHANGED <<given, heard>>
    BY <1>9 DEF Take
  <2>2. /\ r \in [units : 0 .. Units, ended : BOOLEAN]
        /\ given + r.units <= MaxUnits
    <3>1. ring \in [units : 0 .. Units, ended : BOOLEAN] /\ given + ring.units <= MaxUnits
      BY <1>0 DEF RingInv
    <3>2. CASE ring.units = 0 /\ ~ring.ended
      <4>1. r \in Decoded(ring)
        BY <2>1, <3>2
      <4>2. CASE r = [ring EXCEPT !.ended = TRUE]
        BY <3>1, <4>2
      <4>3. ASSUME NEW e \in BOOLEAN, r = [units |-> ring.units + 1, ended |-> e],
                   given + ring.units < MaxUnits
            PROVE  /\ r \in [units : 0 .. Units, ended : BOOLEAN]
                   /\ given + r.units <= MaxUnits
        <5>1. ring.units + 1 \in 0 .. Units /\ given + (ring.units + 1) <= MaxUnits
          BY <1>0, <3>1, <3>2, <4>3, StreamAssumption
        <5> QED BY <4>3, <5>1
      <4> QED BY <4>1, <4>2, <4>3 DEF Decoded
    <3>3. CASE ~(ring.units = 0 /\ ~ring.ended)
      BY <2>1, <3>1, <3>3
    <3> QED BY <3>2, <3>3
  <2>3. FlagInv'
    BY <1>0, <2>0 DEF FlagInv
  <2>4. CASE IsBufferValid /\ r.units > 0
    <3>1. given' = given + 1 /\ given' \in 0 .. MaxUnits /\ given' \in Nat
      BY <1>0, <2>1, <2>2, <2>4, StreamAssumption
    <3>2. RingInv'
      <4>1. ring' = [r EXCEPT !.units = @ - 1]
        BY <2>1, <2>4
      <4>2. r.units - 1 \in 0 .. Units /\ given' + (r.units - 1) <= MaxUnits
        BY <1>0, <2>2, <2>4, <3>1, StreamAssumption
      <4> QED BY <2>2, <3>1, <4>1, <4>2 DEF RingInv
    <3>3. HeardInv'
      <4>1. heard' = [heard EXCEPT !.primed = TRUE]
        BY <2>1, <2>4
      <4>2. heard'.last = heard.last /\ heard.last <= given'
            /\ heard' \in [last : 0 .. MaxUnits, dry : BOOLEAN,
                 early : BOOLEAN, primed : BOOLEAN, restored : BOOLEAN]
        <5>1. heard.last \in 0 .. MaxUnits /\ heard.last <= given
          BY <1>0 DEF HeardInv
        <5>2. heard.last <= given'
          BY <1>0, <3>1, <5>1, StreamAssumption
        <5> QED BY <1>0, <4>1, <5>2 DEF HeardInv
      <4> QED BY <4>2 DEF HeardInv
    <3>4. SourceInv(source', given')
      BY <1>0, <2>0, <3>1, SourceGrows
    <3>5. TodoInv'
      <4>1. Tail(todo[t]) \in Seq(Steps) /\ "append" \in Steps /\ "queue" \in Steps
        BY <1>0, <2>0, Does DEF Said, Steps
      <4> DEFINE s == (<<"append", "queue">> \o Ensure) \o Tail(todo[t])
      <4>2. s \in Seq(Steps)
        <5>1. s = <<"append">> \o (<<"queue">> \o EnsureThen(Tail(todo[t])))
          BY <4>1, CallsAre
        <5>2. EnsureThen(Tail(todo[t])) \in Seq(Steps)
          BY <4>1, EnsureIs
        <5> HIDE DEF s
        <5> QED BY <4>1, <5>1, <5>2, Pushes
      <4>3. todo' = [todo EXCEPT ![t] = s]
        BY <1>0, <2>1, <2>4 DEF Then, TodoInv
      <4>4. given' >= 1 /\ given' >= given
        BY <1>0, <3>1
      <4> HIDE DEF s
      <4> QED BY <1>0, <3>1, <4>2, <4>3, <4>4, ThenTypes
    <3> QED BY <2>3, <3>2, <3>3, <3>4, <3>5 DEF TypeInv
  <2>5. CASE ~(IsBufferValid /\ r.units > 0)
    <3>1. ring' = r /\ Done(t) /\ given' = given /\ heard' = heard /\ source' = source
      BY <2>0, <2>1, <2>5
    <3>2. TodoInv'
      BY <1>1, <2>0, <3>1 DEF Steps
    <3> QED BY <1>0, <2>2, <2>3, <3>1, <3>2 DEF TypeInv, RingInv, HeardInv
  <2> QED BY <2>4, <2>5
<1>10. CASE Stopped(t)
  <2>1. TodoInv'
    BY <1>1, <1>10 DEF Stopped, Steps
  <2>2. sound' \in [buffer : BOOLEAN, device : BOOLEAN, paused : BOOLEAN, callback : BOOLEAN]
    BY <1>0, <1>10 DEF Stopped, FlagInv
  <2> QED BY <1>0, <1>10, <2>1, <2>2 DEF Stopped, TypeInv, FlagInv, RingInv, HeardInv
<1> QED BY <1>2, <1>3, <1>4, <1>5, <1>6, <1>7, <1>8, <1>9, <1>10 DEF Step

\* The main thread.
LEMMA MainTypes ==
  ASSUME TypeInv, Refill \/ Go \/ Quiet
  PROVE  TypeInv'
<1> USE DEF device, caller
<1>0. /\ SourceInv(source, given) /\ TodoInv /\ RingInv /\ HeardInv /\ FlagInv
      /\ given \in Nat /\ given \in 0 .. MaxUnits /\ "main" \in Threads
  BY DEF TypeInv, RingInv, Threads
<1>1. ASSUME NEW a \in Steps, At("main", a), Done("main"), given' = given PROVE TodoInv'
  BY <1>0, <1>1, DoneTypes DEF At
<1>2. CASE Refill
  <2>0. UNCHANGED <<device, bufferCS, primary, program, given>> /\ At("main", "refill")
        /\ sound' = [sound EXCEPT !.buffer = TRUE]
        /\ ring' \in Decoded([units |-> 0, ended |-> FALSE])
        /\ heard' = [heard EXCEPT !.last = given, !.dry = FALSE, !.early = FALSE, !.primed = FALSE]
    BY <1>2 DEF Refill
  <2>1. sound' \in [buffer : BOOLEAN, device : BOOLEAN, paused : BOOLEAN, callback : BOOLEAN]
    BY <1>0, <2>0 DEF FlagInv
  <2>2. FlagInv'
    BY <1>0, <2>0, <2>1 DEF FlagInv
  <2>3. RingInv'
    <3> DEFINE z == [units |-> 0, ended |-> FALSE]
    <3>0. z.units = 0 /\ z \in [units : 0 .. Units, ended : BOOLEAN]
      BY StreamAssumption
    <3> HIDE DEF z
    <3>1. \/ ring' = [z EXCEPT !.ended = TRUE]
          \/ /\ given + 0 < MaxUnits
             /\ \E e \in BOOLEAN : ring' = [units |-> 0 + 1, ended |-> e]
      BY <2>0, <3>0 DEF Decoded, z
    <3>2. CASE ring' = [z EXCEPT !.ended = TRUE]
      <4>1. ring'.units = 0 /\ ring' \in [units : 0 .. Units, ended : BOOLEAN]
        BY <3>0, <3>2
      <4>2. given' \in 0 .. MaxUnits /\ given' + 0 <= MaxUnits
        BY <1>0, <2>0, StreamAssumption
      <4> QED BY <4>1, <4>2 DEF RingInv
    <3>3. ASSUME NEW e \in BOOLEAN, ring' = [units |-> 0 + 1, ended |-> e], given + 0 < MaxUnits
          PROVE  RingInv'
      <4>1. 0 + 1 \in 0 .. Units /\ given + (0 + 1) <= MaxUnits
        BY <1>0, <3>3, StreamAssumption
      <4> QED BY <1>0, <2>0, <3>3, <4>1 DEF RingInv
    <3> QED BY <3>1, <3>2, <3>3
  <2>4. HeardInv'
    <3>1. heard'.last = given /\ heard' \in [last : 0 .. MaxUnits, dry : BOOLEAN,
                 early : BOOLEAN, primed : BOOLEAN, restored : BOOLEAN]
      BY <1>0, <2>0 DEF HeardInv
    <3> QED BY <1>0, <2>0, <3>1 DEF HeardInv
  <2>5. TodoInv'
    <3> DEFINE r == Tail(todo["main"])
               s1 == (IF primary THEN <<"take">> ELSE <<>>)
               s2 == (IF sound.paused THEN <<>> ELSE <<"play">> \o Ensure)
               s == ((s1 \o s2) \o <<"go">>) \o r
    <3>1. r \in Seq(Steps) /\ (Carrying(todo["main"]) <=> Carrying(r))
          /\ "take" \in Steps /\ "play" \in Steps /\ "go" \in Steps /\ <<>> \in Seq(Steps)
      BY <1>0, <2>0, Does DEF Said, Steps
    <3>2. ~Carrying(<<"go">> \o r) \/ Carrying(r)
      BY <3>1, Begins DEF Said
    <3>3. RefillThen(r) = s /\ RefillThen(r) \in Seq(Steps)
          /\ (Carrying(RefillThen(r)) => Carrying(r))
      BY <3>1, RefillIs
    <3>4. todo' = [todo EXCEPT !["main"] = RefillThen(r)]
      <4>1. todo' = [todo EXCEPT !["main"] = s]
        BY <1>0, <1>2 DEF Refill, Then, TodoInv
      <4> HIDE DEF s
      <4> QED BY <4>1, <3>3
    <3> HIDE DEF s, r
    <3>5. given' >= given /\ given' \in Nat
      BY <1>0, <2>0
    <3> QED BY <1>0, <3>1, <3>3, <3>4, <3>5, ThenTypes
  <2> QED BY <1>0, <2>0, <2>2, <2>3, <2>4, <2>5 DEF TypeInv
<1>3. CASE Go
  <2>1. TodoInv'
    BY <1>1, <1>3 DEF Go, Steps
  <2>2. sound' \in [buffer : BOOLEAN, device : BOOLEAN, paused : BOOLEAN, callback : BOOLEAN]
    BY <1>0, <1>3 DEF Go, FlagInv
  <2> QED BY <1>0, <1>3, <2>1, <2>2 DEF Go, TypeInv, FlagInv, RingInv, HeardInv
<1>4. CASE Quiet
  <2>1. TodoInv'
    BY <1>1, <1>4 DEF Quiet, Steps
  <2>2. sound' \in [buffer : BOOLEAN, device : BOOLEAN, paused : BOOLEAN, callback : BOOLEAN]
    BY <1>0, <1>4 DEF Quiet, FlagInv
  <2> QED BY <1>0, <1>4, <2>1, <2>2 DEF Quiet, TypeInv, FlagInv, RingInv, HeardInv
<1> QED BY <1>2, <1>3, <1>4

\* The calls of the main thread, the timer and the decode thread.
LEMMA CallTypes ==
  ASSUME TypeInv,
         TimerBeat \/ DecodeAhead \/ Play \/ SetSamplePosition \/ Stop \/ SetVolume \/ SetPaused
  PROVE  TypeInv'
<1> USE DEF device, caller
<1>0. /\ SourceInv(source, given) /\ TodoInv /\ RingInv /\ HeardInv /\ FlagInv
      /\ given \in Nat /\ "main" \in Threads
  BY DEF TypeInv, RingInv, Threads
<1>1. ASSUME NEW s \in Seq(Steps), ~Carrying(s), Calls(s), given' = given PROVE TodoInv'
  <2>1. given' >= given /\ given' \in Nat /\ todo' = [todo EXCEPT !["main"] = s]
    BY <1>0, <1>1 DEF Calls
  <2> QED BY <1>0, <1>1, <2>1, ThenTypes
<1>2. CASE TimerBeat \/ SetPaused
  <2>1. sound' \in [buffer : BOOLEAN, device : BOOLEAN, paused : BOOLEAN, callback : BOOLEAN]
    BY <1>0, <1>2 DEF TimerBeat, SetPaused, FlagInv
  <2>2. UNCHANGED <<device, bufferCS, ring, primary, program, given, todo, heard>>
    BY <1>2 DEF TimerBeat, SetPaused
  <2> QED BY <1>0, <2>1, <2>2 DEF TypeInv, TodoInv, FlagInv, RingInv, HeardInv
<1>3. CASE DecodeAhead
  <2>1. UNCHANGED <<device, bufferCS, sound, primary, program, given, todo, heard>>
        /\ ring.units < Units /\ ring' \in Decoded(ring)
    BY <1>3 DEF DecodeAhead
  <2>2. ring \in [units : 0 .. Units, ended : BOOLEAN] /\ given + ring.units <= MaxUnits
    BY <1>0 DEF RingInv
  <2>3. CASE ring' = [ring EXCEPT !.ended = TRUE]
    <3>1. RingInv'
      BY <1>0, <2>1, <2>2, <2>3 DEF RingInv
    <3> QED BY <1>0, <2>1, <3>1 DEF TypeInv, TodoInv, FlagInv, HeardInv
  <2>4. ASSUME NEW e \in BOOLEAN, ring' = [units |-> ring.units + 1, ended |-> e],
               given + ring.units < MaxUnits
        PROVE  TypeInv'
    <3>1. ring.units + 1 \in 0 .. Units /\ given + (ring.units + 1) <= MaxUnits
      BY <1>0, <2>1, <2>2, <2>4, StreamAssumption
    <3>2. RingInv'
      BY <1>0, <2>1, <2>4, <3>1 DEF RingInv
    <3> QED BY <1>0, <2>1, <3>2 DEF TypeInv, TodoInv, FlagInv, HeardInv
  <2> QED BY <2>1, <2>3, <2>4 DEF Decoded
<1>4. CASE Play \/ SetSamplePosition
  <2>1. Calls(StopPlay \o StartPlay)
        /\ UNCHANGED <<device, bufferCS, sound, ring, primary, given, heard>>
        /\ program' \in {TRUE, program}
    BY <1>4 DEF Play, SetSamplePosition
  <2>2. TodoInv'
    BY <1>1, <2>1, CallsAreSteps
  <2>3. program' \in BOOLEAN
    BY <1>0, <2>1 DEF FlagInv
  <2>4. FlagInv'
    BY <1>0, <2>1, <2>3 DEF FlagInv
  <2> QED BY <1>0, <2>1, <2>2, <2>4 DEF TypeInv, RingInv, HeardInv
<1>5. CASE Stop
  <2>1. TodoInv'
    BY <1>1, <1>5, CallsAreSteps DEF Stop
  <2> QED BY <1>0, <1>5, <2>1 DEF Stop, TypeInv, FlagInv, RingInv, HeardInv
<1>6. CASE SetVolume
  <2>0. Ensure \in Seq(Steps)
    BY DEF Ensure, Steps
  <2>1. TodoInv'
    BY <1>1, <1>6, <2>0, CallsAreSteps DEF SetVolume
  <2> QED BY <1>0, <1>6, <2>1 DEF SetVolume, TypeInv, FlagInv, RingInv, HeardInv
<1> QED BY <1>2, <1>3, <1>4, <1>5, <1>6

\* The playing thread.
LEMMA PlayerTypes ==
  ASSUME TypeInv, Round \/ Restore \/ Serve \/ Fill \/ Silent \/ Check
  PROVE  TypeInv'
<1> USE DEF device, caller
<1>0. /\ SourceInv(source, given) /\ TodoInv /\ RingInv /\ HeardInv /\ FlagInv
      /\ given \in Nat /\ "player" \in Threads
      /\ "restore" \in Steps /\ "serve" \in Steps /\ "lock" \in Steps /\ "fill" \in Steps
      /\ "unlock" \in Steps /\ "play" \in Steps /\ "pause" \in Steps /\ "silent" \in Steps
      /\ "check" \in Steps /\ "stopped" \in Steps /\ "take" \in Steps /\ <<>> \in Seq(Steps)
      /\ "ensure" \in Steps /\ "act" \in Steps
  BY DEF TypeInv, RingInv, Threads, Steps
<1> DEFINE r == Tail(todo["player"])
           Light(s) == s \in Seq(Steps) /\ (Carrying(s) => Carrying(todo["player"]))
<1>1. ASSUME NEW s, Light(s), todo' = [todo EXCEPT !["player"] = s], given' = given PROVE TodoInv'
  <2>1. given' >= given /\ given' \in Nat
    BY <1>0, <1>1
  <2> QED BY <1>0, <1>1, <2>1, ThenTypes
<1>2. ASSUME NEW s, Light(s), NEW a \in Steps, a # "queue" PROVE Light(<<a>> \o s)
  <2>1. Said(<<a>> \o s, a, s)
    BY <1>2, Begins
  <2> QED BY <2>1, <1>2 DEF Said
<1>3. ASSUME NEW a \in Steps, At("player", a) PROVE Light(r)
  <2>1. Said(todo["player"], a, r)
    BY <1>0, <1>3, Does
  <2> QED BY <2>1 DEF Said
<1>4. Light(<<>>)
  BY <1>0, Nothing
<1>5. ASSUME NEW steps, NEW s, steps \o r = s, Then("player", steps)
      PROVE  todo' = [todo EXCEPT !["player"] = s]
  BY <1>0, <1>5 DEF Then, TodoInv
<1>6. ASSUME NEW s, Light(s) PROVE s \in Seq(Steps) /\ <<>> \o s = s
  BY <1>6, ConcatEmptySeq
<1> HIDE DEF Light
<1>7. ASSUME NEW s, Light(s) PROVE Light(EnsureThen(s))
  BY <1>0, <1>2, <1>7 DEF EnsureThen
<1>8. CASE Round
  <2>1. PICK serve \in IF program THEN {<<>>, <<"serve">>} ELSE {<<>>} :
          todo' = [todo EXCEPT !["player"] =
                     (IF primary # program /\ sound.callback THEN <<"restore">> ELSE <<>>) \o serve]
    BY <1>8 DEF Round
  <2>2. serve \in {<<>>, <<"serve">> \o <<>>}
    BY <2>1, <1>0, ConcatEmptySeq
  <2>3. Light(serve)
    BY <1>0, <1>2, <1>4, <2>2
  <2>4. Light((IF primary # program /\ sound.callback THEN <<"restore">> ELSE <<>>) \o serve)
    <3>1. Light(<<"restore">> \o serve)
      BY <1>0, <1>2, <2>3
    <3> QED BY <3>1, <2>3, <1>6
  <2>5. UNCHANGED <<device, bufferCS, sound, ring, program, given, heard>> /\ primary' = program
    BY <1>8 DEF Round
  <2>6. TodoInv'
    BY <1>1, <2>1, <2>4, <2>5
  <2> QED BY <1>0, <2>5, <2>6 DEF TypeInv, FlagInv, RingInv, HeardInv
<1>9. CASE Restore
  <2> DEFINE plays == ~sound.paused /\ sound.device /\ sound.buffer
  <2>1. At("player", "restore") /\ UNCHANGED <<device, caller>>
        /\ heard' = [heard EXCEPT !.restored = @ \/ plays]
        /\ Then("player", IF plays THEN <<"play">> \o Ensure ELSE <<>>)
    BY <1>9 DEF Restore
  <2>2. HeardInv'
    <3>1. heard.restored \/ plays \in BOOLEAN
      BY <1>0 DEF HeardInv
    <3>2. heard'.last = heard.last /\ heard' \in [last : 0 .. MaxUnits, dry : BOOLEAN,
                 early : BOOLEAN, primed : BOOLEAN, restored : BOOLEAN]
      BY <1>0, <2>1, <3>1 DEF HeardInv
    <3> QED BY <1>0, <2>1, <3>2 DEF HeardInv
  <2>3. Light(r)
    BY <1>0, <1>3, <2>1
  <2>4. PICK s : Light(s) /\ todo' = [todo EXCEPT !["player"] = s]
    <3>1. CASE plays
      <4>1. (<<"play">> \o Ensure) \o r = <<"play">> \o EnsureThen(r)
        BY <2>3, <1>6, CallsAre
      <4>2. Light(<<"play">> \o EnsureThen(r))
        BY <2>3, <1>0, <1>2, <1>7
      <4> QED BY <2>1, <3>1, <4>1, <4>2, <1>5
    <3>2. CASE ~plays
      BY <2>1, <2>3, <3>2, <1>5, <1>6
    <3> QED BY <3>1, <3>2
  <2>5. TodoInv'
    BY <1>1, <2>1, <2>4
  <2> QED BY <1>0, <2>1, <2>2, <2>5 DEF TypeInv, FlagInv, RingInv
<1>10. CASE Serve
  <2>1. At("player", "serve") /\ UNCHANGED <<device, caller, heard>>
        /\ Then("player", IF sound.callback THEN <<"lock", "fill", "unlock">> ELSE <<>>)
    BY <1>10 DEF Serve
  <2>3. Light(r)
    BY <1>0, <1>3, <2>1
  <2>4. PICK s : Light(s) /\ todo' = [todo EXCEPT !["player"] = s]
    <3>1. CASE sound.callback
      <4>1. <<"lock", "fill", "unlock">> \o r = <<"lock">> \o (<<"fill">> \o (<<"unlock">> \o r))
        BY <2>3, <1>0, <1>6, Pushes
      <4>2. Light(<<"lock">> \o (<<"fill">> \o (<<"unlock">> \o r)))
        BY <2>3, <1>0, <1>2
      <4> QED BY <2>1, <3>1, <4>1, <4>2, <1>5
    <3>2. CASE ~sound.callback
      BY <2>1, <2>3, <3>2, <1>5, <1>6
    <3> QED BY <3>1, <3>2
  <2>5. TodoInv'
    BY <1>1, <2>1, <2>4
  <2> QED BY <1>0, <2>1, <2>5 DEF TypeInv, FlagInv, RingInv, HeardInv
<1>11. CASE Fill
  <2>1. At("player", "fill") /\ UNCHANGED <<device, caller, heard>>
    BY <1>11 DEF Fill
  <2>3. Light(r)
    BY <1>0, <1>3, <2>1
  <2>4. PICK s : Light(s) /\ todo' = [todo EXCEPT !["player"] = s]
    <3>1. Light(FillThen(r))
      <4>1. Light(<<"pause">> \o EnsureThen(<<"silent">> \o r)) /\ Light(<<"check">> \o r)
            /\ Light(<<"play">> \o EnsureThen(<<"check">> \o r))
        BY <1>0, <1>2, <1>7, <2>3
      <4> QED BY <4>1, <2>3 DEF FillThen
    <3>2. sound.buffer \in BOOLEAN /\ sound.paused \in BOOLEAN /\ r \in Seq(Steps)
      BY <1>0, <1>6, <2>3 DEF FlagInv
    <3>3. todo' = [todo EXCEPT !["player"] = FillThen(r)]
      BY <3>2, <1>5, <1>11, FillIs DEF Fill
    <3> QED BY <3>1, <3>3
  <2>5. TodoInv'
    BY <1>1, <2>1, <2>4
  <2> QED BY <1>0, <2>1, <2>5 DEF TypeInv, FlagInv, RingInv, HeardInv
<1>12. CASE Silent
  <2>1. At("player", "silent") /\ UNCHANGED <<device, bufferCS, ring, primary, program, given, heard>>
        /\ Done("player") /\ sound' = [sound EXCEPT !.device = FALSE]
    BY <1>12 DEF Silent
  <2>2. TodoInv'
    BY <1>0, <2>1, DoneTypes DEF At
  <2>3. sound' \in [buffer : BOOLEAN, device : BOOLEAN, paused : BOOLEAN, callback : BOOLEAN]
    BY <1>0, <2>1 DEF FlagInv
  <2> QED BY <1>0, <2>1, <2>2, <2>3 DEF TypeInv, FlagInv, RingInv, HeardInv
<1>13. CASE Check
  <2>1. At("player", "check") /\ UNCHANGED <<device, bufferCS, ring, primary, program, given, heard>>
        /\ sound' = [sound EXCEPT !.device = TRUE]
    BY <1>13 DEF Check
  <2>2. sound' \in [buffer : BOOLEAN, device : BOOLEAN, paused : BOOLEAN, callback : BOOLEAN]
    BY <1>0, <2>1 DEF FlagInv
  <2>3. Light(r)
    BY <1>0, <1>3, <2>1
  <2>4. PICK s : Light(s) /\ todo' = [todo EXCEPT !["player"] = s]
    <3>0. PICK room \in Rooms : Then("player", CASE AtEnd -> (<<"pause">> \o Ensure) \o <<"stopped">>
                                                 [] ~AtEnd /\ Remain >= room -> <<>>
                                                 [] OTHER -> <<"take">>)
      BY <1>13 DEF Check
    <3>1. Light(CheckThen(room, r))
      <4>1. Light(<<"pause">> \o EnsureThen(<<"stopped">> \o r)) /\ Light(<<"take">> \o r)
        BY <1>0, <1>2, <1>7, <2>3
      <4> QED BY <4>1, <2>3 DEF CheckThen
    <3>2. r \in Seq(Steps)
      BY <1>6, <2>3
    <3>3. todo' = [todo EXCEPT !["player"] = CheckThen(room, r)]
      BY <3>0, <3>2, <1>5, CheckIs
    <3> QED BY <3>1, <3>3
  <2>5. TodoInv'
    BY <1>1, <2>1, <2>4
  <2> QED BY <1>0, <2>1, <2>2, <2>5 DEF TypeInv, FlagInv, RingInv, HeardInv
<1> QED BY <1>8, <1>9, <1>10, <1>11, <1>12, <1>13

\* Before the first call.
LEMMA InitTypes == Init => TypeInv
<1> SUFFICES ASSUME Init PROVE TypeInv
  OBVIOUS
<1>1. SourceInv(source, given)
  <2>1. EmptySource \in Sources /\ Len(EmptySource.queue) = 0 /\ EmptySource.done = 0
        /\ EmptySource.state = "initial"
    BY StreamAssumption DEF EmptySource, Sources, States
  <2> QED BY <2>1, StreamAssumption DEF Init, SourceInv
<1>2. todo \in [Threads -> Seq(Steps)] /\ \A t \in Threads : todo[t] = <<>>
  BY DEF Init
<1>3. TodoInv
  BY <1>2, Nothing DEF TodoInv
<1>4. RingInv /\ HeardInv
  BY StreamAssumption DEF Init, RingInv, HeardInv
<1>5. FlagInv
  <2>1. -1 \in -1 .. Buffers - 1
    BY StreamAssumption
  <2> QED BY <2>1 DEF Init, FlagInv
<1> QED BY <1>1, <1>3, <1>4, <1>5 DEF TypeInv

\* Every step.
LEMMA NextTypes == TypeInv /\ [Next]_vars => TypeInv'
<1> SUFFICES ASSUME TypeInv, [Next]_vars PROVE TypeInv'
  OBVIOUS
<1>1. CASE UNCHANGED vars
  <2>1. UNCHANGED <<source, index, playing, sent, mtx, seen, bufferCS, sound, ring,
                    primary, program, given, todo, heard>>
    BY <1>1 DEF vars, device, caller
  <2> QED BY <2>1 DEF TypeInv, TodoInv, RingInv, HeardInv, FlagInv
<1>2. CASE Next
  <2>1. "main" \in Threads /\ "player" \in Threads
    BY DEF Threads
  <2> QED BY <1>2, <2>1, MixTypes, StepTypes, MainTypes, CallTypes, PlayerTypes
          DEF Next, MainStep, PlayerStep
<1> QED BY <1>1, <1>2

\* The device, the two threads and their calls stay well-formed, however the
\* calls of the two threads and the mixer of OpenAL come in between each other.
THEOREM StreamTypes == Spec => []TypeOK
<1>1. Spec => []TypeInv
  BY InitTypes, NextTypes, PTL DEF Spec
<1> QED BY <1>1, TypeInvIsTyped, PTL

-----------------------------------------------------------------------------
(* The steps keep the invariant.                                            *)

\* What is known of a call before its first step is done.
LEMMA Knows ==
  ASSUME TypeInv, CallInv, NEW t \in Threads, NEW a \in Steps, At(t, a)
  PROVE  /\ Said(todo[t], a, Tail(todo[t])) /\ Fits(a, Tail(todo[t])) /\ Formed(Tail(todo[t]))
         /\ Done(t) => /\ todo'[t] = Tail(todo[t])
                       /\ \A u \in Threads : u # t => todo'[u] = todo[u]
<1>1. Said(todo[t], a, Tail(todo[t]))
  BY Does DEF TypeInv
<1>2. Formed(todo[t])
  BY DEF CallInv, M, P, Threads
<1>3. Done(t) => /\ todo'[t] = Tail(todo[t])
                 /\ \A u \in Threads : u # t => todo'[u] = todo[u]
  BY DEF Done, TypeInv, TodoInv
<1> QED BY <1>1, <1>2, <1>3 DEF Said

\* FillBuffer has paused the device and says so.
LEMMA SilentKeeps ==
  ASSUME TypeInv, Inv, Silent
  PROVE  Inv'
<1> DEFINE r == Tail(P)
<1>1. /\ Said(P, "silent", r) /\ Fits("silent", r) /\ Formed(r) /\ P' = r /\ M' = M
  BY Knows DEF Silent, Inv, Steps, Threads, M, P
<1>2. /\ UNCHANGED <<source, index, playing, sent, mtx, seen, bufferCS, ring, primary, program, given, heard>>
      /\ sound' = [sound EXCEPT !.device = FALSE]
  BY DEF Silent, device
<1>3. sound'.buffer = sound.buffer /\ sound'.device = FALSE /\ sound'.paused = sound.paused
  BY <1>2 DEF TypeInv, FlagInv
<1> HIDE DEF r
<1> USE DEF Inv
<1>4. CallInv'
  BY <1>1, <1>2 DEF CallInv, Said, Fits, Carried, Threads, M, P
<1>5. MainInv'
  BY <1>1, <1>2, <1>3 DEF MainInv
<1>6. PlayerInv'
  BY <1>1, <1>2, <1>3 DEF PlayerInv, Said
<1>7. UnprimedInv'
  BY <1>1, <1>2 DEF UnprimedInv, Exhausted
<1>8. FirstInv'
  BY <1>1, <1>2, <1>3 DEF FirstInv, Carried, Queueing, Said, Fits
<1>9. BufferInv'
  BY <1>1, <1>2 DEF BufferInv, Queueing, Queued, Said, Fits
<1>10. StartedInv'
  BY <1>1, <1>2 DEF StartedInv, Said, Fits, Threads, M, P
<1>11. OrderInv'
  BY <1>1, <1>2 DEF OrderInv, Carried, Base, Exhausted, Queued, Said, Fits
<1> QED BY <1>4, <1>5, <1>6, <1>7, <1>8, <1>9, <1>10, <1>11

\* What is done while BufferCS is held.
Guarded == {"stop", "stopped", "reset", "refill", "go", "take", "append", "queue", "play",
            "pause", "silent", "fill", "check", "unlock"}

\* The thread that is about to do such a step holds BufferCS, and what StartPlay
\* has done is still so while it holds it.
LEMMA Holds ==
  ASSUME TypeInv, CallInv
  PROVE  /\ Lead(M) \in Guarded => bufferCS = "main"
         /\ Lead(P) \in Guarded => bufferCS = "player"
         /\ ResetDone(M) \/ FirstGiven(M) \/ PlayDone(M) => bufferCS = "main"
<1>1. ASSUME NEW t \in Threads, Lead(todo[t]) \in Guarded PROVE Locked(todo[t])
  <2> DEFINE a == Lead(todo[t])
  <2>1. a \in Steps /\ At(t, a)
    BY <1>1 DEF Guarded, Lead, At, Steps
  <2>2. Said(todo[t], a, Tail(todo[t])) /\ Fits(a, Tail(todo[t]))
    BY <2>1, Knows
  <2> HIDE DEF a
  <2>3. a \in Guarded
    BY <1>1 DEF a
  <2> QED BY <2>2, <2>3 DEF Said, Fits, Guarded
<1> QED BY <1>1 DEF CallInv, Within, M, P, Threads

\* Nobody takes BufferCS from the other thread.
LEMMA LockKeeps ==
  ASSUME TypeInv, Inv, NEW t \in Threads, Lock(t)
  PROVE  Inv'
<1> DEFINE r == Tail(todo[t])
<1>1. /\ Said(todo[t], "lock", r) /\ Fits("lock", r) /\ Formed(r) /\ todo'[t] = r
      /\ \A u \in Threads : u # t => todo'[u] = todo[u]
  BY Knows DEF Lock, Inv, Steps
<1>2. UNCHANGED <<source, index, playing, sent, mtx, seen, sound, ring, primary, program, given, heard>>
      /\ bufferCS = None /\ bufferCS' = t
  BY DEF Lock, device
<1>3. \/ t = "main" /\ Said(M, "lock", r) /\ M' = r /\ P' = P /\ bufferCS' = "main"
      \/ t = "player" /\ Said(P, "lock", r) /\ P' = r /\ M' = M /\ bufferCS' = "player"
  BY <1>1, <1>2 DEF Threads, M, P
<1>4. None # "main" /\ None # "player"
  BY DEF None
<1> HIDE DEF r
<1> USE DEF Inv
<1>5. Lead(M) \notin Guarded /\ Lead(P) \notin Guarded
  BY <1>2, <1>4, Holds
<1>6. Lead(r) \notin {"append", "queue", "take", "refill", "act"}
  BY <1>1 DEF Fits
<1>7. CallInv'
  BY <1>1, <1>2, <1>3, <1>4, <1>6 DEF CallInv, Said, Fits, Carried, Threads, M, P
<1>8. MainInv'
  BY <1>1, <1>2, <1>3, <1>6 DEF MainInv, Said, Fits
<1>9. PlayerInv'
  BY <1>1, <1>2, <1>3, <1>4 DEF PlayerInv, Said, Fits
<1>10. UnprimedInv'
  BY <1>2, <1>3, <1>5 DEF UnprimedInv, Exhausted, Said, Guarded
<1>11. FirstInv'
  BY <1>2, <1>3, <1>4, <1>5, <1>6 DEF FirstInv, Carried, Queueing, Said, Guarded
<1>12. BufferInv'
  BY <1>2, <1>3, <1>6 DEF BufferInv, Queueing, Queued, Said
<1>13. StartedInv'
  BY <1>2, <1>3, <1>4, <1>5, <1>6 DEF StartedInv, Threads, M, P, Guarded
<1>14. OrderInv'
  BY <1>2, <1>3, <1>6 DEF OrderInv, Carried, Base, Exhausted, Queued, Said
<1> QED BY <1>7, <1>8, <1>9, <1>10, <1>11, <1>12, <1>13, <1>14

\* BufferCS is released.
LEMMA UnlockKeeps ==
  ASSUME TypeInv, Inv, NEW t \in Threads, Unlock(t)
  PROVE  Inv'
<1> DEFINE r == Tail(todo[t])
<1>1. /\ Said(todo[t], "unlock", r) /\ Fits("unlock", r) /\ Formed(r) /\ todo'[t] = r
      /\ \A u \in Threads : u # t => todo'[u] = todo[u]
  BY Knows DEF Unlock, Inv, Steps
<1>2. UNCHANGED <<source, index, playing, sent, mtx, seen, sound, ring, primary, program, given, heard>>
      /\ bufferCS' = None
  BY DEF Unlock, device
<1>3. \/ t = "main" /\ Said(M, "unlock", r) /\ M' = r /\ P' = P /\ Lead(M) = "unlock"
      \/ t = "player" /\ Said(P, "unlock", r) /\ P' = r /\ M' = M /\ Lead(P) = "unlock"
  BY <1>1, <1>2 DEF Threads, M, P, Said
<1>4. None # "main" /\ None # "player" /\ "main" # "player"
  BY DEF None
<1> HIDE DEF r
<1> USE DEF Inv
<1>5. /\ Lead(M) \in Guarded => bufferCS = "main"
      /\ Lead(P) \in Guarded => bufferCS = "player"
      /\ ResetDone(M) \/ FirstGiven(M) \/ PlayDone(M) => bufferCS = "main"
  BY Holds
<1>6. bufferCS = t
  BY <1>3, <1>5 DEF Guarded
<1>7. Lead(r) \notin {"append", "queue", "take", "refill", "act"}
  BY <1>1 DEF Fits
<1>8. CallInv'
  BY <1>1, <1>2, <1>3, <1>4, <1>6, <1>7 DEF CallInv, Said, Fits, Carried, Threads, M, P
<1>9. MainInv'
  BY <1>1, <1>2, <1>3, <1>7 DEF MainInv, Said, Fits
<1>10. PlayerInv'
  BY <1>1, <1>2, <1>3, <1>4, <1>6 DEF PlayerInv, MainInv, Said, Fits
<1>11. UnprimedInv'
  BY <1>2, <1>3 DEF UnprimedInv, Exhausted
<1>12. FirstInv'
  BY <1>1, <1>2, <1>3, <1>4, <1>5, <1>6, <1>7 DEF FirstInv, MainInv, Carried, Queueing, Said, Guarded
<1>13. BufferInv'
  BY <1>2, <1>3, <1>7 DEF BufferInv, Queueing, Queued
<1>14. StartedInv'
  BY <1>2, <1>3, <1>4, <1>6, <1>7 DEF StartedInv, Threads, M, P
<1>15. OrderInv'
  BY <1>2, <1>3, <1>7 DEF OrderInv, Carried, Base, Exhausted, Queued
<1> QED BY <1>8, <1>9, <1>10, <1>11, <1>12, <1>13, <1>14, <1>15

\* The sound is said to be stopped.
LEMMA StoppedKeeps ==
  ASSUME TypeInv, Inv, NEW t \in Threads, Stopped(t)
  PROVE  Inv'
<1> DEFINE r == Tail(todo[t])
<1>1. /\ Said(todo[t], "stopped", r) /\ Fits("stopped", r) /\ Formed(r) /\ todo'[t] = r
      /\ \A u \in Threads : u # t => todo'[u] = todo[u]
  BY Knows DEF Stopped, Inv, Steps
<1>2. UNCHANGED <<source, index, playing, sent, mtx, seen, bufferCS, ring, primary, program, given, heard>>
      /\ sound' = [sound EXCEPT !.buffer = FALSE, !.device = FALSE]
  BY DEF Stopped, device
<1>3. \/ t = "main" /\ Said(M, "stopped", r) /\ M' = r /\ P' = P /\ Lead(M) = "stopped"
      \/ t = "player" /\ Said(P, "stopped", r) /\ P' = r /\ M' = M /\ Lead(P) = "stopped"
  BY <1>1, <1>2 DEF Threads, M, P, Said
<1>4. sound'.buffer = FALSE /\ sound'.device = FALSE /\ sound'.paused = sound.paused
  BY <1>2 DEF TypeInv, FlagInv
<1> HIDE DEF r
<1> USE DEF Inv
<1>5. /\ Lead(M) \in Guarded => bufferCS = "main"
      /\ Lead(P) \in Guarded => bufferCS = "player"
  BY Holds
<1>6. bufferCS = t
  BY <1>3, <1>5 DEF Guarded
<1>7. Lead(r) \notin {"append", "queue", "take", "refill", "act"}
  BY <1>1 DEF Fits
<1>8. CallInv'
  BY <1>1, <1>2, <1>3, <1>6, <1>7 DEF CallInv, Said, Fits, Carried, Threads, M, P
<1>9. MainInv'
  BY <1>1, <1>2, <1>3, <1>4, <1>7 DEF MainInv, Said, Fits
<1>10. PlayerInv'
  BY <1>1, <1>2, <1>3, <1>4, <1>6 DEF PlayerInv, Said, Fits
<1>11. UnprimedInv'
  BY <1>2, <1>3 DEF UnprimedInv, Exhausted
<1>12. FirstInv'
  BY <1>2, <1>3, <1>4, <1>7 DEF FirstInv, Carried, Queueing
<1>13. BufferInv'
  BY <1>2, <1>3, <1>7 DEF BufferInv, Queueing, Queued
<1>14. StartedInv'
  BY <1>2, <1>3, <1>6, <1>7 DEF StartedInv, Threads, M, P
<1>15. OrderInv'
  BY <1>2, <1>3, <1>7 DEF OrderInv, Carried, Base, Exhausted, Queued
<1> QED BY <1>8, <1>9, <1>10, <1>11, <1>12, <1>13, <1>14, <1>15

\* The state of the source is read.
LEMMA EnsureReadKeeps ==
  ASSUME TypeInv, Inv, NEW t \in Threads, EnsureRead(t)
  PROVE  Inv'
<1> DEFINE r == Tail(todo[t])
<1>1. /\ Said(todo[t], "ensure", r) /\ Fits("ensure", r) /\ Formed(r) /\ todo'[t] = r
      /\ \A u \in Threads : u # t => todo'[u] = todo[u]
  BY Knows DEF EnsureRead, Inv, Steps
<1>2. UNCHANGED <<source, index, playing, sent, bufferCS, sound, ring, primary, program, given, heard>>
      /\ mtx \in {None, t} /\ mtx' = t
  BY DEF EnsureRead, caller
<1>3. \/ t = "main" /\ Said(M, "ensure", r) /\ M' = r /\ P' = P /\ Lead(M) = "ensure"
      \/ t = "player" /\ Said(P, "ensure", r) /\ P' = r /\ M' = M /\ Lead(P) = "ensure"
  BY <1>1, <1>2 DEF Threads, M, P, Said
<1>4. seen'[t] = source.state /\ \A u \in Threads : u # t => seen'[u] = seen[u]
  BY DEF EnsureRead, TypeInv, FlagInv
<1> HIDE DEF r
<1> USE DEF Inv
<1>5. Lead(r) = "act"
  BY <1>1 DEF Fits
<1>6. \A u \in Threads : u # t => Lead(todo[u]) \notin {"act", "queue"}
  <2>1. None \notin Threads
    BY DEF None, Threads
  <2> QED BY <2>1, <1>2 DEF CallInv
<1>7. CallInv'
  BY <1>1, <1>2, <1>3, <1>4, <1>5, <1>6 DEF CallInv, Said, Fits, Carried, Threads, M, P
<1>8. MainInv'
  BY <1>1, <1>2, <1>3, <1>5 DEF MainInv, Said
<1>9. PlayerInv'
  BY <1>1, <1>2, <1>3 DEF PlayerInv, Said
<1>10. UnprimedInv'
  BY <1>2, <1>3 DEF UnprimedInv, Exhausted
<1>11. FirstInv'
  BY <1>2, <1>3, <1>5 DEF FirstInv, Carried, Queueing
<1>12. BufferInv'
  BY <1>2, <1>3, <1>5 DEF BufferInv, Queueing, Queued
<1>13. StartedInv'
  BY <1>2, <1>3, <1>5 DEF StartedInv, Threads, M, P
<1>14. OrderInv'
  BY <1>2, <1>3, <1>5 DEF OrderInv, Carried, Base, Exhausted, Queued
<1> QED BY <1>7, <1>8, <1>9, <1>10, <1>11, <1>12, <1>13, <1>14

\* What can be said of the source s after EnsurePlayState has read its state, and
\* of what it is then made.
Ensured(s, state, w) ==
  /\ w.queue = s.queue \/ (w.queue = <<>> /\ index = -1)
  /\ index = -1 /\ ~playing /\ ~sent => w.state = "stopped" \/ w.queue = <<>>
  /\ playing /\ s.queue # <<>> /\ (state = "playing" => s.state = "playing")
       => w.state = "playing"
  /\ index = -1 /\ ~playing /\ state = s.state => w.state # "playing"
  /\ index = -1 /\ s.queue = <<>> /\ s.state # "playing" => w.state # "playing"
  /\ index # -1 /\ state = s.state /\ (s.state = "stopped" => s.done = 0)
       => w.done = s.done
  /\ index # -1 /\ ~playing /\ w.state = "stopped" => s.state = "stopped"

\* What EnsurePlayState makes of a source whose state it has read.
LEMMA WantedIs ==
  ASSUME NEW s, NEW g \in Nat, SourceInv(s, g), NEW state, index \in Int, playing \in BOOLEAN
  PROVE  Ensured(s, state, Wanted(s, state))
<1>0. /\ s = [state |-> s.state, done |-> s.done, queue |-> s.queue]
      /\ s.state \in States /\ (s.state = "initial" => s.done = 0)
  BY DEF SourceInv, Sources
<1> DEFINE w == Wanted(s, state)
           p == IF state = "playing" THEN SourcePause(s) ELSE s
           a == SourcePlay(s)
           q == SourceStop(p)
<1>1. /\ p.queue = s.queue /\ p.done = s.done
      /\ p.state = (IF state = "playing" /\ s.state = "playing" THEN "paused" ELSE s.state)
      /\ p = [state |-> p.state, done |-> p.done, queue |-> p.queue]
  BY <1>0 DEF SourcePause
<1>2. /\ a.queue = s.queue
      /\ a.state = (IF s.queue = <<>> THEN "stopped" ELSE "playing")
      /\ a.done = (IF s.queue = <<>> \/ s.state = "paused" THEN s.done ELSE 0)
  BY <1>0 DEF SourcePlay
<1> HIDE DEF p, a
<1>3. /\ q.queue = p.queue /\ q.state = (IF p.state = "initial" THEN "initial" ELSE "stopped")
  BY <1>1 DEF SourceStop
<1>4. EmptySource.queue = <<>> /\ EmptySource.state = "initial"
  BY DEF EmptySource
<1> HIDE DEF q
<1>5. w = IF playing THEN IF state = "playing" THEN s ELSE a
          ELSE IF index = -1 /\ p.state # "stopped" THEN IF sent THEN q ELSE EmptySource ELSE p
  BY DEF Wanted, Silenced, p, a, q
<1> HIDE DEF w
<1>6. ASSUME playing PROVE Ensured(s, state, w)
  BY <1>0, <1>2, <1>5, <1>6 DEF Ensured, States
<1>7. ASSUME ~playing PROVE Ensured(s, state, w)
  BY <1>0, <1>1, <1>3, <1>4, <1>5, <1>7 DEF Ensured, States
<1> QED BY <1>6, <1>7 DEF w

\* The source is brought to the state that is wanted.
LEMMA EnsureActKeeps ==
  ASSUME TypeInv, Inv, NEW t \in Threads, EnsureAct(t)
  PROVE  Inv'
<1> DEFINE r == Tail(todo[t])
<1>1. /\ Said(todo[t], "act", r) /\ Fits("act", r) /\ Formed(r) /\ todo'[t] = r
      /\ \A u \in Threads : u # t => todo'[u] = todo[u]
  BY Knows DEF EnsureAct, Inv, Steps
<1>2. UNCHANGED <<index, playing, sent, bufferCS, sound, ring, primary, program, given, heard>>
      /\ source' = Wanted(source, seen[t])
  BY DEF EnsureAct, caller
<1>3. \/ t = "main" /\ Said(M, "act", r) /\ M' = r /\ P' = P /\ Lead(M) = "act" /\ mtx = "main"
      \/ t = "player" /\ Said(P, "act", r) /\ P' = r /\ M' = M /\ Lead(P) = "act" /\ mtx = "player"
  BY <1>1, <1>2 DEF Threads, M, P, Said, Inv, CallInv
<1>4. Ensured(source, seen[t], source')
  <2>1. SourceInv(source, given) /\ given \in Nat /\ index \in Int /\ playing \in BOOLEAN
    BY DEF TypeInv, RingInv, FlagInv
  <2> QED BY <1>2, <2>1, WantedIs
<1>5. /\ Lead(M) \in Guarded => bufferCS = "main"
      /\ Lead(P) \in Guarded => bufferCS = "player"
  BY Holds DEF Inv
<1>6. Lead(r) \notin {"append", "queue", "take", "act"}
  BY <1>1 DEF Fits
<1>7. Lead(M) # "queue" /\ Lead(P) # "queue" /\ (\A u \in Threads : u # t => Lead(todo[u]) # "act")
  BY <1>3 DEF Inv, CallInv, Threads, M, P
<1>8. seen[t] = source.state \/ (seen[t] = "playing" /\ source.state = "stopped" /\ heard.dry)
  BY <1>3 DEF Inv, CallInv, Threads, M, P
<1>9. source.state \in {"playing", "paused"} => source.queue # <<>>
  <2>1. source.queue = <<>> => Len(source.queue) = 0
    OBVIOUS
  <2> QED BY <2>1 DEF TypeInv, SourceInv, Sources
<1>10. t = "player" => Lead(M) \notin {"refill", "take", "append"}
  BY <1>3, <1>5 DEF Guarded, Inv, CallInv
<1>0. Lead(r) = "refill" => ResetDone(r)
  <2> SUFFICES ASSUME Lead(r) = "refill" PROVE ResetDone(r)
    OBVIOUS
  <2>1. r \in Seq(Steps) /\ r # <<>>
    BY <1>1 DEF Said, Lead
  <2> QED BY <2>1, Leads DEF Said
<1> HIDE DEF r
<1> USE DEF Inv
<1>11. CallInv'
  BY <1>1, <1>2, <1>3, <1>6, <1>7 DEF CallInv, Said, Fits, Carried, Threads, M, P
<1>12. MainInv'
  BY <1>0, <1>1, <1>2, <1>3, <1>4, <1>6, <1>10 DEF MainInv, Said, Ensured
<1>13. PlayerInv'
  BY <1>1, <1>2, <1>3 DEF PlayerInv, Said
<1>14. UnprimedInv'
  BY <1>2, <1>3, <1>4 DEF UnprimedInv, Exhausted, Ensured
<1>15. FirstInv'
  BY <1>2, <1>3, <1>4, <1>6 DEF FirstInv, Carried, Queueing, Ensured
<1>16. BufferInv'
  BY <1>2, <1>3, <1>4, <1>6 DEF BufferInv, Queueing, Queued, Ensured
<1>17. StartedInv'
  <2> SUFFICES ASSUME index # -1, ~heard.dry
               PROVE  /\ source'.state = "stopped" => source'.done = 0 /\ ~playing
                      /\ Lead(P') = "append" => source'.done > 0 \/ Len(source'.queue) < Buffers
                      /\ Lead(P') # "queue"
    BY <1>2 DEF StartedInv
  <2>1. seen[t] = source.state
    BY <1>8
  <2>2. source.queue # <<>>
    BY <1>7 DEF BufferInv, Queueing
  <2>3. (source.state = "stopped" => source.done = 0) /\ source'.queue = source.queue
        /\ source'.done = source.done
    BY <1>4, <2>1 DEF StartedInv, Ensured
  <2>4. source'.state = "stopped" => ~playing /\ source.state = "stopped"
    BY <1>4, <2>1, <2>2 DEF Ensured
  <2>5. Lead(P') = "append" => Lead(P) = "append"
    BY <1>3, <1>6
  <2> QED BY <1>3, <1>6, <1>7, <2>3, <2>4, <2>5 DEF StartedInv
<1>18. OrderInv'
  <2>1. ASSUME heard.primed, ~heard.dry, index # -1 \/ source'.state = "playing"
        PROVE  index # -1 /\ source'.queue = source.queue /\ source'.done = source.done
    <3>1. seen[t] = source.state
      BY <1>8, <2>1
    <3>2. CASE index = -1
      BY <1>4, <1>9, <2>1, <3>1, <3>2 DEF Ensured, FirstInv
    <3>3. CASE index # -1
      BY <1>4, <2>1, <3>1, <3>3 DEF Ensured, StartedInv
    <3> QED BY <3>2, <3>3
  <2>2. Base' = Base
    BY <1>2, <1>3, <1>6 DEF Base, Carried
  <2> QED BY <1>2, <2>1, <2>2 DEF OrderInv, Exhausted, Queued
<1> QED BY <1>11, <1>12, <1>13, <1>14, <1>15, <1>16, <1>17, <1>18

\* Processed buffers are taken back.
LEMMA UnqueueKeeps ==
  ASSUME TypeInv, Inv, NEW t \in Threads, Unqueue(t)
  PROVE  Inv'
<1> DEFINE r == Tail(todo[t])
           n == Processed(source)
<1>1. /\ Said(todo[t], "append", r) /\ Fits("append", r) /\ Formed(r) /\ todo'[t] = r
      /\ \A u \in Threads : u # t => todo'[u] = todo[u]
  BY Knows DEF Unqueue, Inv, Steps
<1>2. UNCHANGED <<index, playing, seen, bufferCS, sound, ring, primary, program, given, heard>>
      /\ mtx = None /\ mtx' = t
  BY DEF Unqueue, caller
<1>3. \/ t = "main" /\ Said(M, "append", r) /\ M' = r /\ P' = P /\ Lead(M) = "append"
      \/ t = "player" /\ Said(P, "append", r) /\ P' = r /\ M' = M /\ Lead(P) = "append"
  BY <1>1, <1>2 DEF Threads, M, P, Said
<1>4. /\ Len(source'.queue) = Len(source.queue) - n /\ source'.done = 0
      /\ source'.state = source.state
      /\ \A i \in 1 .. Len(source'.queue) :
            source'.queue[i] = source.queue[i + n] /\ i + n \in 1 .. Len(source.queue)
      /\ Len(source'.queue) \in Nat /\ (source'.queue = <<>> <=> Len(source'.queue) = 0)
  <2>1. given \in Nat /\ SourceInv(source, given)
    BY DEF TypeInv, RingInv
  <2>0. source' = [source EXCEPT !.queue = SubSeq(@, n + 1, Len(@)), !.done = 0]
    BY DEF Unqueue
  <2>2. SourceInv(source', given) /\ Unqueued(source, n, source')
    BY <2>0, <2>1, UnqueueTypes
  <2>3. source'.queue \in Seq([buffer : 0 .. Buffers - 1, unit : 1 .. MaxUnits])
    BY <2>2 DEF SourceInv, Sources
  <2>4. Len(source'.queue) \in Nat /\ (source'.queue = <<>> <=> Len(source'.queue) = 0)
    BY <2>3
  <2> HIDE DEF n
  <2> QED BY <2>2, <2>4 DEF Unqueued
<1>5. /\ Len(source.queue) \in Nat /\ Len(source.queue) <= Buffers
      /\ source.done \in Nat /\ source.done <= Len(source.queue)
      /\ source.state \in States /\ (source.state = "initial" => source.done = 0)
      /\ n \in 0 .. Len(source.queue)
      /\ n = (IF source.state = "stopped" THEN Len(source.queue) ELSE source.done)
      /\ (source.state \in {"playing", "paused"} => source.done < Len(source.queue))
      /\ (source.queue = <<>> <=> Len(source.queue) = 0)
      /\ index \in Int /\ given \in Nat /\ Buffers \in Nat
  BY StreamAssumption DEF TypeInv, SourceInv, Sources, Processed, FlagInv, RingInv, States
<1> HIDE DEF n
<1>6. /\ Lead(M) \in Guarded => bufferCS = "main"
      /\ Lead(P) \in Guarded => bufferCS = "player"
      /\ ResetDone(M) \/ FirstGiven(M) \/ PlayDone(M) => bufferCS = "main"
  BY Holds DEF Inv
<1>7. Lead(r) = "queue" /\ bufferCS = t /\ "main" # "player" /\ ~ResetDone(M)
  BY <1>1, <1>3, <1>6 DEF Fits, Guarded, Said, Inv, MainInv
<1>8. t = "player" => Lead(M) \notin Guarded
  BY <1>6, <1>7
<1>9. t = "main" => Lead(P) \notin Guarded
  BY <1>6, <1>7
<1>10. heard.primed
  BY <1>3 DEF Inv, CallInv, Carried
<1>11. index = -1 => source'.queue = <<>> /\ source.state # "playing"
  <2>1. index = -1 => source.queue = <<>> \/ source.state = "stopped"
    BY <1>3 DEF Inv, MainInv, FirstInv
  <2> QED BY <1>4, <1>5, <2>1
<1>12. index # -1 /\ ~heard.dry => t = "player" /\ source.state # "stopped" /\ n = source.done
  <2>1. index # -1 => t = "player"
    BY <1>3 DEF Inv, MainInv
  <2>2. t = "player" => playing
    BY <1>3, <1>7 DEF Inv, PlayerInv, Said
  <2>3. index # -1 /\ ~heard.dry => source.state # "stopped"
    BY <1>3, <1>7, <2>1, <2>2 DEF Inv, StartedInv, Threads, M, P
  <2> QED BY <2>1, <2>3, <1>5
<1>13. Said(r, "queue", Tail(r))
  <2>1. r \in Seq(Steps) /\ r # <<>>
    BY <1>1, <1>7 DEF Said, Lead
  <2> QED BY <1>7, <2>1, Leads
<1> HIDE DEF r
<1>20. None \notin Threads
  BY DEF None, Threads
<1>21. CallInv'
  BY <1>1, <1>2, <1>3, <1>7, <1>20 DEF Inv, CallInv, Said, Fits, Carried, Threads, M, P
<1>22. MainInv'
  BY <1>2, <1>3, <1>4, <1>6, <1>7, <1>8, <1>10, <1>13 DEF Inv, MainInv, Said, Guarded
<1>23. PlayerInv'
  BY <1>2, <1>3 DEF Inv, PlayerInv, Said
<1>24. UnprimedInv'
  BY <1>2, <1>3, <1>10 DEF Inv, UnprimedInv, MainInv, CallInv, M, P
<1>25. FirstInv'
  <2>1. Lead(P') \in {"append", "queue"} <=> Lead(P) \in {"append", "queue"}
    BY <1>3, <1>7
  <2>2. Carried
    BY <1>3 DEF Carried
  <2> QED BY <1>2, <1>11, <2>1, <2>2 DEF Inv, FirstInv
<1>26. BufferInv'
  <2>1. Queueing'
    BY <1>3, <1>7 DEF Queueing
  <2>2. ASSUME index # -1, NEW i \in 1 .. Len(source'.queue)
        PROVE  source'.queue[i].buffer = Numbered(index - (Len(source'.queue) - i))
    <3>1. source'.queue[i] = source.queue[i + n] /\ i + n \in 1 .. Len(source.queue)
      BY <1>4, <2>2
    <3>2. index - (Len(source'.queue) - i) = index - (Len(source.queue) - (i + n))
      BY <1>4, <1>5, <2>2, SMTT(40)
    <3> QED BY <3>1, <3>2, <2>2 DEF Inv, BufferInv, Queued
  <2>3. index' = index
    BY <1>2
  <2> QED BY <2>1, <2>2, <2>3 DEF BufferInv, Queued
<1>27. StartedInv'
  <2> SUFFICES ASSUME index # -1, ~heard.dry
               PROVE  source'.state # "stopped" /\ Lead(P') # "append"
                      /\ Len(source'.queue) < Buffers
    BY <1>2 DEF StartedInv
  <2>1. t = "player" /\ source.state # "stopped" /\ n = source.done
    BY <1>12
  <2>2. source.done > 0 \/ Len(source.queue) < Buffers
    BY <1>3, <2>1 DEF Inv, StartedInv
  <2> QED BY <1>3, <1>4, <1>5, <1>7, <2>1, <2>2
<1>28. OrderInv'
  <2>1. Base' = Base /\ Base \in Int
    BY <1>2, <1>3, <1>5, <1>7 DEF Base, Carried
  <2>2. ASSUME heard.primed, ~heard.dry, index # -1 \/ source'.state = "playing"
        PROVE  /\ \A i \in 1 .. Len(source'.queue) :
                     source'.queue[i].unit = Base - (Len(source'.queue) - i)
               /\ heard.last = Base - (Len(source'.queue) - source'.done)
    <3>1. index # -1 /\ n = source.done
      BY <1>4, <1>11, <1>12, <2>2
    <3>2. /\ \A i \in Queued : source.queue[i].unit = Base - (Len(source.queue) - i)
          /\ heard.last = Base - (Len(source.queue) - source.done)
      BY <3>1, <2>2 DEF Inv, OrderInv
    <3>3. ASSUME NEW i \in 1 .. Len(source'.queue)
          PROVE  source'.queue[i].unit = Base - (Len(source'.queue) - i)
      <4>1. source'.queue[i] = source.queue[i + n] /\ i + n \in Queued
        BY <1>4 DEF Queued
      <4>2. Base - (Len(source'.queue) - i) = Base - (Len(source.queue) - (i + n))
        BY <1>4, <1>5, <2>1
      <4> QED BY <3>2, <4>1, <4>2
    <3>4. Base - (Len(source'.queue) - source'.done) = Base - (Len(source.queue) - source.done)
      BY <1>4, <1>5, <2>1, <3>1
    <3> QED BY <3>2, <3>3, <3>4
  <2> QED BY <1>2, <2>1, <2>2 DEF Inv, OrderInv, Exhausted, Queued
<1> QED BY <1>21, <1>22, <1>23, <1>24, <1>25, <1>26, <1>27, <1>28 DEF Inv

\* What is left after three steps.
LEMMA DropThree ==
  ASSUME NEW S, NEW s \in Seq(S), s # <<>>, Tail(s) # <<>>, Tail(Tail(s)) # <<>>
  PROVE  SubSeq(s, 4, Len(s)) = Tail(Tail(Tail(s)))
<1> DEFINE t == Tail(s)
           u == Tail(t)
           v == Tail(u)
           w == SubSeq(s, 4, Len(s))
<1>1. \A x \in Seq(S) : x # <<>> => /\ Tail(x) \in Seq(S) /\ Len(Tail(x)) = Len(x) - 1
                                    /\ Len(x) \in Nat /\ Len(x) >= 1
                                    /\ \A i \in 1 .. Len(x) - 1 : Tail(x)[i] = x[i + 1]
  OBVIOUS
<1>2. /\ t \in Seq(S) /\ Len(t) = Len(s) - 1 /\ Len(s) \in Nat /\ Len(s) >= 1
      /\ \A i \in 1 .. Len(s) - 1 : t[i] = s[i + 1]
  BY <1>1
<1> HIDE DEF t
<1>3. /\ u \in Seq(S) /\ Len(u) = Len(t) - 1 /\ Len(t) >= 1
      /\ \A i \in 1 .. Len(t) - 1 : u[i] = t[i + 1]
  BY <1>1, <1>2 DEF t
<1> HIDE DEF u
<1>4. /\ v \in Seq(S) /\ Len(v) = Len(u) - 1 /\ Len(u) >= 1
      /\ \A i \in 1 .. Len(u) - 1 : v[i] = u[i + 1]
  BY <1>1, <1>3 DEF t, u
<1>5. \A i \in 4 .. Len(s) : s[i] \in S
  BY <1>2
<1>6. /\ w \in Seq(S) /\ Len(w) = (IF 4 <= Len(s) THEN Len(s) - 4 + 1 ELSE 0)
      /\ \A i \in 1 .. Len(s) - 4 + 1 : w[i] = s[4 + i - 1]
  BY <1>2, <1>5, SubSeqProperties
<1> HIDE DEF v, w
<1>7. Len(w) = Len(v) /\ Len(v) = Len(s) - 3
  BY <1>2, <1>3, <1>4, <1>6
<1>8. ASSUME NEW i \in 1 .. Len(w) PROVE w[i] = v[i]
  <2>1. /\ i \in 1 .. Len(u) - 1 /\ i + 1 \in 1 .. Len(t) - 1 /\ i + 2 \in 1 .. Len(s) - 1
        /\ i \in 1 .. Len(s) - 4 + 1 /\ (i + 1) + 1 = i + 2 /\ (i + 2) + 1 = i + 3 /\ 4 + i - 1 = i + 3
    BY <1>2, <1>3, <1>4, <1>7, <1>8
  <2>2. v[i] = u[i + 1] /\ u[i + 1] = t[i + 2] /\ t[i + 2] = s[i + 3] /\ w[i] = s[i + 3]
    <3>1. u[i + 1] = t[(i + 1) + 1] /\ t[i + 2] = s[(i + 2) + 1] /\ w[i] = s[4 + i - 1]
      BY <2>1, <1>2, <1>3, <1>6
    <3> QED BY <2>1, <3>1, <1>4
  <2> QED BY <2>2
<1>9. w = v
  BY <1>4, <1>6, <1>7, <1>8, SeqEqual
<1> QED BY <1>9 DEF t, u, v, w

\* The buffer of a unit is numbered from the last one's.
LEMMA Wraps ==
  ASSUME NEW l \in Nat, l < Buffers, NEW i \in 1 .. l, NEW x \in 0 .. Buffers - 1,
         NEW y, y = x + 1 \/ (y = 0 /\ x = Buffers - 1)
  PROVE  Numbered(y - (l + 1 - i)) = Numbered(x - (l - i))
<1>0. Buffers \in Nat
  BY StreamAssumption
<1>1. CASE y = x + 1
  <2>1. y - (l + 1 - i) = x - (l - i)
    BY <1>1
  <2> QED BY <2>1
<1>2. CASE y = 0 /\ x = Buffers - 1
  BY <1>0, <1>2 DEF Numbered
<1> QED BY <1>1, <1>2

\* The next buffer is filled and queued, if there is room for it.
LEMMA QueueKeeps ==
  ASSUME TypeInv, Inv, NEW t \in Threads, Queue(t)
  PROVE  Inv'
<1> DEFINE r == Tail(todo[t])
<1>1. /\ Said(todo[t], "queue", r) /\ Fits("queue", r) /\ Formed(r)
      /\ Done(t) => /\ todo'[t] = r /\ \A u \in Threads : u # t => todo'[u] = todo[u]
  BY Knows DEF Queue, Inv, Steps
<1>2. UNCHANGED <<playing, sent, seen, bufferCS, sound, ring, primary, program, given, heard>>
  BY DEF Queue, caller
<1>3. \/ t = "main" /\ todo[t] = M /\ todo'[t] = M' /\ Lead(M) = "queue"
      \/ t = "player" /\ todo[t] = P /\ todo'[t] = P' /\ Lead(P) = "queue"
  BY <1>1 DEF Threads, M, P, Said
<1>4. /\ Lead(M) \in Guarded => bufferCS = "main"
      /\ Lead(P) \in Guarded => bufferCS = "player"
      /\ ResetDone(M) \/ FirstGiven(M) \/ PlayDone(M) => bufferCS = "main"
  BY Holds DEF Inv
<1>5. Lead(r) = "ensure" /\ bufferCS = t /\ "main" # "player"
  BY <1>1, <1>3, <1>4 DEF Fits, Guarded, Said
<1>6. /\ t = "player" => Lead(M) \notin Guarded
      /\ t = "main" => Lead(P) \notin Guarded
  BY <1>4, <1>5
<1>7. heard.primed /\ Carried /\ Queueing /\ mtx = t /\ (t = "main" => index = -1)
      /\ \A u \in Threads : Lead(todo[u]) # "act"
  BY <1>3 DEF Inv, CallInv, MainInv, Carried, Queueing, Threads, M, P
<1>8. /\ Len(source.queue) \in Nat /\ source.done \in Nat /\ source.done <= Len(source.queue)
      /\ (source.queue = <<>> <=> Len(source.queue) = 0)
      /\ index \in -1 .. Buffers - 1 /\ given \in 1 .. MaxUnits /\ Buffers \in Nat /\ Buffers >= 1
      /\ (source.state \in {"playing", "paused"} => source.done < Len(source.queue))
  <2>1. given >= 1
    BY <1>1, <1>3 DEF TypeInv, TodoInv, Said
  <2> QED BY <2>1, StreamAssumption DEF TypeInv, SourceInv, Sources, FlagInv, RingInv
<1>9. index = -1 => Len(source.queue) = 0
  BY <1>7, <1>8 DEF Inv, FirstInv
<1>10. Said(r, "ensure", Tail(r)) /\ Said(Tail(r), "act", Tail(Tail(r)))
       /\ Fits("act", Tail(Tail(r))) /\ Formed(Tail(Tail(r)))
  <2>1. r \in Seq(Steps) /\ r # <<>>
    BY <1>1, <1>5 DEF Said, Lead
  <2> HIDE DEF r
  <2>2. Said(r, "ensure", Tail(r)) /\ Fits("ensure", Tail(r)) /\ Formed(Tail(r))
    <3>1. Said(r, "ensure", Tail(r))
      BY <1>5, <2>1, Leads
    <3> QED BY <3>1, <1>1 DEF Said
  <2>3. Lead(Tail(r)) = "act"
    BY <2>2 DEF Fits
  <2>4. Tail(r) \in Seq(Steps) /\ Tail(r) # <<>>
    BY <2>2, <2>3 DEF Said, Lead
  <2>5. Said(Tail(r), "act", Tail(Tail(r)))
    BY <2>3, <2>4, Leads
  <2> QED BY <2>2, <2>5 DEF Said
<1> USE DEF Inv
<1>11. CASE Len(source.queue) >= Buffers
  <2> DEFINE e == Tail(Tail(r))
  <2>1. t = "player" /\ index # -1
    BY <1>3, <1>7, <1>8, <1>9, <1>11
  <2>2. mtx' = None /\ source' = source /\ index' = index
        /\ todo' = [todo EXCEPT !["player"] = SubSeq(todo["player"], 4, Len(todo["player"]))]
    BY <1>11, <2>1 DEF Queue, TypeInv, TodoInv
  <2>3. P' = e /\ M' = M
    <3>1. P \in Seq(Steps) /\ P # <<>> /\ Tail(P) = r /\ r # <<>> /\ Tail(r) # <<>>
      BY <1>1, <1>3, <1>10, <2>1 DEF Said
    <3>2. SubSeq(P, 4, Len(P)) = e
      <4> HIDE DEF r
      <4> QED BY <3>1, DropThree
    <3>3. todo \in [Threads -> Seq(Steps)] /\ "player" \in Threads /\ "main" \in Threads
      BY DEF TypeInv, TodoInv, Threads
    <3> QED BY <2>2, <3>2, <3>3 DEF P, M
  <2>4. Said(P, "queue", r) /\ Lead(P) = "queue"
    BY <1>1, <1>3, <2>1
  <2> HIDE DEF r, e
  <2>5. Lead(e) \notin {"append", "queue", "take", "act"}
    BY <1>10 DEF Fits, e
  <2>6. Locked(e) /\ Formed(e) /\ OfPlayer(e)
        /\ (Feeding(e) => Feeding(P)) /\ (Filling(e) => Filling(P)) /\ (Silencing(e) <=> Silencing(P))
    <3>1. Said(r, "ensure", Tail(r)) /\ Said(Tail(r), "act", e) /\ Formed(e)
      BY <1>10 DEF e
    <3>2. Locked(P) /\ OfPlayer(P)
      BY <1>5, <2>1 DEF CallInv
    <3> QED BY <3>1, <3>2, <2>4 DEF Said
  <2>7. heard.dry
    BY <1>3, <1>8, <1>11, <2>1 DEF StartedInv
  <2>15. \A u \in Threads : Lead(todo'[u]) \notin {"act", "queue"}
    BY <1>6, <1>7, <2>1, <2>3, <2>5 DEF Threads, M, P, Guarded
  <2>8. CallInv'
    BY <1>2, <1>5, <1>7, <2>1, <2>2, <2>3, <2>4, <2>6, <2>15 DEF CallInv, Said
  <2>9. MainInv'
    BY <1>2, <2>2, <2>3 DEF MainInv
  <2>10. PlayerInv'
    BY <1>2, <2>2, <2>3, <2>6 DEF PlayerInv
  <2>11. UnprimedInv'
    BY <1>2, <2>2, <2>3 DEF UnprimedInv, Exhausted
  <2>12. FirstInv'
    BY <1>2, <2>1, <2>2 DEF FirstInv
  <2>13. BufferInv'
    <3>1. source.queue # <<>> /\ UNCHANGED <<source, index>>
      BY <1>8, <1>11, <2>2
    <3> QED BY <3>1 DEF BufferInv, Queued
  <2>14. StartedInv' /\ OrderInv'
    BY <1>2, <2>2, <2>7 DEF StartedInv, OrderInv, Exhausted
  <2> QED BY <2>8, <2>9, <2>10, <2>11, <2>12, <2>13, <2>14
<1>12. CASE Len(source.queue) < Buffers
  <2>1. /\ index' = NextIndex /\ Done(t) /\ mtx' = mtx
        /\ source' = [source EXCEPT !.queue = Append(@, [buffer |-> NextIndex, unit |-> given])]
    <3>1. ~(Len(source.queue) >= Buffers)
      BY <1>8, <1>12
    <3> QED BY <3>1 DEF Queue
  <2>2. /\ NextIndex \in 0 .. Buffers - 1
        /\ NextIndex = index + 1 \/ (NextIndex = 0 /\ index = Buffers - 1)
    BY <1>8 DEF NextIndex
  <2>3. /\ Len(source'.queue) = Len(source.queue) + 1 /\ source'.done = source.done
        /\ source'.state = source.state
        /\ \A i \in 1 .. Len(source.queue) : source'.queue[i] = source.queue[i]
        /\ source'.queue[Len(source.queue) + 1] = [buffer |-> NextIndex, unit |-> given]
    <3>1. SourceInv(source, given) /\ given \in 1 .. MaxUnits
      BY <1>8 DEF TypeInv
    <3> HIDE DEF NextIndex
    <3> QED BY <1>12, <2>1, <2>2, <3>1, QueueTypes
  <2> HIDE DEF NextIndex
  <2>4. \/ t = "main" /\ Said(M, "queue", r) /\ M' = r /\ P' = P
        \/ t = "player" /\ Said(P, "queue", r) /\ P' = r /\ M' = M
    BY <1>1, <2>1 DEF Threads, M, P
  <2>5. index' # -1 /\ source'.queue # <<>> /\ ~Carried'
    <3>1. source'.queue # <<>>
      <4>1. source'.queue = <<>> => Len(source'.queue) = 0
        OBVIOUS
      <4> QED BY <4>1, <1>8, <2>3
    <3>2. index' # -1
      BY <1>8, <2>1, <2>2
    <3> HIDE DEF r
    <3>3. ~Carried'
      BY <1>5, <1>6, <2>4 DEF Carried, Guarded
    <3> QED BY <3>1, <3>2, <3>3
  <2>14. Said(r, "ensure", Tail(r))
    BY <1>10
  <2> HIDE DEF r
  <2>6. CallInv'
    <3>1. \A u \in Threads : Lead(todo'[u]) # "act"
          /\ (Lead(todo'[u]) = "queue" => Lead(todo[u]) = "queue")
      BY <1>1, <1>5, <1>7, <2>1
    <3>2. \A u \in Threads : Lead(todo'[u]) = "queue" => mtx' = u
      BY <2>1, <3>1 DEF CallInv
    <3> QED BY <1>1, <1>2, <1>5, <2>4, <2>5, <3>1, <3>2 DEF CallInv, Said, Fits
  <2>7. MainInv'
    <3>1. Lead(M') \notin {"take", "append", "queue", "refill"}
      BY <1>5, <1>6, <2>4 DEF Guarded
    <3>2. CASE t = "main"
      BY <1>1, <1>2, <1>5, <2>4, <2>5, <2>14, <3>1, <3>2 DEF MainInv, Said, Fits
    <3>3. CASE t = "player"
      BY <1>2, <1>4, <1>5, <2>4, <2>5, <3>1, <3>3 DEF MainInv
    <3> QED BY <1>3, <3>2, <3>3
  <2>8. PlayerInv'
    BY <1>2, <2>4 DEF PlayerInv, Said
  <2>9. UnprimedInv'
    BY <1>2, <1>3, <1>7 DEF UnprimedInv, MainInv, CallInv, M, P
  <2>10. FirstInv'
    BY <2>5 DEF FirstInv
  <2>11. BufferInv'
    <3>1. ASSUME NEW i \in 1 .. Len(source.queue) + 1
          PROVE  source'.queue[i].buffer = Numbered(NextIndex - (Len(source.queue) + 1 - i))
      <4>1. CASE i = Len(source.queue) + 1
        BY <4>1, <1>8, <2>2, <2>3 DEF Numbered
      <4>2. CASE i # Len(source.queue) + 1
        <5>1. i \in 1 .. Len(source.queue) /\ source'.queue[i] = source.queue[i]
          BY <4>2, <1>8, <2>3
        <5>2. index # -1
          BY <1>9, <5>1
        <5>3. source.queue[i].buffer = Numbered(index - (Len(source.queue) - i))
          BY <5>1, <5>2 DEF BufferInv, Queued
        <5>4. index \in 0 .. Buffers - 1
          BY <1>8, <5>2
        <5>5. Numbered(NextIndex - (Len(source.queue) + 1 - i))
                = Numbered(index - (Len(source.queue) - i))
          <6> DEFINE l == Len(source.queue)
          <6>1. l \in Nat /\ l < Buffers /\ i \in 1 .. l /\ index \in 0 .. Buffers - 1
                /\ (NextIndex = index + 1 \/ (NextIndex = 0 /\ index = Buffers - 1))
            BY <5>1, <5>4, <1>8, <1>12, <2>2
          <6> HIDE DEF l
          <6>2. Numbered(NextIndex - (l + 1 - i)) = Numbered(index - (l - i))
            BY <6>1, Wraps
          <6> QED BY <6>2 DEF l
        <5> QED BY <5>1, <5>3, <5>5
      <4> QED BY <4>1, <4>2
    <3> QED BY <2>1, <2>3, <2>5, <3>1 DEF BufferInv, Queued
  <2>12. StartedInv'
    <3> SUFFICES ASSUME ~heard.dry
                 PROVE  /\ source'.state = "stopped" =>
                             source'.done = 0 /\ \E u \in Threads :
                               bufferCS = u /\ Lead(todo'[u]) \in {"ensure", "act"}
                        /\ Lead(P') # "append" /\ Lead(P') # "queue"
      BY <1>2 DEF StartedInv
    <3>1. source'.state = "stopped" => source'.done = 0
      BY <1>8, <1>9, <2>3 DEF StartedInv
    <3>2. bufferCS = t /\ Lead(todo'[t]) = "ensure"
      BY <1>1, <1>5, <2>1
    <3> QED BY <1>5, <1>6, <2>4, <3>1, <3>2 DEF Guarded
  <2>13. OrderInv'
    <3>1. Base = given - 1 /\ Base' = given
      BY <1>2, <1>7, <2>5 DEF Base
    <3>2. ASSUME ~heard.dry
          PROVE  /\ \A i \in 1 .. Len(source'.queue) :
                      source'.queue[i].unit = given - (Len(source'.queue) - i)
                 /\ heard.last = given - (Len(source'.queue) - source'.done)
      <4>1. /\ \A i \in 1 .. Len(source.queue) :
                  source.queue[i].unit = given - 1 - (Len(source.queue) - i)
            /\ heard.last = given - 1 - (Len(source.queue) - source.done)
        <5>1. CASE index = -1
          <6>1. heard.last = given - 1 /\ Len(source.queue) = 0 /\ source.done = 0
            BY <1>7, <1>8, <1>9, <5>1 DEF FirstInv
          <6> QED BY <6>1, <1>8
        <5>2. CASE index # -1
          BY <1>7, <3>1, <3>2, <5>2 DEF OrderInv, Queued
        <5> QED BY <5>1, <5>2
      <4>2. ASSUME NEW i \in 1 .. Len(source.queue) + 1
            PROVE  source'.queue[i].unit = given - (Len(source.queue) + 1 - i)
        <5>1. CASE i = Len(source.queue) + 1
          BY <5>1, <1>8, <2>3
        <5>2. CASE i # Len(source.queue) + 1
          <6>1. i \in 1 .. Len(source.queue) /\ source'.queue[i] = source.queue[i]
            BY <5>2, <1>8, <2>3
          <6>2. given - 1 - (Len(source.queue) - i) = given - (Len(source.queue) + 1 - i)
            BY <6>1, <1>8
          <6> QED BY <6>1, <6>2, <4>1
        <5> QED BY <5>1, <5>2
      <4>3. heard.last = given - (Len(source.queue) + 1 - source.done)
        BY <4>1, <1>8
      <4>4. Len(source'.queue) = Len(source.queue) + 1 /\ source'.done = source.done
        BY <2>3
      <4>5. ASSUME NEW i \in 1 .. Len(source'.queue)
            PROVE  source'.queue[i].unit = given - (Len(source'.queue) - i)
        BY <4>2, <4>4
      <4>6. heard.last = given - (Len(source'.queue) - source'.done)
        BY <4>3, <4>4, <1>8, SMTT(40)
      <4> QED BY <4>5, <4>6
    <3> QED BY <1>2, <3>1, <3>2 DEF OrderInv, Exhausted, Queued
  <2> QED BY <2>6, <2>7, <2>8, <2>9, <2>10, <2>11, <2>12, <2>13
<1> QED BY <1>8, <1>11, <1>12

\* The flags of the device are set.
LEMMA FlagsKeep ==
  ASSUME TypeInv, Inv, NEW t \in Threads, Flags(t)
  PROVE  Inv'
<1> DEFINE r == Tail(todo[t])
<1>1. PICK a \in {"play", "pause", "stop", "reset"} : At(t, a)
  BY DEF Flags
<1>2. /\ Said(todo[t], a, r) /\ Fits(a, r) /\ Formed(r) /\ todo'[t] = r
      /\ \A u \in Threads : u # t => todo'[u] = todo[u]
  BY <1>1, Knows DEF Flags, Inv, Steps
<1>3. /\ UNCHANGED <<source, mtx, seen, bufferCS, sound, ring, primary, program, given, heard>>
      /\ a = "play" => playing' = TRUE /\ index' = index /\ sent' = sent
      /\ a = "pause" => playing' = FALSE /\ index' = index /\ sent' = sent
      /\ a = "stop" => playing' = FALSE /\ index' = -1 /\ sent' = sent
      /\ a = "reset" => playing' = FALSE /\ index' = -1 /\ sent' = FALSE
  BY <1>1 DEF Flags, caller, At
<1>4. \/ t = "main" /\ Said(M, a, r) /\ M' = r /\ P' = P /\ Lead(M) = a
      \/ t = "player" /\ Said(P, a, r) /\ P' = r /\ M' = M /\ Lead(P) = a
  BY <1>2 DEF Threads, M, P, Said
<1> HIDE DEF r
<1> USE DEF Inv
<1>5. /\ Lead(M) \in Guarded => bufferCS = "main"
      /\ Lead(P) \in Guarded => bufferCS = "player"
      /\ ResetDone(M) \/ FirstGiven(M) \/ PlayDone(M) => bufferCS = "main"
  BY Holds
<1>6. bufferCS = t /\ Lead(r) = "ensure" /\ "main" # "player"
  BY <1>2, <1>4, <1>5 DEF Guarded, Fits
<1>7. /\ t = "player" => /\ Lead(M) \notin Guarded
                         /\ ~ResetDone(M) /\ ~FirstGiven(M) /\ ~PlayDone(M)
      /\ t = "main" => Lead(P) \notin Guarded
  BY <1>5, <1>6
<1>8. /\ t = "main" => a \in {"play", "stop", "reset"} /\ (a = "play" => FirstGiven(M))
      /\ t = "player" => a \in {"play", "pause"} /\ (a = "play" => Filling(P))
  BY <1>2, <1>4 DEF CallInv, Said, Fits
<1>9. ~Carried /\ ~Carried' /\ ~Queueing /\ ~Queueing'
  BY <1>4, <1>6, <1>7 DEF Carried, Queueing, Guarded
<1>10. Lead(M') \notin {"refill", "take", "append", "queue"}
  BY <1>4, <1>6, <1>7 DEF Guarded
<1>11. CallInv'
  BY <1>2, <1>3, <1>4, <1>6, <1>9 DEF CallInv, Said, Fits, Threads, M, P
<1>12. MainInv'
  <2>1. CASE t = "main"
    BY <1>2, <1>3, <1>4, <1>6, <1>8, <1>10, <2>1 DEF MainInv, Said, Fits
  <2>2. CASE t = "player"
    BY <1>3, <1>4, <1>6, <1>7, <1>10, <2>2 DEF MainInv
  <2> QED BY <1>4, <2>1, <2>2
<1>13. PlayerInv'
  <2>1. CASE t = "main"
    BY <1>3, <1>4, <1>6, <2>1 DEF PlayerInv
  <2>2. CASE t = "player"
    BY <1>2, <1>3, <1>4, <1>6, <1>8, <2>2 DEF PlayerInv, Said, Fits
  <2> QED BY <1>4, <2>1, <2>2
<1>14. UnprimedInv'
  BY <1>3, <1>4, <1>8, <1>10 DEF UnprimedInv, Exhausted
<1>15. FirstInv'
  <2>1. CASE t = "main"
    BY <1>3, <1>4, <1>6, <1>7, <1>8, <1>9, <2>1 DEF FirstInv, MainInv, Guarded
  <2>2. CASE t = "player"
    BY <1>3, <1>4, <1>6, <1>8, <1>9, <2>2 DEF FirstInv, PlayerInv
  <2> QED BY <1>4, <2>1, <2>2
<1>16. BufferInv'
  <2>1. index' = index \/ index' = -1
    BY <1>3
  <2> QED BY <1>3, <1>9, <2>1 DEF BufferInv, Queued
<1>17. StartedInv'
  <2>1. index' = index \/ index' = -1
    BY <1>3
  <2>2. bufferCS = t /\ Lead(todo'[t]) = "ensure"
    BY <1>2, <1>6
  <2>3. Lead(P') \notin {"append", "queue"}
    BY <1>9 DEF Carried
  <2> QED BY <1>3, <2>1, <2>2, <2>3 DEF StartedInv
<1>18. OrderInv'
  <2>1. index' = index \/ index' = -1
    BY <1>3
  <2>2. Base' = Base
    BY <1>3, <1>9 DEF Base
  <2> QED BY <1>3, <2>1, <2>2 DEF OrderInv, Exhausted, Queued
<1> QED BY <1>11, <1>12, <1>13, <1>14, <1>15, <1>16, <1>17, <1>18

\* The call s is about to do steps that change none of the answers for r.
Same(s, r) ==
  /\ Locked(s) <=> Locked(r)
  /\ Halted(s) <=> Halted(r)
  /\ ResetDone(s) <=> ResetDone(r)
  /\ FirstGiven(s) <=> FirstGiven(r)
  /\ PlayDone(s) <=> PlayDone(r)
  /\ Feeding(s) <=> Feeding(r)
  /\ Filling(s) <=> Filling(r)
  /\ Silencing(s) <=> Silencing(r)
  /\ OfMain(s) <=> OfMain(r)
  /\ OfPlayer(s) <=> OfPlayer(r)

\* What is said of EnsurePlayState before the steps r.
LEMMA EnsureSaid ==
  ASSUME NEW r \in Seq(Steps), Formed(r), Within(r),
         Lead(r) \notin {"act", "queue", "append", "take"}
  PROVE  /\ EnsureThen(r) \in Seq(Steps) /\ Lead(EnsureThen(r)) = "ensure"
         /\ Formed(EnsureThen(r)) /\ Within(EnsureThen(r)) /\ Same(EnsureThen(r), r)
<1> DEFINE a == <<"act">> \o r
<1>1. "ensure" \in Steps /\ "act" \in Steps
  BY DEF Steps
<1>2. Said(a, "act", r) /\ Fits("act", r)
  BY <1>1, Begins DEF Fits
<1>3. a \in Seq(Steps) /\ Lead(a) = "act" /\ Formed(a) /\ Same(a, r)
  BY <1>2 DEF Said, Same
<1> HIDE DEF a
<1>4. Within(a)
  BY <1>3 DEF Within, Same
<1>5. Said(<<"ensure">> \o a, "ensure", a) /\ Fits("ensure", a)
  BY <1>1, <1>3, <1>4, Begins DEF Fits
<1> DEFINE e == <<"ensure">> \o a
<1>6. EnsureThen(r) = e
  BY DEF EnsureThen, a
<1>7. e \in Seq(Steps) /\ Lead(e) = "ensure" /\ Formed(e) /\ Same(e, r)
  <2> HIDE DEF e
  <2> QED BY <1>3, <1>5 DEF Said, Same, e
<1> HIDE DEF e
<1>8. Within(e)
  BY <1>7 DEF Within, Same
<1> QED BY <1>6, <1>7, <1>8

\* The playing thread never starts a sound.
LEMMA PlayerStartsNothing ==
  ASSUME NEW s, OfPlayer(s)
  PROVE  ~ResetDone(s) /\ ~FirstGiven(s) /\ ~PlayDone(s) /\ Within(s)
  BY DEF OfPlayer, ResetDone, FirstGiven, PlayDone, Within, Before

\* What is said of the steps that bring a unit to the device.
LEMMA TakeSaid ==
  ASSUME NEW r \in Seq(Steps), Formed(r), Fits("take", r),
         NEW s, s = <<"append">> \o (<<"queue">> \o EnsureThen(r))
  PROVE  /\ s \in Seq(Steps) /\ s # <<>> /\ Lead(s) = "append" /\ Formed(s)
         /\ Locked(s) /\ ~FirstGiven(s) /\ Feeding(s) /\ ~ResetDone(s)
         /\ Halted(s) <=> Halted(r)
         /\ PlayDone(s) <=> PlayDone(r)
         /\ Filling(s) <=> Filling(r)
         /\ Silencing(s) <=> Silencing(r)
         /\ OfMain(s) <=> OfMain(r)
         /\ OfPlayer(s) <=> OfPlayer(r)
<1> DEFINE e == EnsureThen(r)
           q == <<"queue">> \o e
<1>1. "append" \in Steps /\ "queue" \in Steps
  BY DEF Steps
<1>2. e \in Seq(Steps) /\ Lead(e) = "ensure" /\ Formed(e) /\ Within(e) /\ Same(e, r)
  BY EnsureSaid DEF Fits
<1> HIDE DEF e
<1>3. Locked(e) /\ ~ResetDone(e)
  BY <1>2 DEF Fits, Same
<1>4. Said(q, "queue", e) /\ Fits("queue", e)
  BY <1>1, <1>2, <1>3, Begins DEF Fits
<1> HIDE DEF q
<1>5. q \in Seq(Steps) /\ Lead(q) = "queue" /\ Formed(q) /\ Locked(q) /\ ~ResetDone(q) /\ Within(q)
  BY <1>2, <1>3, <1>4 DEF Said, Within
<1>6. Said(<<"append">> \o q, "append", q) /\ Fits("append", q)
  BY <1>1, <1>5, Begins DEF Fits
<1>7. s = <<"append">> \o q
  BY DEF q, e
<1>8. Said(s, "append", q)
  BY <1>6, <1>7
<1> QED BY <1>2, <1>3, <1>4, <1>5, <1>6, <1>8 DEF Said, Same

\* A unit is taken from the ring, when the device has room for it.
LEMMA TakeKeeps ==
  ASSUME TypeInv, Inv, NEW t \in Threads, Take(t)
  PROVE  Inv'
<1> DEFINE r == Tail(todo[t])
<1>1. /\ Said(todo[t], "take", r) /\ Fits("take", r) /\ Formed(r)
      /\ Done(t) => /\ todo'[t] = r /\ \A u \in Threads : u # t => todo'[u] = todo[u]
  BY Knows DEF Take, Inv, Steps
<1>2. UNCHANGED <<source, index, playing, sent, mtx, seen, bufferCS, sound, primary, program>>
  BY DEF Take, device
<1>3. \/ t = "main" /\ Said(M, "take", r) /\ todo'[t] = M' /\ Lead(M) = "take"
      \/ t = "player" /\ Said(P, "take", r) /\ todo'[t] = P' /\ Lead(P) = "take"
  BY <1>1 DEF Threads, M, P, Said
<1>4. PICK u \in IF ring.units = 0 /\ ~ring.ended THEN Decoded(ring) ELSE {ring} :
        IF IsBufferValid /\ u.units > 0
          THEN /\ ring' = [u EXCEPT !.units = @ - 1]
               /\ given' = given + 1
               /\ heard' = [heard EXCEPT !.primed = TRUE]
               /\ Then(t, <<"append", "queue">> \o Ensure)
          ELSE /\ ring' = u
               /\ Done(t)
               /\ UNCHANGED <<given, heard>>
  BY DEF Take
<1>5. /\ ring.units \in Nat /\ ring.ended \in BOOLEAN /\ given \in Nat
      /\ Len(source.queue) \in Nat /\ source.done \in Nat /\ source.done <= Len(source.queue)
      /\ source.state \in States /\ (source.state = "initial" => source.done = 0)
      /\ (source.state \in {"playing", "paused"} => source.done < Len(source.queue))
      /\ (source.queue = <<>> <=> Len(source.queue) = 0)
      /\ Buffers \in Nat /\ Buffers >= 1
  BY StreamAssumption DEF TypeInv, RingInv, SourceInv, Sources
<1>6. /\ Exhausted => u = ring
      /\ u.units = 0 => u.ended
      /\ u = ring \/ (u.ended \in BOOLEAN /\ ring.units = 0 /\ ~ring.ended)
  <2>1. CASE ring.units = 0 /\ ~ring.ended
    <3>1. u = [ring EXCEPT !.ended = TRUE] \/ (u.units = ring.units + 1 /\ u.ended \in BOOLEAN)
      BY <1>4, <2>1 DEF Decoded
    <3>2. u = [ring EXCEPT !.ended = TRUE] => u.ended = TRUE
      BY DEF TypeInv, RingInv
    <3>3. u.ended = TRUE \/ (u.units = 1 /\ u.ended \in BOOLEAN)
      BY <2>1, <3>1, <3>2
    <3>4. ~Exhausted
      BY <2>1 DEF Exhausted
    <3>5. u.units = 0 => u.ended
      BY <3>3
    <3>6. u.ended \in BOOLEAN
      BY <3>3
    <3> QED BY <2>1, <3>4, <3>5, <3>6, Zenon
  <2>2. CASE ~(ring.units = 0 /\ ~ring.ended)
    BY <1>4, <1>5, <2>2
  <2> QED BY <2>1, <2>2
<1> USE DEF Inv
<1>7. /\ Lead(M) \in Guarded => bufferCS = "main"
      /\ Lead(P) \in Guarded => bufferCS = "player"
      /\ ResetDone(M) \/ FirstGiven(M) \/ PlayDone(M) => bufferCS = "main"
  BY Holds
<1>8. bufferCS = t /\ "main" # "player" /\ Lead(r) \notin {"append", "queue", "take", "refill", "act"}
  BY <1>1, <1>3, <1>7 DEF Guarded, Fits
<1>9. /\ t = "player" => /\ Lead(M) \notin Guarded
                         /\ ~ResetDone(M) /\ ~FirstGiven(M) /\ ~PlayDone(M)
      /\ t = "main" => Lead(P) \notin Guarded
  BY <1>7, <1>8
<1>10. ~Carried /\ ~Queueing
  BY <1>3, <1>9 DEF Carried, Queueing, Guarded
<1>11. /\ t = "main" => /\ index = -1 /\ ~playing /\ primary /\ ~heard.primed
                        /\ source.state = "stopped" \/ source.queue = <<>>
       /\ t = "player" => playing /\ sound.buffer /\ primary
  BY <1>3, <1>8 DEF MainInv, PlayerInv, CallInv, Said
<1>12. t = "player" /\ heard.primed => index # -1
  BY <1>8, <1>11, <1>3 DEF FirstInv
<1>13. CASE IsBufferValid /\ u.units > 0
  <2> DEFINE s == <<"append">> \o (<<"queue">> \o EnsureThen(r))
  <2>1. /\ s \in Seq(Steps) /\ s # <<>> /\ Lead(s) = "append" /\ Formed(s)
        /\ Locked(s) /\ ~FirstGiven(s) /\ Feeding(s) /\ ~ResetDone(s)
        /\ Halted(s) <=> Halted(r)
        /\ PlayDone(s) <=> PlayDone(r)
        /\ Filling(s) <=> Filling(r)
        /\ Silencing(s) <=> Silencing(r)
        /\ OfMain(s) <=> OfMain(r)
        /\ OfPlayer(s) <=> OfPlayer(r)
    <3>1. r \in Seq(Steps)
      BY <1>1 DEF Said
    <3> HIDE DEF r
    <3> QED BY <1>1, <3>1, TakeSaid
  <2>2. todo'[t] = s /\ \A v \in Threads : v # t => todo'[v] = todo[v]
    <3>1. (<<"append", "queue">> \o Ensure) \o r = s
      BY <1>1, CallsAre DEF Said
    <3>2. todo' = [todo EXCEPT ![t] = s]
      BY <1>4, <1>13, <3>1 DEF Then, TypeInv, TodoInv
    <3> HIDE DEF s, r
    <3> QED BY <2>1, <3>2, TodoChanges DEF TypeInv
  <2> HIDE DEF s, r
  <2>3. \/ t = "main" /\ M' = s /\ P' = P
        \/ t = "player" /\ P' = s /\ M' = M
    BY <1>3, <2>2 DEF Threads, M, P
  <2>4. /\ given' = given + 1 /\ heard'.primed = TRUE /\ heard'.last = heard.last
        /\ heard'.dry = heard.dry /\ heard'.early = heard.early
    BY <1>4, <1>13 DEF TypeInv, HeardInv
  <2>5. ~Exhausted
    BY <1>6, <1>13 DEF Exhausted
  <2>6. Carried' /\ ~Queueing' /\ (Lead(P') = "append" => t = "player")
    BY <1>3, <1>8, <1>9, <2>1, <2>3 DEF Carried, Queueing, Guarded
  <2>7. ~heard.primed => index = -1 /\ heard.last = given /\ (t = "player" => source.queue = <<>>)
    BY <1>9, <2>5 DEF UnprimedInv, Guarded
  <2>8. heard.primed => t = "player" /\ index # -1
    BY <1>3, <1>11, <1>12
  <2>9. index # -1 => heard.primed
    BY <2>7
  <2>10. CallInv'
    <3>1. \A v \in Threads : Lead(todo'[v]) \in {"act", "queue"} => Lead(todo'[v]) = Lead(todo[v]) /\ v # t
      BY <2>1, <2>2
    <3>2. \A v \in Threads : Lead(todo'[v]) \in {"act", "queue"} => mtx' = v
      BY <1>2, <3>1 DEF CallInv
    <3>3. \A v \in Threads : Lead(todo'[v]) = "act" =>
            \/ seen'[v] = source'.state
            \/ seen'[v] = "playing" /\ source'.state = "stopped" /\ heard'.dry
      BY <1>2, <2>4, <3>1 DEF CallInv
    <3>4. OfMain(M') /\ OfPlayer(P') /\ Formed(M') /\ Formed(P') /\ Within(M')
      BY <1>3, <2>1, <2>3 DEF CallInv, Said, Within
    <3> QED BY <1>2, <1>3, <1>8, <1>11, <2>1, <2>3, <2>4, <3>2, <3>3, <3>4 DEF CallInv, Said
  <2>11. MainInv'
    BY <1>2, <1>3, <1>8, <1>9, <1>11, <2>1, <2>3, <2>4 DEF MainInv, Said, Guarded
  <2>12. PlayerInv'
    BY <1>2, <1>3, <1>8, <1>11, <2>1, <2>3 DEF PlayerInv, Said
  <2>13. UnprimedInv'
    BY <1>2, <1>3, <1>11, <2>4 DEF UnprimedInv
  <2>14. FirstInv'
    BY <1>2, <1>3, <1>5, <1>8, <1>11, <2>1, <2>3, <2>4, <2>6, <2>7, <2>8 DEF FirstInv
  <2>15. BufferInv'
    BY <1>2, <1>10 DEF BufferInv, Queued
  <2>16. StartedInv'
    <3> SUFFICES ASSUME index # -1, ~heard.dry
                 PROVE  /\ source.state # "stopped" /\ Lead(P') # "queue"
                        /\ source.done > 0 \/ Len(source.queue) < Buffers
      BY <1>2, <2>4 DEF StartedInv
    <3>1. t = "player" /\ playing
      BY <1>3, <1>11
    <3>2. source.state # "stopped"
      BY <1>3, <1>8, <3>1 DEF StartedInv, Threads, M, P
    <3>3. source.done > 0 \/ Len(source.queue) < Buffers
      BY <1>5, <1>13, <3>2 DEF IsBufferValid, Processed
    <3> QED BY <2>1, <2>3, <3>1, <3>2, <3>3
  <2>17. OrderInv'
    <3>1. Base = given /\ Base' = given
      BY <1>5, <1>10, <2>4, <2>6 DEF Base
    <3>2. source.state = "playing" => index # -1
      BY <1>3, <1>5, <1>11, <2>7, <2>8
    <3>3. ~(heard.dry /\ ~heard.early)
      BY <2>5 DEF OrderInv
    <3> QED BY <1>2, <2>4, <2>9, <3>1, <3>2, <3>3 DEF OrderInv, Queued
  <2> QED BY <2>10, <2>11, <2>12, <2>13, <2>14, <2>15, <2>16, <2>17
<1>14. CASE ~(IsBufferValid /\ u.units > 0)
  <2>1. ring' = u /\ Done(t) /\ given' = given /\ heard' = heard
    BY <1>4, <1>14
  <2>2. todo'[t] = r /\ \A v \in Threads : v # t => todo'[v] = todo[v]
    BY <1>1, <2>1
  <2> HIDE DEF r
  <2>3. \/ t = "main" /\ M' = r /\ P' = P
        \/ t = "player" /\ P' = r /\ M' = M
    BY <1>3, <2>2 DEF Threads, M, P
  <2>4. Exhausted => Exhausted'
    BY <1>6, <2>1 DEF Exhausted
  <2>5. ~Carried' /\ ~Queueing'
    BY <1>3, <1>8, <1>10, <2>3 DEF Carried, Queueing
  <2>6. t = "main" /\ source.queue # <<>> => Exhausted'
    <3>1. t = "main" /\ source.queue # <<>> => IsBufferValid
      BY <1>5, <1>11 DEF IsBufferValid, Processed
    <3>2. u.units \in Nat
      BY <1>4, <1>5 DEF Decoded, TypeInv, RingInv
    <3> QED BY <1>6, <1>14, <2>1, <3>1, <3>2 DEF Exhausted
  <2>7. CallInv'
    BY <1>1, <1>2, <1>3, <1>8, <1>11, <2>1, <2>2, <2>3, <2>5 DEF CallInv, Said, Fits, Threads, M, P
  <2>8. MainInv'
    BY <1>2, <1>3, <1>8, <1>9, <1>11, <2>1, <2>3 DEF MainInv, Said, Guarded
  <2>9. PlayerInv'
    BY <1>2, <1>3, <1>8, <1>11, <2>3 DEF PlayerInv, Said
  <2>10. UnprimedInv'
    BY <1>2, <1>3, <1>9, <1>11, <2>1, <2>3, <2>4, <2>6 DEF UnprimedInv, Guarded
  <2>11. FirstInv'
    BY <1>2, <1>3, <1>8, <1>11, <1>12, <2>1, <2>3, <2>5 DEF FirstInv, Queueing, Carried
  <2>12. BufferInv'
    BY <1>2, <1>10 DEF BufferInv, Queued
  <2>13. StartedInv'
    BY <1>2, <1>3, <1>8, <1>11, <2>1, <2>3 DEF StartedInv, Threads, M, P
  <2>14. OrderInv'
    BY <1>2, <1>10, <2>1, <2>4, <2>5 DEF OrderInv, Base, Queued
  <2> QED BY <2>7, <2>8, <2>9, <2>10, <2>11, <2>12, <2>13, <2>14
<1> QED BY <1>13, <1>14

\* What is said of the end of StartPlay.
Starting(s) ==
  /\ s \in Seq(Steps) /\ s # <<>> /\ Formed(s) /\ Locked(s) /\ OfMain(s)
  /\ ~Halted(s) /\ ~ResetDone(s)
  /\ Lead(s) \in {"take", "play", "go"}

\* It is so of what Refill leaves to be done.
LEMMA RefillSaid ==
  ASSUME sound.paused \in BOOLEAN, primary \in BOOLEAN
  PROVE  /\ Starting(RefillThen(<<>>))
         /\ Lead(RefillThen(<<>>)) = "take" <=> primary
         /\ PlayDone(RefillThen(<<>>)) => sound.paused
<1> DEFINE g == <<"go">> \o <<>>
           p == IF sound.paused THEN g ELSE <<"play">> \o EnsureThen(g)
           s == RefillThen(<<>>)
<1>1. "go" \in Steps /\ "play" \in Steps /\ "take" \in Steps /\ <<>> \in Seq(Steps)
  BY DEF Steps
<1>2. Said(g, "go", <<>>)
  BY <1>1, Begins
<1>3. Fits("go", <<>>)
  BY Nothing DEF Fits, Within
<1> HIDE DEF g
<1>4. Starting(g) /\ Lead(g) = "go" /\ FirstGiven(g) /\ Within(g)
  BY <1>2, <1>3, Nothing DEF Said, Starting, Within
<1>5. Starting(p) /\ Lead(p) # "take" /\ (PlayDone(p) => sound.paused) /\ Within(p)
  <2>1. CASE sound.paused
    BY <1>4, <2>1
  <2>2. CASE ~sound.paused
    <3> DEFINE e == EnsureThen(g)
    <3>1. e \in Seq(Steps) /\ Lead(e) = "ensure" /\ Formed(e) /\ Within(e) /\ Same(e, g)
      BY <1>4, EnsureSaid DEF Starting
    <3>2. p = <<"play">> \o e
      BY <2>2
    <3> HIDE DEF e, p
    <3>3. Said(p, "play", e)
      BY <1>1, <3>1, <3>2, Begins
    <3>4. Fits("play", e)
      BY <1>4, <3>1 DEF Fits, Same, Starting
    <3> QED BY <1>4, <3>1, <3>3, <3>4 DEF Starting, Said, Same, Within
  <2> QED BY <2>1, <2>2
<1>6. s = IF primary THEN <<"take">> \o p ELSE p
  BY DEF RefillThen, g
<1> HIDE DEF p, s
<1>7. Starting(s) /\ (Lead(s) = "take" <=> primary) /\ (PlayDone(s) => sound.paused)
  <2>1. CASE primary
    <3>1. Said(s, "take", p)
      BY <1>1, <1>5, <1>6, <2>1, Begins DEF Starting
    <3>2. Fits("take", p)
      BY <1>5 DEF Fits, Starting
    <3> QED BY <1>5, <2>1, <3>1, <3>2 DEF Starting, Said
  <2>2. CASE ~primary
    BY <1>5, <1>6, <2>2
  <2> QED BY <2>1, <2>2
<1> QED BY <1>7 DEF s

\* The ring is filled anew and the sound begins.
LEMMA RefillKeeps ==
  ASSUME TypeInv, Inv, Refill
  PROVE  Inv'
<1> DEFINE s == RefillThen(<<>>)
<1>1. /\ UNCHANGED <<source, index, playing, sent, mtx, seen, bufferCS, primary, program, given>>
      /\ sound' = [sound EXCEPT !.buffer = TRUE]
      /\ heard' = [heard EXCEPT !.last = given, !.dry = FALSE, !.early = FALSE, !.primed = FALSE]
      /\ At("main", "refill")
  BY DEF Refill, device
<1>2. Said(M, "refill", Tail(M)) /\ Fits("refill", Tail(M)) /\ Tail(M) = <<>>
  <2>1. Said(M, "refill", Tail(M)) /\ Fits("refill", Tail(M))
    BY <1>1, Knows DEF Inv, Steps, Threads, M
  <2> QED BY <2>1 DEF Fits
<1>3. /\ Starting(s) /\ (Lead(s) = "take" <=> primary) /\ (PlayDone(s) => sound.paused)
  <2>1. sound.paused \in BOOLEAN /\ primary \in BOOLEAN
    BY DEF TypeInv, FlagInv
  <2> QED BY <2>1, RefillSaid
<1>4. M' = s /\ P' = P
  <2>1. <<>> \in Seq(Steps) /\ Tail(todo["main"]) = <<>>
    BY <1>2 DEF M
  <2>2. (((IF primary THEN <<"take">> ELSE <<>>)
           \o (IF sound.paused THEN <<>> ELSE <<"play">> \o Ensure)) \o <<"go">>) \o <<>> = s
    BY <2>1, RefillIs
  <2>3. todo' = [todo EXCEPT !["main"] = s]
    BY <2>1, <2>2 DEF Refill, Then, TypeInv, TodoInv
  <2> HIDE DEF s
  <2>4. s \in Seq(Steps) /\ "main" \in Threads /\ "player" \in Threads
    BY <1>3 DEF Starting, Threads
  <2> QED BY <2>3, <2>4, TodoChanges DEF TypeInv, M, P
<1> HIDE DEF s
<1>5. /\ sound'.buffer = TRUE /\ sound'.device = sound.device /\ sound'.paused = sound.paused
      /\ heard'.last = given /\ heard'.dry = FALSE /\ heard'.early = FALSE /\ heard'.primed = FALSE
  BY <1>1 DEF TypeInv, FlagInv, HeardInv
<1> USE DEF Inv
<1>6. bufferCS = "main" /\ "main" # "player" /\ Lead(P) \notin Guarded /\ Lead(M) = "refill"
  BY <1>2, Holds DEF Guarded, Said
<1>7. Lead(P) # "act"
  BY <1>6 DEF CallInv
<1>8. /\ index = -1 /\ ~playing
      /\ source.state = "stopped" \/ source.queue = <<>>
  BY <1>2 DEF MainInv, Said
<1>9. ~Carried' /\ ~Queueing'
  BY <1>3, <1>4, <1>6 DEF Carried, Queueing, Guarded, Starting
<1>10. CallInv'
  <2>1. /\ \A t \in Threads : Lead(todo'[t]) \notin {"act", "queue"}
    BY <1>3, <1>4, <1>6, <1>7 DEF Threads, M, P, Guarded, Starting
  <2> QED BY <1>1, <1>3, <1>4, <1>6, <1>9, <2>1 DEF CallInv, Starting, Within
<1>11. MainInv'
  BY <1>1, <1>3, <1>4, <1>5, <1>8 DEF MainInv, Starting
<1>12. PlayerInv'
  BY <1>1, <1>6 DEF PlayerInv
<1>13. UnprimedInv'
  BY <1>1, <1>3, <1>4, <1>5, <1>8 DEF UnprimedInv
<1>14. FirstInv'
  BY <1>4, <1>5, <1>6, <1>9 DEF FirstInv, Guarded
<1>15. BufferInv' /\ StartedInv'
  BY <1>1, <1>8 DEF BufferInv, StartedInv
<1>16. OrderInv'
  BY <1>1, <1>5 DEF OrderInv
<1> QED BY <1>10, <1>11, <1>12, <1>13, <1>14, <1>15, <1>16

\* StartPlay is over.
LEMMA GoKeeps ==
  ASSUME TypeInv, Inv, Go
  PROVE  Inv'
<1> DEFINE r == Tail(M)
<1>1. Said(M, "go", r) /\ Fits("go", r) /\ Formed(r) /\ M' = r /\ P' = P
  BY Knows DEF Go, Inv, Steps, Threads, M, P
<1>2. /\ UNCHANGED <<source, index, playing, sent, mtx, seen, ring, primary, program, given, heard>>
      /\ bufferCS' = None /\ sound' = [sound EXCEPT !.callback = TRUE, !.device = ~sound.paused]
  BY DEF Go, device
<1>3. /\ sound'.buffer = sound.buffer /\ sound'.device = ~sound.paused /\ sound'.paused = sound.paused
  BY <1>2 DEF TypeInv, FlagInv
<1> HIDE DEF r
<1> USE DEF Inv
<1>4. None # "main" /\ None # "player" /\ "main" # "player"
  BY DEF None
<1>5. r = <<>> /\ Lead(M) = "go" /\ FirstGiven(M) /\ PlayDone(M)
  BY <1>1 DEF Fits, Said
<1>6. bufferCS = "main" /\ Lead(P) \notin Guarded
  BY <1>4, <1>5, Holds DEF Guarded
<1>7. Lead(P) # "act"
  BY <1>4, <1>6 DEF CallInv
<1>8. CallInv'
  BY <1>1, <1>2, <1>4, <1>5, <1>6, <1>7, Nothing
     DEF CallInv, Said, Within, Carried, Threads, M, P, Guarded
<1>9. MainInv'
  BY <1>1, <1>5, Nothing DEF MainInv
<1>10. PlayerInv'
  BY <1>2, <1>3, <1>4, <1>5 DEF PlayerInv, MainInv
<1>11. UnprimedInv'
  BY <1>1, <1>2, <1>5 DEF UnprimedInv, Exhausted
<1>12. FirstInv'
  BY <1>1, <1>2, <1>3, <1>5, <1>6, Nothing DEF FirstInv, MainInv, Queueing, Carried, Guarded
<1>13. BufferInv'
  BY <1>1, <1>2, <1>5, Nothing DEF BufferInv, Queueing, Queued
<1>14. StartedInv'
  BY <1>1, <1>2, <1>4, <1>5, <1>6, <1>7, Nothing DEF StartedInv, Threads, M, P
<1>15. OrderInv'
  BY <1>1, <1>2, <1>5, Nothing DEF OrderInv, Carried, Base, Exhausted, Queued
<1> QED BY <1>8, <1>9, <1>10, <1>11, <1>12, <1>13, <1>14, <1>15

\* Stop is over.
LEMMA QuietKeeps ==
  ASSUME TypeInv, Inv, Quiet
  PROVE  Inv'
<1> DEFINE r == Tail(M)
<1>1. Said(M, "quiet", r) /\ Fits("quiet", r) /\ Formed(r) /\ M' = r /\ P' = P
  BY Knows DEF Quiet, Inv, Steps, Threads, M, P
<1>2. /\ UNCHANGED <<source, index, playing, sent, mtx, seen, bufferCS, ring, primary, program, given, heard>>
      /\ sound' = [sound EXCEPT !.callback = FALSE]
  BY DEF Quiet, device
<1>3. sound'.buffer = sound.buffer /\ sound'.device = sound.device /\ sound'.paused = sound.paused
  BY <1>2 DEF TypeInv, FlagInv
<1> HIDE DEF r
<1> USE DEF Inv
<1>4. Lead(M) = "quiet" /\ Lead(r) \notin {"act", "queue", "append", "take", "refill"}
  BY <1>1 DEF Said, Fits
<1>5. CallInv'
  BY <1>1, <1>2, <1>4 DEF CallInv, Said, Fits, Carried, Threads, M, P
<1>6. MainInv'
  BY <1>1, <1>2, <1>3, <1>4 DEF MainInv, Said
<1>7. PlayerInv' /\ UnprimedInv' /\ FirstInv'
  BY <1>1, <1>2, <1>3, <1>4 DEF PlayerInv, UnprimedInv, FirstInv, Exhausted, Carried, Queueing
<1>8. BufferInv' /\ StartedInv'
  BY <1>1, <1>2, <1>4 DEF BufferInv, StartedInv, Queueing, Queued, Threads, M, P
<1>9. OrderInv'
  BY <1>1, <1>2, <1>4 DEF OrderInv, Carried, Base, Exhausted, Queued
<1> QED BY <1>5, <1>6, <1>7, <1>8, <1>9

\* A part of a call of the main thread before StartPlay has filled the ring.
Plain(s) ==
  /\ s \in Seq(Steps) /\ s # <<>> /\ Formed(s) /\ Within(s) /\ OfMain(s)
  /\ ~FirstGiven(s) /\ ~PlayDone(s) /\ ~Feeding(s) /\ ~Filling(s)

\* A call of the main thread that has not begun.
Fresh(s) == Plain(s) /\ ~Locked(s) /\ ~Halted(s) /\ ~ResetDone(s) /\ Lead(s) \in {"lock", "ensure"}

\* StopPlay is a call that has not begun, if what comes after it holds no lock.
LEMMA StopIsFresh ==
  ASSUME NEW x, Plain(x), ~Locked(x), ~ResetDone(x), ~Silencing(x),
         Lead(x) = "lock" \/ (Lead(x) = "quiet" /\ ~OfPlayer(x))
  PROVE  Fresh(StopThen(x))
<1> DEFINE u == <<"unlock">> \o x
           s == <<"stopped">> \o u
           e == EnsureThen(s)
           p == <<"stop">> \o e
           l == <<"lock">> \o p
<1>0. "unlock" \in Steps /\ "stopped" \in Steps /\ "stop" \in Steps /\ "lock" \in Steps
  BY DEF Steps
<1>1. Plain(u) /\ Locked(u) /\ ~ResetDone(u) /\ Lead(u) = "unlock"
  <2>1. Said(u, "unlock", x)
    BY <1>0, Begins DEF Plain
  <2>2. Fits("unlock", x)
    BY DEF Fits, Plain
  <2> HIDE DEF u
  <2> QED BY <2>1, <2>2 DEF Plain, Said, Within
<1> HIDE DEF u
<1>2. Plain(s) /\ Locked(s) /\ ~ResetDone(s) /\ ~Halted(s) /\ Lead(s) = "stopped"
  <2>1. Said(s, "stopped", u)
    BY <1>0, <1>1, Begins DEF Plain
  <2>2. Fits("stopped", u)
    BY <1>1 DEF Fits, Plain
  <2> HIDE DEF s
  <2> QED BY <1>1, <2>1, <2>2 DEF Plain, Said, Within
<1> HIDE DEF s
<1>3. Plain(e) /\ Locked(e) /\ ~ResetDone(e) /\ ~Halted(e) /\ Lead(e) = "ensure"
  <2>1. e \in Seq(Steps) /\ Lead(e) = "ensure" /\ Formed(e) /\ Within(e) /\ Same(e, s)
    BY <1>2, EnsureSaid DEF Plain
  <2> HIDE DEF e
  <2> QED BY <1>2, <2>1 DEF Plain, Same, Lead
<1> HIDE DEF e
<1>4. Plain(p) /\ Locked(p) /\ ~ResetDone(p) /\ ~Halted(p) /\ Lead(p) = "stop"
  <2>1. Said(p, "stop", e)
    BY <1>0, <1>3, Begins DEF Plain
  <2>2. Fits("stop", e)
    BY <1>3 DEF Fits, Plain
  <2> HIDE DEF p
  <2> QED BY <1>3, <2>1, <2>2 DEF Plain, Said, Within
<1> HIDE DEF p
<1>5. Fresh(l)
  <2>1. Said(l, "lock", p)
    BY <1>0, <1>4, Begins DEF Plain
  <2>2. Fits("lock", p)
    BY <1>4 DEF Fits, Plain
  <2> HIDE DEF l
  <2> QED BY <1>4, <2>1, <2>2 DEF Fresh, Plain, Said, Within
<1> QED BY <1>5 DEF StopThen, l, p, e, s, u

\* The calls of the main thread.
LEMMA CallsAreFresh ==
  Fresh(StopPlay \o StartPlay) /\ Fresh(StopPlay \o <<"quiet">>) /\ Fresh(Ensure)
<1> DEFINE f == <<"refill">> \o <<>>
           e == EnsureThen(f)
           z == <<"reset">> \o e
           d == EnsureThen(z)
           l == <<"lock">> \o d
           q == <<"quiet">> \o <<>>
<1>0. "refill" \in Steps /\ "reset" \in Steps /\ "lock" \in Steps /\ "quiet" \in Steps
      /\ <<>> \in Seq(Steps)
  BY DEF Steps
<1>1. Plain(f) /\ Locked(f) /\ ~Silencing(f) /\ Lead(f) = "refill"
  <2>1. Said(f, "refill", <<>>)
    BY <1>0, Begins
  <2>2. Fits("refill", <<>>)
    BY Nothing DEF Fits, Within
  <2> HIDE DEF f
  <2> QED BY <2>1, <2>2, Nothing DEF Plain, Said, Within
<1>2. Plain(q) /\ ~Locked(q) /\ ~ResetDone(q) /\ ~Silencing(q) /\ Lead(q) = "quiet" /\ ~OfPlayer(q)
  <2>1. Said(q, "quiet", <<>>)
    BY <1>0, Begins
  <2>2. Fits("quiet", <<>>)
    BY Nothing DEF Fits, Within
  <2> HIDE DEF q
  <2> QED BY <2>1, <2>2, Nothing DEF Plain, Said, Within
<1> HIDE DEF f, q
<1>3. Plain(e) /\ Locked(e) /\ ~Silencing(e) /\ Lead(e) = "ensure"
  <2>1. e \in Seq(Steps) /\ Lead(e) = "ensure" /\ Formed(e) /\ Within(e) /\ Same(e, f)
    BY <1>1, EnsureSaid DEF Plain
  <2> HIDE DEF e
  <2> QED BY <1>1, <2>1 DEF Plain, Same, Lead
<1> HIDE DEF e
<1>4. Plain(z) /\ Locked(z) /\ ~ResetDone(z) /\ ~Silencing(z) /\ Lead(z) = "reset"
  <2>1. Said(z, "reset", e)
    BY <1>0, <1>3, Begins DEF Plain
  <2>2. Fits("reset", e)
    BY <1>3 DEF Fits, Plain
  <2> HIDE DEF z
  <2> QED BY <1>3, <2>1, <2>2 DEF Plain, Said, Within
<1> HIDE DEF z
<1>5. Plain(d) /\ Locked(d) /\ ~ResetDone(d) /\ ~Silencing(d) /\ Lead(d) = "ensure"
  <2>1. d \in Seq(Steps) /\ Lead(d) = "ensure" /\ Formed(d) /\ Within(d) /\ Same(d, z)
    BY <1>4, EnsureSaid DEF Plain
  <2> HIDE DEF d
  <2> QED BY <1>4, <2>1 DEF Plain, Same, Lead
<1> HIDE DEF d
<1>6. Plain(l) /\ ~Locked(l) /\ ~ResetDone(l) /\ ~Silencing(l) /\ Lead(l) = "lock"
  <2>1. Said(l, "lock", d)
    BY <1>0, <1>5, Begins DEF Plain
  <2>2. Fits("lock", d)
    BY <1>5 DEF Fits, Plain
  <2> HIDE DEF l
  <2> QED BY <1>5, <2>1, <2>2 DEF Plain, Said, Within
<1>7. StartSteps = l
  BY DEF StartSteps, l, d, z, e, f
<1> HIDE DEF l
<1>8. Fresh(StopPlay \o StartPlay) /\ Fresh(StopPlay \o <<"quiet">>)
  <2>1. Fresh(StopThen(l)) /\ Fresh(StopThen(q))
    BY <1>2, <1>6, StopIsFresh
  <2> QED BY <1>7, <2>1, StopAndStart DEF q
<1>9. Fresh(Ensure)
  <2> DEFINE n == EnsureThen(<<>>)
  <2>1. Formed(<<>>) /\ Within(<<>>) /\ Lead(<<>>) = "end"
    BY Nothing DEF Within
  <2>2. n \in Seq(Steps) /\ Lead(n) = "ensure" /\ Formed(n) /\ Within(n) /\ Same(n, <<>>)
    BY <1>0, <2>1, EnsureSaid
  <2> HIDE DEF n
  <2>3. Fresh(n)
    BY <2>2, Nothing DEF Fresh, Plain, Same, Lead
  <2> QED BY <1>0, <2>3, EnsureIs DEF n
<1> QED BY <1>8, <1>9

\* A call of the main thread begins.
LEMMA CallKeeps ==
  ASSUME TypeInv, Inv, Play \/ SetSamplePosition \/ Stop \/ SetVolume
  PROVE  Inv'
<1>1. PICK s : Fresh(s) /\ Calls(s)
  BY CallsAreFresh DEF Play, SetSamplePosition, Stop, SetVolume
<1>2. UNCHANGED <<source, index, playing, sent, mtx, seen, bufferCS, sound, ring, primary, given, heard>>
      /\ program' \in {TRUE, program}
  BY DEF Play, SetSamplePosition, Stop, SetVolume, device, caller
<1>3. M = <<>> /\ M' = s /\ P' = P
  BY <1>1 DEF Calls, Idle, TypeInv, TodoInv, Threads, M, P
<1> USE DEF Inv
<1>4. ~Locked(M) /\ Lead(M) = "end"
  BY <1>3, Nothing
<1>5. ~Locked(s) /\ ~Halted(s) /\ ~ResetDone(s) /\ ~FirstGiven(s) /\ ~PlayDone(s)
      /\ Formed(s) /\ Within(s) /\ OfMain(s) /\ Lead(s) \in {"lock", "ensure"}
  BY <1>1 DEF Fresh, Plain
<1>6. CallInv'
  BY <1>2, <1>3, <1>4, <1>5 DEF CallInv, Carried, Threads, M, P
<1>7. MainInv'
  BY <1>3, <1>5 DEF MainInv
<1>8. PlayerInv' /\ UnprimedInv' /\ FirstInv'
  BY <1>2, <1>3, <1>4, <1>5 DEF PlayerInv, UnprimedInv, FirstInv, Exhausted, Carried, Queueing
<1>9. BufferInv'
  BY <1>2, <1>3, <1>4, <1>5 DEF BufferInv, Queueing, Queued
<1>10. StartedInv'
  BY <1>2, <1>3, <1>4, <1>5 DEF StartedInv, Threads, M, P
<1>11. OrderInv'
  BY <1>2, <1>3, <1>4, <1>5 DEF OrderInv, Carried, Base, Exhausted, Queued
<1> QED BY <1>6, <1>7, <1>8, <1>9, <1>10, <1>11

\* The flags that are set between the calls.
LEMMA BetweenKeeps ==
  ASSUME TypeInv, Inv, SetPaused \/ TimerBeat
  PROVE  Inv'
<1>1. UNCHANGED <<source, index, playing, sent, mtx, seen, bufferCS, ring, primary, program, given, heard, todo>>
      /\ M = <<>>
  BY DEF SetPaused, TimerBeat, device, Idle, M
<1>2. sound'.buffer = sound.buffer /\ sound'.device = sound.device
  BY DEF SetPaused, TimerBeat, TypeInv, FlagInv
<1>3. M' = M /\ P' = P
  BY <1>1 DEF M, P
<1> USE DEF Inv
<1>4. CallInv'
  BY <1>1, <1>3 DEF CallInv, Carried
<1>5. MainInv'
  BY <1>1, <1>3, Nothing DEF MainInv
<1>6. PlayerInv' /\ UnprimedInv' /\ FirstInv'
  BY <1>1, <1>2, <1>3 DEF PlayerInv, UnprimedInv, FirstInv, Exhausted, Carried, Queueing
<1>7. BufferInv' /\ StartedInv'
  BY <1>1, <1>3 DEF BufferInv, StartedInv, Queueing, Queued
<1>8. OrderInv'
  BY <1>1, <1>3 DEF OrderInv, Carried, Base, Exhausted, Queued
<1> QED BY <1>4, <1>5, <1>6, <1>7, <1>8

\* The decode thread adds a unit.
LEMMA DecodeAheadKeeps ==
  ASSUME TypeInv, Inv, DecodeAhead
  PROVE  Inv'
<1>1. UNCHANGED <<source, index, playing, sent, mtx, seen, bufferCS, sound, primary, program, given, heard, todo>>
      /\ ~Exhausted
  BY DEF DecodeAhead, device, Exhausted
<1>2. M' = M /\ P' = P
  BY <1>1 DEF M, P
<1> USE DEF Inv
<1>3. CallInv'
  BY <1>1, <1>2 DEF CallInv, Carried
<1>4. MainInv'
  BY <1>1, <1>2 DEF MainInv
<1>5. PlayerInv' /\ UnprimedInv' /\ FirstInv'
  BY <1>1, <1>2 DEF PlayerInv, UnprimedInv, FirstInv, Carried, Queueing
<1>6. BufferInv' /\ StartedInv'
  BY <1>1, <1>2 DEF BufferInv, StartedInv, Queueing, Queued
<1>7. OrderInv'
  BY <1>1, <1>2 DEF OrderInv, Carried, Base, Queued
<1> QED BY <1>3, <1>4, <1>5, <1>6, <1>7

\* The mixer of OpenAL plays a buffer to its end.
LEMMA MixKeeps ==
  ASSUME TypeInv, Inv, Mix
  PROVE  Inv'
<1> DEFINE done == source.done + 1
           unit == source.queue[done].unit
           dry == done = Len(source.queue)
           last == IF unit > heard.last THEN unit ELSE heard.last
<1>1. UNCHANGED <<index, playing, sent, mtx, seen, bufferCS, sound, ring, primary, program, given, todo>>
      /\ source.state = "playing"
  BY DEF Mix, caller
<1>2. M' = M /\ P' = P
  BY <1>1 DEF M, P
<1>3. /\ Len(source.queue) \in Nat /\ source.done \in Nat /\ source.done < Len(source.queue)
      /\ source.queue # <<>> /\ given \in Nat /\ heard.last \in Nat /\ heard.last <= given
      /\ done \in 1 .. Len(source.queue) /\ unit \in Nat /\ unit <= given
  <2> DEFINE R == [buffer : 0 .. Buffers - 1, unit : 1 .. MaxUnits]
  <2>1. /\ Len(source.queue) \in Nat /\ source.done \in Nat /\ source.done < Len(source.queue)
        /\ source.queue \in Seq(R)
        /\ given \in Nat /\ heard.last \in Nat /\ heard.last <= given
    BY <1>1 DEF TypeInv, SourceInv, Sources, RingInv, HeardInv
  <2>2. done \in 1 .. Len(source.queue)
    BY <2>1
  <2>3. source.queue[done] \in R
    <3> HIDE DEF R, done
    <3> QED BY <2>1, <2>2
  <2>4. source.queue[done].unit \in 1 .. MaxUnits /\ source.queue[done].unit <= given
    <3>1. source.queue[done].unit \in 1 .. MaxUnits
      BY <2>3
    <3> HIDE DEF done
    <3> QED BY <2>2, <3>1 DEF TypeInv, SourceInv
  <2>5. source.queue # <<>>
    BY <2>1
  <2>6. unit \in Nat /\ unit <= given
    <3>1. \A x \in 1 .. MaxUnits : x \in Nat
      BY StreamAssumption
    <3> QED BY <2>4, <3>1
  <2> QED BY <2>1, <2>2, <2>5, <2>6
<1>4. /\ source'.queue = source.queue /\ source'.done = done
      /\ source'.state = (IF dry THEN "stopped" ELSE "playing")
  <2>1. source' = [source EXCEPT !.done = done, !.state = IF dry THEN "stopped" ELSE @]
    BY DEF Mix
  <2> HIDE DEF done, dry
  <2> QED BY <1>1, <2>1 DEF TypeInv, SourceInv, Sources
<1>5. /\ heard'.last = last /\ heard'.primed = heard.primed
      /\ heard'.dry = (heard.dry \/ dry)
      /\ heard'.early = (heard.early \/ (dry /\ (~ring.ended \/ ring.units > 0 \/ last # given)))
  <2>1. heard' = [heard EXCEPT
              !.last = last,
              !.dry = @ \/ dry,
              !.early = @ \/ (dry /\ (~ring.ended \/ ring.units > 0 \/ last # given))]
    BY DEF Mix
  <2> HIDE DEF last, dry, unit, done
  <2> QED BY <2>1 DEF TypeInv, HeardInv
<1>6. last \in Nat /\ last <= given /\ (heard.last = given => last = given)
  <2> HIDE DEF unit
  <2> QED BY <1>3
<1>7. ring.units \in Nat
  BY DEF TypeInv, RingInv
<1> USE DEF Inv
<1>8. Lead(M) \notin {"refill", "take", "append"}
  BY <1>1, <1>3 DEF MainInv
<1>9. index = -1 => ~Carried
  BY <1>3, <1>8 DEF FirstInv, Carried, Queueing
<1>10. CallInv'
  <2>1. \A t \in Threads : Lead(todo[t]) = "act" => seen[t] = "playing"
    BY <1>1 DEF CallInv
  <2> HIDE DEF dry, done, unit, last
  <2> QED BY <1>1, <1>2, <1>4, <1>5, <2>1 DEF CallInv, Carried
<1>11. MainInv'
  BY <1>1, <1>2, <1>5, <1>8 DEF MainInv
<1>12. PlayerInv'
  BY <1>1, <1>2 DEF PlayerInv
<1>13. UnprimedInv'
  BY <1>1, <1>2, <1>3, <1>5, <1>8 DEF UnprimedInv, Exhausted
<1>14. FirstInv'
  BY <1>1, <1>2, <1>4, <1>5, <1>9 DEF FirstInv, Carried, Queueing
<1>15. BufferInv'
  BY <1>1, <1>2, <1>4 DEF BufferInv, Queueing, Queued
<1>16. StartedInv'
  <2> SUFFICES ASSUME ~heard.dry, ~dry
               PROVE  source'.state # "stopped" /\ source'.done > 0
                      /\ (index # -1 /\ Lead(P) = "queue" => Len(source.queue) < Buffers)
    BY <1>1, <1>2, <1>4, <1>5 DEF StartedInv
  <2> QED BY <1>1, <1>3, <1>4 DEF StartedInv
<1>17. OrderInv'
  <2>1. Base' = Base /\ Base \in Int
    BY <1>1, <1>2, <1>3 DEF Base, Carried
  <2>2. ASSUME heard.primed, ~heard.dry
        PROVE  /\ unit = heard.last + 1
               /\ \A i \in Queued : source.queue[i].unit = Base - (Len(source.queue) - i)
               /\ last = Base - (Len(source.queue) - done)
    <3>1. /\ \A i \in Queued : source.queue[i].unit = Base - (Len(source.queue) - i)
          /\ heard.last = Base - (Len(source.queue) - source.done)
      BY <1>1, <2>2 DEF OrderInv
    <3>2. unit = Base - (Len(source.queue) - done)
      BY <1>3, <3>1 DEF Queued
    <3>3. Base - (Len(source.queue) - done) = heard.last + 1
      BY <1>3, <2>1, <3>1, SMTT(40)
    <3> HIDE DEF unit, done
    <3> QED BY <1>3, <3>1, <3>2, <3>3
  <2>3. ASSUME heard'.dry, ~heard'.early PROVE Exhausted /\ heard'.last = given
    <3> HIDE DEF last, dry, unit, done
    <3>1. CASE heard.dry
      BY <1>5, <1>6, <2>3, <3>1 DEF OrderInv
    <3>2. CASE dry
      BY <1>5, <1>7, <2>3, <3>2 DEF Exhausted
    <3> QED BY <1>5, <2>3, <3>1, <3>2
  <2> HIDE DEF last, dry, unit, done
  <2>5. ASSUME heard'.primed, ~heard'.dry
        PROVE  /\ \A i \in Queued' : source'.queue[i].unit = Base' - (Len(source'.queue) - i)
               /\ heard'.last = Base' - (Len(source'.queue) - source'.done)
    BY <1>4, <1>5, <2>1, <2>2, <2>5 DEF Queued
  <2>6. Exhausted' = Exhausted /\ given' = given
    BY <1>1 DEF Exhausted
  <2> QED BY <2>3, <2>5, <2>6 DEF OrderInv
<1> QED BY <1>10, <1>11, <1>12, <1>13, <1>14, <1>15, <1>16, <1>17

\* A round of the playing thread begins.
LEMMA RoundKeeps ==
  ASSUME TypeInv, Inv, Round
  PROVE  Inv'
<1> DEFINE Waits(w) == /\ w \in Seq(Steps) /\ Formed(w) /\ OfPlayer(w) /\ ~Locked(w)
                       /\ Lead(w) \in {"end", "restore", "serve"}
<1>1. /\ UNCHANGED <<source, index, playing, sent, mtx, seen, bufferCS, sound, ring, program, given, heard>>
      /\ P = <<>> /\ primary' = program
  BY DEF Round, device, Idle, P
<1>2. PICK serve \in IF program THEN {<<>>, <<"serve">>} ELSE {<<>>} :
        todo' = [todo EXCEPT !["player"] =
                   (IF primary # program /\ sound.callback THEN <<"restore">> ELSE <<>>) \o serve]
  BY DEF Round
<1>3. "serve" \in Steps /\ "restore" \in Steps /\ <<>> \in Seq(Steps) /\ <<"serve">> \in Seq(Steps)
      /\ "player" \in Threads /\ "main" \in Threads
  BY DEF Steps, Threads
<1>4. Waits(<<>>)
  BY <1>3, Nothing
<1>5. Waits(<<"serve">> \o <<>>) /\ <<"serve">> \o <<>> = <<"serve">> /\ Lead(<<"serve">> \o <<>>) = "serve"
  <2>1. Said(<<"serve">> \o <<>>, "serve", <<>>)
    BY <1>3, Begins
  <2>2. Fits("serve", <<>>)
    BY Nothing DEF Fits, Within
  <2>3. <<"serve">> \o <<>> = <<"serve">>
    BY <1>3, ConcatEmptySeq
  <2> DEFINE s == <<"serve">> \o <<>>
  <2> HIDE DEF s
  <2>4. Waits(s) /\ Lead(s) = "serve"
    BY <2>1, <2>2, Nothing DEF Said, s
  <2> QED BY <2>3, <2>4 DEF s
<1>6. Waits(serve) /\ Lead(serve) \in {"end", "serve"} /\ serve \in Seq(Steps)
  BY <1>2, <1>3, <1>4, <1>5, Nothing
<1> HIDE DEF Waits
<1>7. Waits(<<"restore">> \o serve)
  <2>1. Said(<<"restore">> \o serve, "restore", serve)
    BY <1>3, <1>6, Begins
  <2>2. Fits("restore", serve)
    BY <1>6, PlayerStartsNothing DEF Fits, Waits
  <2> DEFINE s == <<"restore">> \o serve
  <2> HIDE DEF s
  <2>3. Waits(s)
    BY <1>6, <2>1, <2>2 DEF Said, Waits, s
  <2> QED BY <2>3 DEF s
<1>8. PICK w : /\ Waits(w) /\ todo' = [todo EXCEPT !["player"] = w]
               /\ (w # <<>> => primary # program \/ program)
  <2>1. CASE primary # program /\ sound.callback
    BY <1>2, <1>7, <2>1
  <2>2. CASE ~(primary # program /\ sound.callback)
    <3>1. <<>> \o serve = serve
      BY <1>6, ConcatEmptySeq
    <3> QED BY <1>2, <1>6, <2>2, <3>1
  <2> QED BY <2>1, <2>2
<1>9. M' = M /\ P' = w
  <2>1. w \in Seq(Steps)
    BY <1>8 DEF Waits
  <2> QED BY <1>3, <1>8, <2>1, TodoChanges DEF TypeInv, M, P
<1> USE DEF Inv
<1>10. (primary => program) /\ primary \in BOOLEAN /\ program \in BOOLEAN
  BY DEF CallInv, TypeInv, FlagInv
<1>11. w # <<>> => program
  BY <1>8, <1>10
<1>12. bufferCS # "player" /\ Lead(P) = "end"
  BY <1>1, Nothing DEF CallInv
<1>13. Formed(w) /\ OfPlayer(w) /\ ~Locked(w) /\ Lead(w) \in {"end", "restore", "serve"}
  BY <1>8 DEF Waits
<1>14. CallInv'
  BY <1>1, <1>9, <1>11, <1>12, <1>13 DEF CallInv, Carried, Threads, M, P
<1>15. MainInv'
  BY <1>1, <1>9, <1>10 DEF MainInv
<1>16. PlayerInv' /\ UnprimedInv' /\ FirstInv'
  BY <1>1, <1>9, <1>10, <1>12, <1>13 DEF PlayerInv, UnprimedInv, FirstInv, Exhausted, Carried, Queueing
<1>17. BufferInv' /\ StartedInv'
  BY <1>1, <1>9, <1>12, <1>13 DEF BufferInv, StartedInv, Queueing, Queued, Threads, M, P
<1>18. OrderInv'
  BY <1>1, <1>9, <1>12, <1>13 DEF OrderInv, Carried, Base, Exhausted, Queued
<1> QED BY <1>14, <1>15, <1>16, <1>17, <1>18

\* The primary buffer plays again, and the sound has not to be played for that.
LEMMA RestoreKeeps ==
  ASSUME TypeInv, Inv, Restore, ~heard'.restored
  PROVE  Inv'
<1> DEFINE r == Tail(P)
           plays == ~sound.paused /\ sound.device /\ sound.buffer
<1>1. Said(P, "restore", r) /\ Fits("restore", r) /\ Formed(r)
  BY Knows DEF Restore, Inv, Steps, Threads, P
<1>2. UNCHANGED <<source, index, playing, sent, mtx, seen, bufferCS, sound, ring, primary, program, given>>
      /\ heard' = [heard EXCEPT !.restored = @ \/ plays]
  BY DEF Restore, device, caller
<1>3. ~plays /\ heard' = heard
  <2>1. heard'.restored = (heard.restored \/ plays)
    BY <1>2 DEF TypeInv, HeardInv
  <2>2. heard.restored = FALSE /\ ~plays
    BY <2>1 DEF TypeInv, HeardInv
  <2>3. heard' = [heard EXCEPT !.restored = FALSE]
    BY <1>2, <2>2
  <2> QED BY <2>2, <2>3 DEF TypeInv, HeardInv
<1>4. P' = r /\ M' = M
  <2>1. <<>> \o r = r /\ r \in Seq(Steps)
    BY <1>1, ConcatEmptySeq DEF Said
  <2>2. Then("player", <<>>)
    BY <1>3 DEF Restore
  <2>3. todo' = [todo EXCEPT !["player"] = r]
    BY <2>1, <2>2 DEF Then, TypeInv, TodoInv, P
  <2> HIDE DEF r
  <2>4. "player" \in Threads /\ "main" \in Threads
    BY DEF Threads
  <2> QED BY <2>1, <2>3, <2>4, TodoChanges DEF TypeInv, M, P
<1> HIDE DEF r
<1> USE DEF Inv
<1>5. Lead(P) = "restore" /\ Lead(r) \in {"end", "serve"}
  BY <1>1 DEF Said, Fits
<1>6. CallInv'
  BY <1>1, <1>2, <1>3, <1>4, <1>5 DEF CallInv, Said, Carried, Threads, M, P
<1>7. MainInv'
  BY <1>2, <1>3, <1>4 DEF MainInv
<1>8. PlayerInv' /\ UnprimedInv' /\ FirstInv'
  BY <1>1, <1>2, <1>3, <1>4, <1>5 DEF PlayerInv, UnprimedInv, FirstInv, Exhausted, Carried, Queueing, Said
<1>9. BufferInv' /\ StartedInv'
  BY <1>2, <1>3, <1>4, <1>5 DEF BufferInv, StartedInv, Queueing, Queued, Threads, M, P
<1>10. OrderInv'
  BY <1>2, <1>3, <1>4, <1>5 DEF OrderInv, Carried, Base, Exhausted, Queued
<1> QED BY <1>6, <1>7, <1>8, <1>9, <1>10

\* Other steps come in the place of a step of the playing thread.
Instead(a, s, r) ==
  /\ Said(P, a, r) /\ P' = s /\ M' = M
  /\ Formed(s) /\ OfPlayer(s) /\ (Locked(s) <=> Locked(P))
  /\ Lead(s) \notin {"act", "queue", "append"}
  /\ bufferCS # "player" => Lead(s) \in {"end", "restore", "serve", "lock"}
  /\ a \notin {"act", "queue", "append", "ensure"}

\* What this does not disturb.
LEMMA InsteadKeeps ==
  ASSUME TypeInv, Inv, NEW a, NEW s, NEW r, Instead(a, s, r),
         UNCHANGED <<source, index, playing, sent, mtx, seen, bufferCS, ring, primary, program, given, heard>>,
         sound'.buffer = sound.buffer, sound'.paused = sound.paused,
         Halted(M) => ~sound'.device
  PROVE  CallInv' /\ MainInv' /\ UnprimedInv' /\ FirstInv' /\ BufferInv' /\ StartedInv' /\ OrderInv'
<1> USE DEF Inv
<1>1. P' = s /\ M' = M /\ Lead(P) = a /\ P # <<>>
  BY DEF Instead, Said
<1>2. CallInv'
  BY <1>1 DEF Instead, CallInv, Carried, Threads, M, P
<1>3. MainInv'
  BY <1>1 DEF MainInv
<1>4. UnprimedInv' /\ FirstInv'
  BY <1>1 DEF Instead, UnprimedInv, FirstInv, Exhausted, Carried, Queueing
<1>5. BufferInv' /\ StartedInv'
  BY <1>1 DEF Instead, BufferInv, StartedInv, Queueing, Queued, Threads, M, P
<1>6. OrderInv'
  BY <1>1 DEF Instead, OrderInv, Carried, Base, Exhausted, Queued
<1> QED BY <1>2, <1>3, <1>4, <1>5, <1>6

\* The sound is to be served.
LEMMA ServeKeeps ==
  ASSUME TypeInv, Inv, Serve
  PROVE  Inv'
<1> DEFINE u == <<"unlock">> \o <<>>
           f == <<"fill">> \o u
           l == <<"lock">> \o f
<1>0. "unlock" \in Steps /\ "fill" \in Steps /\ "lock" \in Steps /\ <<>> \in Seq(Steps)
      /\ "player" \in Threads /\ "main" \in Threads
  BY DEF Steps, Threads
<1>1. Said(P, "serve", Tail(P)) /\ Fits("serve", Tail(P))
  BY Knows DEF Serve, Inv, Steps, Threads, P
<1>2. Tail(P) = <<>>
  BY <1>1 DEF Fits
<1>3. UNCHANGED <<source, index, playing, sent, mtx, seen, bufferCS, sound, ring, primary, program, given, heard>>
  BY DEF Serve, device, caller
<1>4. Formed(u) /\ OfPlayer(u) /\ u \in Seq(Steps) /\ Locked(u) /\ ~Silencing(u) /\ ~Feeding(u)
      /\ ~Filling(u) /\ Lead(u) = "unlock"
  <2>1. Said(u, "unlock", <<>>)
    BY <1>0, Begins
  <2>2. Fits("unlock", <<>>)
    BY Nothing DEF Fits, Within
  <2> HIDE DEF u
  <2> QED BY <2>1, <2>2, Nothing DEF Said
<1> HIDE DEF u
<1>5. Formed(f) /\ OfPlayer(f) /\ f \in Seq(Steps) /\ Locked(f) /\ ~Feeding(f) /\ ~Filling(f) /\ Lead(f) = "fill"
  <2>1. Said(f, "fill", u)
    BY <1>0, <1>4, Begins
  <2>2. Fits("fill", u)
    BY <1>4, PlayerStartsNothing DEF Fits
  <2> HIDE DEF f
  <2> QED BY <1>4, <2>1, <2>2 DEF Said
<1> HIDE DEF f
<1>6. Formed(l) /\ OfPlayer(l) /\ l \in Seq(Steps) /\ ~Locked(l) /\ Lead(l) = "lock"
  <2>1. Said(l, "lock", f)
    BY <1>0, <1>5, Begins
  <2>2. Fits("lock", f)
    BY <1>5, PlayerStartsNothing DEF Fits
  <2> HIDE DEF l
  <2> QED BY <1>5, <2>1, <2>2 DEF Said
<1>7. PICK s \in Seq(Steps) : /\ Formed(s) /\ OfPlayer(s) /\ ~Locked(s) /\ Lead(s) \in {"end", "lock"}
                              /\ todo' = [todo EXCEPT !["player"] = s]
  <2>1. CASE sound.callback
    <3>1. <<"lock", "fill", "unlock">> \o <<>> = l
      BY <1>0, Pushes DEF l, f, u
    <3>2. todo' = [todo EXCEPT !["player"] = l]
      BY <1>0, <1>2, <2>1, <3>1 DEF Serve, Then, TypeInv, TodoInv, P
    <3> HIDE DEF l
    <3> QED BY <1>6, <3>2
  <2>2. CASE ~sound.callback
    <3>1. todo' = [todo EXCEPT !["player"] = <<>>]
      BY <1>0, <1>2, <2>2, ConcatEmptySeq DEF Serve, Then, TypeInv, TodoInv, P
    <3> QED BY <1>0, <3>1, Nothing
  <2> QED BY <2>1, <2>2
<1>8. P' = s /\ M' = M
  BY <1>0, <1>7, TodoChanges DEF TypeInv, M, P
<1>9. ~Locked(P)
  BY <1>1, <1>2, Nothing DEF Said
<1>10. Instead("serve", s, Tail(P))
  BY <1>1, <1>7, <1>8, <1>9 DEF Instead
<1>11. Halted(M) => ~sound'.device
  BY <1>3 DEF Inv, MainInv
<1>12. CallInv' /\ MainInv' /\ UnprimedInv' /\ FirstInv' /\ BufferInv' /\ StartedInv' /\ OrderInv'
  BY <1>3, <1>10, <1>11, InsteadKeeps
<1>13. PlayerInv'
  BY <1>3, <1>9 DEF Inv, PlayerInv, CallInv
<1> QED BY <1>12, <1>13 DEF Inv

\* EnsurePlayState and one step more before r.
LEMMA EnsureAndStep ==
  ASSUME NEW r \in Seq(Steps), Formed(r), OfPlayer(r), NEW a \in {"silent", "stopped", "check"},
         Fits(a, r)
  PROVE  LET e == EnsureThen(<<a>> \o r) IN
         /\ e \in Seq(Steps) /\ Formed(e) /\ Lead(e) = "ensure" /\ OfPlayer(e) /\ Locked(e)
         /\ ~OfMain(e) \/ a = "stopped"
         /\ Silencing(e) <=> a \in {"silent", "stopped"} \/ Silencing(r)
         /\ Filling(e) <=> a = "check" \/ Filling(r)
         /\ Feeding(e) <=> a = "check" \/ Feeding(r)
<1> DEFINE s == <<a>> \o r
<1>1. a \in Steps
  BY DEF Steps
<1>2. Said(s, a, r)
  BY <1>1, Begins
<1> HIDE DEF s
<1>3. Formed(s) /\ OfPlayer(s) /\ s \in Seq(Steps) /\ Lead(s) = a /\ Locked(s)
  BY <1>2 DEF Said, Fits
<1>4. Within(s)
  BY <1>3, PlayerStartsNothing
<1> DEFINE e == EnsureThen(s)
<1>5. e \in Seq(Steps) /\ Lead(e) = "ensure" /\ Formed(e) /\ Within(e) /\ Same(e, s)
  BY <1>3, <1>4, EnsureSaid
<1> HIDE DEF e
<1>6. /\ e \in Seq(Steps) /\ Formed(e) /\ Lead(e) = "ensure" /\ OfPlayer(e) /\ Locked(e)
      /\ ~OfMain(e) \/ a = "stopped"
      /\ Silencing(e) <=> a \in {"silent", "stopped"} \/ Silencing(r)
      /\ Filling(e) <=> a = "check" \/ Filling(r)
      /\ Feeding(e) <=> a = "check" \/ Feeding(r)
  BY <1>2, <1>3, <1>5 DEF Said, Same
<1> QED BY <1>6 DEF e, s

\* FillBuffer brings the pause to the device, or its end.
LEMMA PausesThen ==
  ASSUME NEW r \in Seq(Steps), Formed(r), OfPlayer(r), NEW a \in {"silent", "stopped"},
         Fits(a, r), ~Feeding(r)
  PROVE  LET s == <<"pause">> \o EnsureThen(<<a>> \o r) IN
         /\ s \in Seq(Steps) /\ Formed(s) /\ OfPlayer(s) /\ Locked(s) /\ Lead(s) = "pause"
         /\ ~Feeding(s) /\ (Filling(s) <=> Filling(r))
<1> DEFINE e == EnsureThen(<<a>> \o r)
           s == <<"pause">> \o e
<1>1. /\ e \in Seq(Steps) /\ Formed(e) /\ Lead(e) = "ensure" /\ OfPlayer(e) /\ Locked(e)
      /\ Silencing(e) /\ ~Feeding(e)
      /\ Filling(e) <=> Filling(r)
  BY EnsureAndStep
<1> HIDE DEF e
<1>2. "pause" \in Steps
  BY DEF Steps
<1>3. Said(s, "pause", e) /\ Fits("pause", e)
  BY <1>1, <1>2, Begins, PlayerStartsNothing DEF Fits
<1> HIDE DEF s
<1>4. /\ s \in Seq(Steps) /\ Formed(s) /\ OfPlayer(s) /\ Locked(s) /\ Lead(s) = "pause"
      /\ ~Feeding(s) /\ (Filling(s) <=> Filling(r))
  BY <1>1, <1>3 DEF Said
<1> QED BY <1>4 DEF s, e

\* FillBuffer begins.
LEMMA FillKeeps ==
  ASSUME TypeInv, Inv, Fill
  PROVE  Inv'
<1> DEFINE r == Tail(P)
           s == FillThen(r)
<1>0. "player" \in Threads /\ "main" \in Threads /\ "play" \in Steps /\ "check" \in Steps
  BY DEF Threads, Steps
<1>1. Said(P, "fill", r) /\ Fits("fill", r) /\ Formed(r)
  BY Knows DEF Fill, Inv, Steps, Threads, P
<1>2. UNCHANGED <<source, index, playing, sent, mtx, seen, bufferCS, sound, ring, primary, program, given, heard>>
  BY DEF Fill, device, caller
<1>3. sound.buffer \in BOOLEAN /\ sound.paused \in BOOLEAN /\ sound.device \in BOOLEAN /\ r \in Seq(Steps)
  BY <1>1 DEF TypeInv, FlagInv, Said
<1>4. todo' = [todo EXCEPT !["player"] = s]
  <2>1. (CASE ~sound.buffer -> <<>>
           [] sound.buffer /\ sound.paused ->
                IF sound.device THEN (<<"pause">> \o Ensure) \o <<"silent">> ELSE <<>>
           [] OTHER ->
                (IF sound.device THEN <<>> ELSE <<"play">> \o Ensure) \o <<"check">>) \o r = s
    BY <1>3, FillIs
  <2> QED BY <1>0, <2>1 DEF Fill, Then, TypeInv, TodoInv, P
<1>5. OfPlayer(r) /\ Locked(r) /\ ~Silencing(r) /\ ~Filling(r) /\ ~Feeding(r) /\ ~ResetDone(r)
      /\ Lead(r) \notin {"act", "queue", "append", "take", "refill"}
  BY <1>1, PlayerStartsNothing DEF Inv, CallInv, Said, Fits
<1>6. Fits("silent", r) /\ Fits("check", r)
  BY <1>1, <1>5, PlayerStartsNothing DEF Fits
<1> HIDE DEF r
<1> USE DEF Inv
<1>7. Lead(P) = "fill" /\ bufferCS = "player" /\ Locked(P)
  <2>1. Lead(P) = "fill"
    BY <1>1 DEF Said
  <2> QED BY <2>1, Holds DEF Guarded, CallInv
<1>8. sound.device => playing
  BY <1>1, <1>5, <1>7 DEF PlayerInv, Said
<1>9. /\ s \in Seq(Steps) /\ Formed(s) /\ OfPlayer(s) /\ Locked(s)
      /\ Lead(s) \notin {"act", "queue", "append"}
      /\ Filling(s) => sound.buffer
      /\ Feeding(s) => playing
  <2>1. CASE s = r
    BY <1>1, <1>3, <1>5, <2>1
  <2>2. CASE sound.buffer /\ s = <<"pause">> \o EnsureThen(<<"silent">> \o r)
    <3> DEFINE p == <<"pause">> \o EnsureThen(<<"silent">> \o r)
    <3>1. /\ p \in Seq(Steps) /\ Formed(p) /\ OfPlayer(p) /\ Locked(p) /\ Lead(p) = "pause"
          /\ ~Feeding(p)
      BY <1>1, <1>3, <1>5, <1>6, PausesThen
    <3> HIDE DEF p, s
    <3> QED BY <2>2, <3>1 DEF p
  <2>3. CASE sound.buffer /\ sound.device /\ s = <<"check">> \o r
    <3> DEFINE c == <<"check">> \o r
    <3>1. Said(c, "check", r)
      BY <1>0, <1>3, Begins
    <3> HIDE DEF c
    <3>2. Formed(c) /\ OfPlayer(c) /\ Locked(c) /\ c \in Seq(Steps) /\ Lead(c) = "check"
      BY <1>1, <1>5, <1>6, <3>1 DEF Said
    <3> HIDE DEF s
    <3> QED BY <1>8, <2>3, <3>2 DEF c
  <2>4. CASE sound.buffer /\ s = <<"play">> \o EnsureThen(<<"check">> \o r)
    <3> DEFINE e == EnsureThen(<<"check">> \o r)
               p == <<"play">> \o e
    <3>1. e \in Seq(Steps) /\ Formed(e) /\ Lead(e) = "ensure" /\ OfPlayer(e) /\ Locked(e) /\ ~OfMain(e)
      BY <1>1, <1>3, <1>5, <1>6, EnsureAndStep
    <3> HIDE DEF e
    <3>2. Said(p, "play", e) /\ Fits("play", e)
      BY <1>0, <3>1, Begins, PlayerStartsNothing DEF Fits
    <3> HIDE DEF p
    <3>3. Formed(p) /\ OfPlayer(p) /\ Locked(p) /\ p \in Seq(Steps) /\ Lead(p) = "play" /\ ~Feeding(p)
      BY <3>1, <3>2 DEF Said
    <3> HIDE DEF s
    <3> QED BY <2>4, <3>3 DEF p, e
  <2> QED BY <1>3, <2>1, <2>2, <2>3, <2>4 DEF FillThen
<1> HIDE DEF s
<1>10. P' = s /\ M' = M
  BY <1>0, <1>4, <1>9, TodoChanges DEF TypeInv, M, P
<1>11. Instead("fill", s, r)
  BY <1>1, <1>7, <1>9, <1>10 DEF Instead
<1>12. Halted(M) => ~sound'.device
  BY <1>2 DEF MainInv
<1>13. CallInv' /\ MainInv' /\ UnprimedInv' /\ FirstInv' /\ BufferInv' /\ StartedInv' /\ OrderInv'
  BY <1>2, <1>11, <1>12, InsteadKeeps
<1>14. PlayerInv'
  BY <1>2, <1>8, <1>9, <1>10 DEF PlayerInv
<1> QED BY <1>13, <1>14

\* FillBuffer finds the end, or gives the device a unit.
LEMMA CheckKeeps ==
  ASSUME TypeInv, Inv, Check
  PROVE  Inv'
<1>a. PICK room \in Rooms :
        Then("player", CASE AtEnd -> (<<"pause">> \o Ensure) \o <<"stopped">>
                         [] ~AtEnd /\ Remain >= room -> <<>>
                         [] OTHER -> <<"take">>)
  BY DEF Check
<1> DEFINE r == Tail(P)
           s == CheckThen(room, r)
<1>0. "player" \in Threads /\ "main" \in Threads /\ "take" \in Steps
  BY DEF Threads, Steps
<1>1. Said(P, "check", r) /\ Fits("check", r) /\ Formed(r)
  BY Knows DEF Check, Inv, Steps, Threads, P
<1>2. /\ UNCHANGED <<source, index, playing, sent, mtx, seen, bufferCS, ring, primary, program, given, heard>>
      /\ sound' = [sound EXCEPT !.device = TRUE]
  BY DEF Check, device
<1>3. sound'.buffer = sound.buffer /\ sound'.paused = sound.paused /\ r \in Seq(Steps)
  BY <1>1, <1>2 DEF TypeInv, FlagInv, Said
<1>4. todo' = [todo EXCEPT !["player"] = s]
  <2>1. (CASE AtEnd -> (<<"pause">> \o Ensure) \o <<"stopped">>
           [] ~AtEnd /\ Remain >= room -> <<>>
           [] OTHER -> <<"take">>) \o r = s
    BY <1>3, CheckIs
  <2> QED BY <1>a, <1>0, <2>1 DEF Then, TypeInv, TodoInv, P
<1>5. OfPlayer(r) /\ Locked(r) /\ ~Filling(r) /\ ~Feeding(r)
      /\ Lead(r) \notin {"act", "queue", "append", "take", "refill"}
  BY <1>1 DEF Inv, CallInv, Said, Fits
<1>6. Fits("stopped", r) /\ Fits("take", r)
  BY <1>1, <1>5, PlayerStartsNothing DEF Fits
<1> HIDE DEF r
<1> USE DEF Inv
<1>7. Lead(P) = "check" /\ bufferCS = "player" /\ Locked(P)
  <2>1. Lead(P) = "check"
    BY <1>1 DEF Said
  <2> QED BY <2>1, Holds DEF Guarded, CallInv
<1>8. playing /\ sound.buffer
  BY <1>1, <1>7 DEF PlayerInv, Said
<1>9. /\ s \in Seq(Steps) /\ Formed(s) /\ OfPlayer(s) /\ Locked(s)
      /\ Lead(s) \notin {"act", "queue", "append"}
  <2>1. CASE s = r
    BY <1>1, <1>3, <1>5, <2>1
  <2>2. CASE s = <<"pause">> \o EnsureThen(<<"stopped">> \o r)
    <3> DEFINE p == <<"pause">> \o EnsureThen(<<"stopped">> \o r)
    <3>1. /\ p \in Seq(Steps) /\ Formed(p) /\ OfPlayer(p) /\ Locked(p) /\ Lead(p) = "pause"
      BY <1>1, <1>3, <1>5, <1>6, PausesThen
    <3> HIDE DEF p, s
    <3> QED BY <2>2, <3>1 DEF p
  <2>3. CASE s = <<"take">> \o r
    <3> DEFINE c == <<"take">> \o r
    <3>1. Said(c, "take", r)
      BY <1>0, <1>3, Begins
    <3> HIDE DEF c
    <3>2. Formed(c) /\ OfPlayer(c) /\ Locked(c) /\ c \in Seq(Steps) /\ Lead(c) = "take"
      BY <1>1, <1>5, <1>6, <3>1 DEF Said
    <3> HIDE DEF s
    <3> QED BY <2>3, <3>2 DEF c
  <2> QED BY <2>1, <2>2, <2>3 DEF CheckThen
<1> HIDE DEF s
<1>10. P' = s /\ M' = M
  BY <1>0, <1>4, <1>9, TodoChanges DEF TypeInv, M, P
<1>11. Instead("check", s, r)
  BY <1>1, <1>7, <1>9, <1>10 DEF Instead
<1>12. ~Halted(M)
  BY <1>8 DEF MainInv
<1>13. CallInv' /\ MainInv' /\ UnprimedInv' /\ FirstInv' /\ BufferInv' /\ StartedInv' /\ OrderInv'
  BY <1>2, <1>3, <1>11, <1>12, InsteadKeeps
<1>14. PlayerInv'
  BY <1>2, <1>3, <1>8 DEF PlayerInv
<1> QED BY <1>13, <1>14

-----------------------------------------------------------------------------
(* The invariant of the specification.                                      *)

\* Before the first call.
LEMMA InitKeeps == Init => Inv
<1> SUFFICES ASSUME Init PROVE Inv
  OBVIOUS
<1>1. M = <<>> /\ P = <<>> /\ \A t \in Threads : todo[t] = <<>>
  BY DEF Init, M, P, Threads
<1>2. /\ source.queue = <<>> /\ source.state = "initial" /\ source.done = 0 /\ index = -1
      /\ ~playing /\ ~sent /\ bufferCS = None /\ (primary => program)
      /\ ~sound.buffer /\ ~sound.device /\ given = 0 /\ heard.last = 0
      /\ ~heard.dry /\ ~heard.primed
  BY DEF Init, EmptySource
<1>3. ~Carried /\ ~Queueing
  BY <1>1, Nothing DEF Carried, Queueing
<1>4. CallInv
  BY <1>1, <1>2, <1>3, Nothing DEF CallInv, Within, None
<1>5. MainInv /\ PlayerInv
  BY <1>1, <1>2, Nothing DEF MainInv, PlayerInv
<1>6. UnprimedInv /\ FirstInv /\ BufferInv /\ StartedInv
  BY <1>2, <1>3 DEF UnprimedInv, FirstInv, BufferInv, StartedInv
<1>7. OrderInv
  BY <1>2 DEF OrderInv
<1> QED BY <1>4, <1>5, <1>6, <1>7 DEF Inv

\* A step that changes nothing.
LEMMA StutterKeeps ==
  ASSUME Inv, UNCHANGED vars
  PROVE  Inv'
<1>1. /\ UNCHANGED <<source, index, playing, sent, mtx, seen, bufferCS, sound, ring,
                     primary, program, given, todo, heard>>
      /\ UNCHANGED <<M, P>>
  BY DEF vars, device, caller, M, P
<1>2. UNCHANGED <<Carried, Queueing, Queued, Exhausted>>
  BY <1>1 DEF Carried, Queueing, Queued, Exhausted
<1>3. UNCHANGED Base
  BY <1>1, <1>2 DEF Base
<1>4. CallInv' /\ MainInv' /\ PlayerInv'
  BY <1>1, <1>2 DEF Inv, CallInv, MainInv, PlayerInv
<1>5. UnprimedInv' /\ FirstInv' /\ BufferInv' /\ StartedInv'
  BY <1>1, <1>2 DEF Inv, UnprimedInv, FirstInv, BufferInv, StartedInv
<1>6. OrderInv'
  BY <1>1, <1>2, <1>3 DEF Inv, OrderInv
<1> QED BY <1>4, <1>5, <1>6 DEF Inv

\* Once SetBufferPaused has called the device nothing more is said of it.
LEMMA RestoredStays ==
  ASSUME TypeInv, heard.restored, Next
  PROVE  heard'.restored
<1>1. heard = [last |-> heard.last, dry |-> heard.dry, early |-> heard.early,
               primed |-> heard.primed, restored |-> heard.restored]
  BY DEF TypeInv, HeardInv
<1>2. CASE Mix
  BY <1>1, <1>2 DEF Mix
<1>3. CASE UNCHANGED heard
  BY <1>3
<1>4. CASE Refill \/ Restore \/ \E t \in Threads : Take(t)
  BY <1>1, <1>4 DEF Refill, Restore, Take
<1>5. ASSUME NEW t \in Threads, Step(t), ~Take(t) PROVE UNCHANGED heard
  BY <1>5 DEF Step, EnsureRead, EnsureAct, Unqueue, Queue, Flags, Lock, Unlock, Stopped
<1>6. DecodeAhead \/ TimerBeat \/ Play \/ SetSamplePosition \/ Stop \/ SetVolume \/ SetPaused
        \/ Round \/ Go \/ Quiet \/ Serve \/ Fill \/ Silent \/ Check => UNCHANGED heard
  BY DEF DecodeAhead, TimerBeat, Play, SetSamplePosition, Stop, SetVolume, SetPaused, Round,
         Go, Quiet, Serve, Fill, Silent, Check
<1>7. "main" \in Threads /\ "player" \in Threads
  BY DEF Threads
<1> QED BY <1>2, <1>3, <1>4, <1>5, <1>6, <1>7 DEF Next, MainStep, PlayerStep

\* The steps that either thread may have to do.
LEMMA StepKeeps ==
  ASSUME TypeInv, Inv, NEW t \in Threads, Step(t)
  PROVE  Inv'
  BY EnsureReadKeeps, EnsureActKeeps, UnqueueKeeps, QueueKeeps, FlagsKeep, LockKeeps,
     UnlockKeeps, TakeKeeps, StoppedKeeps DEF Step

\* The inductive invariant.
IInv == TypeInv /\ (heard.restored \/ Inv)

\* Every step keeps it.
LEMMA NextKeeps == IInv /\ [Next]_vars => IInv'
<1> SUFFICES ASSUME IInv, [Next]_vars PROVE IInv'
  OBVIOUS
<1>1. TypeInv /\ TypeInv'
  BY NextTypes DEF IInv
<1>2. CASE UNCHANGED vars
  <2>1. UNCHANGED heard
    BY <1>2 DEF vars
  <2> QED BY <1>1, <1>2, <2>1, StutterKeeps DEF IInv
<1>3. CASE Next /\ heard.restored
  BY <1>1, <1>3, RestoredStays DEF IInv
<1>4. CASE Next /\ ~heard.restored
  <2>1. Inv
    BY <1>4 DEF IInv
  <2>2. "main" \in Threads /\ "player" \in Threads
    BY DEF Threads
  <2>3. Inv' => IInv'
    BY <1>1 DEF IInv
  <2>4. CASE Mix \/ DecodeAhead
    BY <1>1, <2>1, <2>4, <2>3, MixKeeps, DecodeAheadKeeps
  <2>5. CASE MainStep
    BY <1>1, <2>1, <2>2, <2>5, <2>3, StepKeeps, RefillKeeps, GoKeeps, QuietKeeps DEF MainStep
  <2>6. CASE TimerBeat \/ Play \/ SetSamplePosition \/ Stop \/ SetVolume \/ SetPaused
    BY <1>1, <2>1, <2>6, <2>3, CallKeeps, BetweenKeeps
  <2>7. CASE (PlayerStep /\ ~Restore) \/ Round
    BY <1>1, <2>1, <2>2, <2>7, <2>3, StepKeeps, ServeKeeps, FillKeeps, SilentKeeps, CheckKeeps, RoundKeeps
    DEF PlayerStep
  <2>8. CASE Restore
    BY <1>1, <2>1, <2>8, RestoreKeeps DEF IInv
  <2> QED BY <1>1, <1>4, <2>4, <2>5, <2>6, <2>7, <2>8 DEF Next
<1> QED BY <1>2, <1>3, <1>4

\* The invariant holds.
THEOREM StreamInvariant == Spec => []IInv
<1>1. Init => IInv
  BY InitTypes, InitKeeps DEF IInv
<1> QED BY <1>1, NextKeeps, PTL DEF Spec

-----------------------------------------------------------------------------
(* The properties.                                                          *)

\* Fewer buffers than there are, counted backwards, do not reach the next one.
LEMMA NextIsFree ==
  ASSUME NEW x \in 0 .. Buffers - 1, NEW k \in Nat, k + 1 < Buffers
  PROVE  Numbered(x - k) # (IF x + 1 >= Buffers THEN 0 ELSE x + 1)
<1>1. Buffers \in Nat
  BY StreamAssumption
<1>2. CASE x >= k
  BY <1>1, <1>2 DEF Numbered
<1>3. CASE x < k
  BY <1>1, <1>3 DEF Numbered
<1> QED BY <1>1, <1>2, <1>3

\* AppendBuffer never fills a buffer that OpenAL still has in its queue: of a
\* Regular sound the buffers there are the ones numbered last, fewer than all.
THEOREM FilledBufferIsFree == Spec => []BufferIsFree
<1>1. ASSUME IInv PROVE BufferIsFree
  <2> SUFFICES ASSUME NEW t \in Threads, At(t, "queue"), Len(source.queue) < Buffers,
                      Regular, NEW i \in 1 .. Len(source.queue)
               PROVE  source.queue[i].buffer # NextIndex
    BY DEF BufferIsFree
  <2>1. TypeInv /\ FirstInv /\ BufferInv
    BY <1>1 DEF IInv, Inv, Regular
  <2>2. Queueing
    BY DEF At, Threads, Queueing, Lead, M, P
  <2>3. Len(source.queue) \in Nat /\ index \in -1 .. Buffers - 1 /\ Buffers \in Nat
    BY <2>1, StreamAssumption, LenProperties DEF TypeInv, SourceInv, Sources, FlagInv
  <2>4. index # -1
    <3>1. source.queue # <<>>
      BY <2>3
    <3> QED BY <2>1, <2>2, <3>1 DEF FirstInv
  <2>5. source.queue[i].buffer = Numbered(index - (Len(source.queue) - i))
    BY <2>1, <2>4 DEF BufferInv, Queued
  <2>6. index \in 0 .. Buffers - 1 /\ Len(source.queue) - i \in Nat
        /\ Len(source.queue) - i + 1 < Buffers
    BY <2>3, <2>4
  <2> QED BY <2>5, <2>6, NextIsFree DEF NextIndex
<1> QED BY <1>1, StreamInvariant, PTL

\* Until the device runs dry since the start, the unit that the mixer plays to its
\* end is the next after the last one heard: of a Regular sound.
THEOREM UnitsHeardInOrder == Spec => HeardInOrder
<1>1. ASSUME IInv, Mix, Regular, ~heard.dry PROVE heard'.last = heard.last + 1
  <2>1. TypeInv /\ OrderInv /\ heard.primed
    BY <1>1 DEF IInv, Inv, Regular
  <2>2. source.state = "playing"
    BY <1>1 DEF Mix
  <2> DEFINE done == source.done + 1
             unit == source.queue[done].unit
             last == IF unit > heard.last THEN unit ELSE heard.last
             dry == done = Len(source.queue)
  <2>3. heard' = [heard EXCEPT
              !.last = last,
              !.dry = @ \/ dry,
              !.early = @ \/ (dry /\ (~ring.ended \/ ring.units > 0 \/ last # given))]
    BY <1>1 DEF Mix
  <2>4. heard'.last = last
    <3> HIDE DEF last, dry
    <3> QED BY <2>1, <2>3 DEF TypeInv, HeardInv
  <2>5. /\ done \in 1 .. Len(source.queue) /\ Len(source.queue) \in Nat
        /\ source.done \in Nat /\ heard.last \in Nat /\ given \in Int
    BY <2>1, <2>2, StreamAssumption DEF TypeInv, SourceInv, Sources, HeardInv, RingInv
  <2>6. Base \in Int
    BY <2>5 DEF Base
  <2>7. /\ \A i \in Queued : source.queue[i].unit = Base - (Len(source.queue) - i)
        /\ heard.last = Base - (Len(source.queue) - source.done)
    BY <1>1, <2>1, <2>2 DEF OrderInv
  <2>8. unit = Base - (Len(source.queue) - done)
    BY <2>5, <2>7 DEF Queued
  <2> HIDE DEF unit
  <2>9. unit = heard.last + 1
    BY <2>5, <2>6, <2>7, <2>8
  <2> QED BY <2>4, <2>5, <2>9
<1> QED BY <1>1, StreamInvariant, PTL DEF HeardInOrder, Spec

\* FillBuffer takes a Regular sound for finished only when the last unit decoded
\* was heard, or the device had run dry before its end.
THEOREM SoundEndsAfterLast == Spec => []EndAfterLast
<1>1. ASSUME IInv PROVE EndAfterLast
  <2> SUFFICES ASSUME At("player", "check"), AtEnd, Regular, ~heard.early
               PROVE  heard.last = given /\ ring.units = 0
    BY DEF EndAfterLast
  <2>1. /\ TypeInv /\ CallInv /\ PlayerInv /\ FirstInv /\ BufferInv /\ StartedInv /\ OrderInv
    BY <1>1 DEF IInv, Inv, Regular
  <2>2. Lead(P) = "check"
    BY DEF At, Lead, P
  <2>3. bufferCS = "player" /\ Lead(M) # "queue"
    BY <2>1, <2>2, Holds DEF Guarded
  <2>4. P \in Seq(Steps) /\ P # <<>>
    BY <2>1, <2>2 DEF Lead, P, TypeInv, TodoInv, Threads
  <2>5. Filling(P) /\ Feeding(P)
    <3>1. Said(P, "check", Tail(P))
      BY <2>2, <2>4, Leads
    <3> QED BY <3>1 DEF Said
  <2>6. sound.buffer /\ playing
    BY <2>1, <2>3, <2>5 DEF PlayerInv
  <2>7. index # -1
    BY <2>1, <2>2, <2>3, <2>6 DEF FirstInv, Regular
  <2>8. source.queue # <<>>
    BY <2>1, <2>2, <2>3, <2>7 DEF BufferInv, Queueing
  <2>9. heard.dry
    <3> SUFFICES ASSUME ~heard.dry PROVE FALSE
      OBVIOUS
    <3>1. source.state # "stopped"
      BY <2>1, <2>2, <2>3, <2>6, <2>7 DEF StartedInv, P
    <3>2. /\ source.queue \in Seq([buffer : 0 .. Buffers - 1, unit : 1 .. MaxUnits])
          /\ source.done \in 0 .. Buffers /\ source.state \in States
          /\ source.state \in {"playing", "paused"} => source.done < Len(source.queue)
      BY <2>1 DEF TypeInv, SourceInv, Sources
    <3>3. Len(source.queue) \in Nat /\ Len(source.queue) # 0 /\ source.done \in Int
      BY <2>8, <3>2, EmptySeq, LenProperties
    <3>4. Remain # 0
      BY <3>1, <3>2, <3>3 DEF Remain, Processed, States
    <3> QED BY <3>4 DEF AtEnd
  <2> QED BY <2>1, <2>9 DEF OrderInv, Exhausted
<1> QED BY <1>1, StreamInvariant, PTL
=============================================================================
