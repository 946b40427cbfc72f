-------------------------- MODULE VideoSettlesProofs --------------------------
(***************************************************************************)
(* When everything has settled, the display shows the document on the      *)
(* frame asked for: nothing that was given to the provider is lost on its  *)
(* way to the display, unless rendering failed or the last update was      *)
(* skipped.                                                                *)
(*                                                                         *)
(* The argument: until the display shows what the worker has, there is     *)
(* always someone who will make it so - a call still to make, work that is *)
(* pending and scheduled, a packet in work or one that was posted.         *)
(***************************************************************************)
EXTENDS VideoProviderProofs

(***************************************************************************)
(* The calls still to make                                                 *)
(***************************************************************************)
\* Who asks for a frame at the end, and what only such calls contain.
Asking(s) == s # <<>> /\ s[Len(s)].call \in {"request", "render"}
Resets == {"cancel", "timecodes", "replace", "close", "open"}
ToLoad == visual.pending.mode = "load"
CallsAsk ==
    /\ \A i \in 1 .. Len(todo) : todo[i].call \in Resets => Asking(todo)
    /\ \A job \in {"timecodes", "replace", "close"} : Outstanding(job) => Asking(todo)

\* A request is for the target, and colours come before the load of the commit that changed
\* them, or while one is awaited.
FirstColour(s) == \A i \in 1 .. Len(s) : s[i].call = "colour" => i = 1
CallsFit ==
    /\ FirstColour(todo)
    /\ Names("colour", todo) => Names("load", todo) \/ ToLoad
    /\ \A i \in 1 .. Len(todo) : /\ todo[i].call = "request" => todo[i].frame = frame_n
                                 /\ todo[i].call = "update" => todo[i].lines # {}

\* What an interaction awaits.
Changing(u) == u.mode = "update" => u.lines # {}
VisualShape ==
    /\ visual.pending.mode # "none" => visual.active
    /\ ToLoad => visual.final.mode = "load"
    /\ Changing(visual.pending) /\ Changing(visual.final)

(***************************************************************************)
(* The turns of visual packets: one that the sink drops as superseded      *)
(* would be lost, but none that the worker posts is older than the sink's  *)
(* last.                                                                   *)
(***************************************************************************)
Rank(o) == IF o.class = "final" THEN 2 * o.id + 1 ELSE 2 * o.id
SinkRank == IF sink.final THEN 2 * sink.id + 1 ELSE 2 * sink.id
VisualRank == IF visual.active THEN 2 * visual.id ELSE 2 * visual.id + 1
IsVisual(o) == o.class # "every"
After(r) ==
    /\ r <= VisualRank
    /\ \A i \in 1 .. Len(todo) : IsVisual(todo[i].options) => r <= Rank(todo[i].options)
AfterPending(r) == After(r) /\ (IsVisual(pending.options) => r <= Rank(pending.options))
OneVisualCall ==
    \A i \in 1 .. Len(todo) : IsVisual(todo[i].options) =>
        /\ Rank(todo[i].options) <= VisualRank
        /\ \A j \in 1 .. Len(todo) : IsVisual(todo[j].options) => i = j
Turns ==
    /\ AfterPending(SinkRank) /\ (IsVisual(worker.packet) => SinkRank <= Rank(worker.packet))
    /\ IsVisual(worker.packet) => AfterPending(Rank(worker.packet))
    /\ IsVisual(pending.options) => After(Rank(pending.options))
    /\ OneVisualCall

(***************************************************************************)
(* What is pending is scheduled.                                           *)
(***************************************************************************)
Rendering == worker.at \in {"render", "deliver", "error"}
Scheduled ==
    /\ ~NothingToTake => Names("schedule", todo) \/ processing_scheduled
    /\ processing_scheduled =>
          \/ \E i \in 1 .. Len(queue) : queue[i] = "process"
          \/ worker.at = "take" \/ Rendering

(***************************************************************************)
(* The frame that the worker renders next is one the display awaits.       *)
(***************************************************************************)
Asked == Names("request", todo) \/ Names("render", todo) \/ Outstanding("render")
IsTarget(f) == accept_late_preview_frames \/ f = frame_n
InWork == Rendering /\ worker.packet.version = Version
TargetKnown ==
    /\ HasFailed \/ Asked \/ (TakenFrame # None /\ IsTarget(TakenFrame))
    /\ InWork => \/ HasFailed \/ Asked \/ pending.kind = "request"
                 \/ IsTarget(worker.packet.frame)
RequestIssued == worker.packet.version.request <= request_version
CheckUpdated == pending.kind = "request" => ~pending.check_updated
\* What the next pass is compared with was drawn.
Rendered ==
    ~HasFailed /\ last_rendered # None => drawn.frame = last_rendered /\ drawn.lines = last_lines

(***************************************************************************)
(* Someone will show what the worker has, or it is shown.                  *)
(***************************************************************************)
GivesContent == Names("load", todo) \/ Names("update", todo)
IsPosted ==
    \E i \in 1 .. Len(messages) :
        /\ messages[i].kind # "error"
        /\ messages[i].packet.version = Version /\ messages[i].packet.frame = frame_n
IsShown ==
    /\ NothingChanged
    /\ displayed.frame = frame_n
    /\ IsPictureOf(displayed, subs, colour_space, subtitles_timecodes)
\* The worker posted the document last, which the display did not have to show.
LastDrawn ==
    /\ ~HasContent
    /\ outcome = "skipped" \/ (accept_late_preview_frames /\ drawn.frame # frame_n)
    /\ drawn.frame \in Frame
    /\ drawn.lines = VisibleLines(subs, subtitles_timecodes, drawn.frame)
WillShow ==
    \/ HasFailed \/ Asked \/ GivesContent \/ ToLoad
    \/ pending.kind = "request" \/ HasContent
    \/ InWork \/ IsPosted \/ IsShown \/ LastDrawn

Shows == CallsAsk /\ CallsFit /\ VisualShape /\ Turns /\ Scheduled /\ TargetKnown
         /\ RequestIssued /\ CheckUpdated /\ Rendered /\ WillShow
-----------------------------------------------------------------------------
(***************************************************************************)
(* The calls of a handler                                                  *)
(***************************************************************************)
\* A call that gives an update, and the calls that ask for a frame.
Gives(x, o) ==
    /\ x \in CallRecord /\ x.options = o
    /\ x.call = "load" \/ (x.call = "update" /\ x.lines # {})
Asks(s, f) ==
    /\ s \in Seq(CallRecord) /\ Asking(s)
    /\ \A i \in 1 .. Len(s) : /\ s[i].call \in {"cancel", "request", "render"}
                              /\ s[i].options = EveryFrame
                              /\ s[i].call = "request" => s[i].frame = f

\* An update that an interaction awaits is submitted in one call, or there is none.
LEMMA SubmittedCall ==
  ASSUME NEW u \in Update, Changing(u), NEW o \in Options
  PROVE  LET m == SubmitSubtitleUpdate(u, o)
         IN  \/ m = <<>> /\ u.mode = "none"
             \/ \E x : m = <<x>> /\ Gives(x, o) /\ (u.mode = "load" => x.call = "load")
<1>1. u.mode \in {"none", "load", "update"} /\ u.lines \in SUBSET Line
  BY DEF Update
<1>2. CASE u.mode = "none"
  BY <1>2 DEF SubmitSubtitleUpdate
<1>3. CASE u.mode = "load"
  <2>1. /\ LoadSubtitles(o) \in CallRecord /\ LoadSubtitles(o).call = "load"
        /\ LoadSubtitles(o).options = o
    BY CallFacts DEF LoadSubtitles, Call
  <2>2. SubmitSubtitleUpdate(u, o) = <<LoadSubtitles(o)>>
    BY <1>3 DEF SubmitSubtitleUpdate
  <2> QED
    BY <2>1, <2>2 DEF Gives
<1>4. CASE u.mode = "update"
  <2> DEFINE x == UpdateSubtitles(u.lines, o)
  <2>1. /\ x \in CallRecord /\ x.call = "update" /\ x.lines = u.lines /\ x.options = o
    BY <1>1, CallFacts DEF UpdateSubtitles, Call
  <2>2. SubmitSubtitleUpdate(u, o) = <<x>>
    BY <1>4 DEF SubmitSubtitleUpdate
  <2> HIDE DEF x
  <2> QED
    BY <1>4, <2>1, <2>2 DEF Gives, Changing
<1> QED
  BY <1>1, <1>2, <1>3, <1>4

\* The calls of three parts, one after the other.
Joined(t, b, m, a) ==
    /\ t \in Seq(CallRecord)
    /\ Len(b) \in Nat /\ Len(m) \in Nat /\ Len(a) \in Nat
    /\ Len(t) = Len(b) + Len(m) + Len(a)
    /\ \A i \in 1 .. Len(b) : t[i] = b[i]
    /\ \A i \in 1 .. Len(m) : t[Len(b) + i] = m[i]
    /\ \A i \in 1 .. Len(a) : t[Len(b) + Len(m) + i] = a[i]
LEMMA JoinedCalls ==
  ASSUME NEW b \in Seq(CallRecord), NEW m \in Seq(CallRecord), NEW a \in Seq(CallRecord),
         NEW t, t = b \o (m \o a)
  PROVE  Joined(t, b, m, a)
<1> DEFINE s == m \o a
<1>1. Len(b) \in Nat /\ Len(m) \in Nat /\ Len(a) \in Nat
  BY LenProperties
<1>2. /\ s \in Seq(CallRecord) /\ Len(s) = Len(m) + Len(a)
      /\ \A i \in 1 .. Len(m) + Len(a) : s[i] = IF i <= Len(m) THEN m[i] ELSE a[i - Len(m)]
  BY ConcatProperties
<1>3. /\ \A i \in 1 .. Len(m) : s[i] = m[i]
      /\ \A i \in 1 .. Len(a) : s[Len(m) + i] = a[i]
  <2>1. \A i \in 1 .. Len(a) : /\ Len(m) + i \in 1 .. Len(m) + Len(a)
                               /\ ~(Len(m) + i <= Len(m)) /\ (Len(m) + i) - Len(m) = i
    BY <1>1
  <2>2. \A i \in 1 .. Len(m) : i \in 1 .. Len(m) + Len(a) /\ i <= Len(m)
    BY <1>1
  <2> QED
    BY <1>2, <2>1, <2>2
<1>s. t = b \o s
  OBVIOUS
<1> HIDE DEF s
<1>4. /\ t \in Seq(CallRecord) /\ Len(t) = Len(b) + Len(s)
      /\ \A i \in 1 .. Len(b) + Len(s) : t[i] = IF i <= Len(b) THEN b[i] ELSE s[i - Len(b)]
  <2>1. s \in Seq(CallRecord)
    BY <1>2
  <2> QED
    BY <1>s, <2>1, ConcatProperties
<1>5. \A i \in 1 .. Len(b) : t[i] = b[i]
  BY <1>1, <1>2, <1>4
<1>6. \A i \in 1 .. Len(m) + Len(a) : t[Len(b) + i] = s[i]
  <2>1. \A i \in 1 .. Len(m) + Len(a) : /\ Len(b) + i \in 1 .. Len(b) + Len(s)
                                        /\ ~(Len(b) + i <= Len(b)) /\ (Len(b) + i) - Len(b) = i
    BY <1>1, <1>2
  <2> QED
    BY <1>4, <2>1
<1>7. \A i \in 1 .. Len(a) : t[Len(b) + Len(m) + i] = a[i]
  <2>1. \A i \in 1 .. Len(a) : /\ Len(m) + i \in 1 .. Len(m) + Len(a)
                               /\ Len(b) + Len(m) + i = Len(b) + (Len(m) + i)
    BY <1>1
  <2> QED
    BY <1>3, <1>6, <2>1
<1>8. \A i \in 1 .. Len(m) : t[Len(b) + i] = m[i]
  <2>1. \A i \in 1 .. Len(m) : i \in 1 .. Len(m) + Len(a)
    BY <1>1
  <2> QED
    BY <1>3, <1>6, <2>1
<1>9. Len(t) = Len(b) + Len(m) + Len(a)
  BY <1>1, <1>2, <1>4
<1> QED
  BY <1>1, <1>4, <1>5, <1>7, <1>8, <1>9 DEF Joined

\* The calls a handler may make: colours or a cancel, an update, and who asks for a frame.
MadeOf(t, b, m, a, o, f) ==
    /\ FirstColour(t)
    /\ \A i \in 1 .. Len(t) :
          /\ t[i].call \in Resets => Asking(t)
          /\ t[i].call = "request" => t[i].frame = f
          /\ t[i].call = "update" => t[i].lines # {}
          /\ IsVisual(t[i].options) => t[i].options = o /\ i = Len(b) + 1 /\ m # <<>>
    /\ a # <<>> => Asking(t)
    /\ m # <<>> => Names(m[1].call, t)
    /\ Names("colour", t) => b # <<>> /\ b[1].call = "colour"

\* A place in a list of three parts, the first two of at most one call, is in one of them.
LEMMA OneOfThree ==
  \A p, q \in {0, 1}, r \in Nat : \A i \in 1 .. p + q + r :
      \/ i = 1 /\ p = 1
      \/ i = p + 1 /\ q = 1
      \/ i - (p + q) \in 1 .. r /\ i = p + q + (i - (p + q))
<1> SUFFICES ASSUME NEW p \in {0, 1}, NEW q \in {0, 1}, NEW r \in Nat,
                    NEW i \in 1 .. p + q + r
             PROVE  \/ i = 1 /\ p = 1
                    \/ i = p + 1 /\ q = 1
                    \/ i - (p + q) \in 1 .. r /\ i = p + q + (i - (p + q))
  OBVIOUS
<1> QED
  OBVIOUS

\* The part of a list of calls that its i-th call stands in.
PlaceIn(i, t, b, m, a) ==
    \/ i = 1 /\ Len(b) = 1 /\ t[i] = b[1]
    \/ i = Len(b) + 1 /\ Len(m) = 1 /\ t[i] = m[1]
    \/ a # <<>> /\ \E k \in 1 .. Len(a) : t[i] = a[k]
AtMostOne(s) == Len(s) \in {0, 1}
LEMMA PlaceInJoined ==
  ASSUME NEW t, NEW b, NEW m, NEW a, Joined(t, b, m, a),
         AtMostOne(b), AtMostOne(m)
  PROVE  \A i \in 1 .. Len(t) : PlaceIn(i, t, b, m, a)
<1> SUFFICES ASSUME NEW i \in 1 .. Len(t)
             PROVE  PlaceIn(i, t, b, m, a)
  OBVIOUS
<1>1. PICK p, q \in {0, 1}, r \in Nat :
         p = Len(b) /\ q = Len(m) /\ r = Len(a) /\ Len(t) = p + q + r
  BY DEF Joined, AtMostOne
<1>2. i \in 1 .. p + q + r
  BY <1>1
<1>3. \/ i = 1 /\ p = 1
      \/ i = p + 1 /\ q = 1
      \/ i - (p + q) \in 1 .. r /\ i = p + q + (i - (p + q))
  BY <1>2, OneOfThree
<1>4. CASE i = 1 /\ p = 1
  BY <1>1, <1>4 DEF Joined, PlaceIn
<1>5. CASE i = p + 1 /\ q = 1
  BY <1>1, <1>5 DEF Joined, PlaceIn
<1>6. ASSUME NEW k \in 1 .. r, i = p + q + k
      PROVE  PlaceIn(i, t, b, m, a)
  <2>1. t[i] = a[k]
    BY <1>1, <1>6 DEF Joined
  <2>2. a # <<>>
    BY <1>1, <1>6, EmptySeq
  <2> QED
    BY <1>1, <2>1, <2>2 DEF PlaceIn
<1> QED
  BY <1>3, <1>4, <1>5, <1>6

LEMMA CallsMade ==
  ASSUME NEW b \in Seq(CallRecord), NEW m \in Seq(CallRecord), NEW a \in Seq(CallRecord),
         NEW o, NEW f, NEW t, t = b \o (m \o a),
         \/ b = <<>>
         \/ /\ Len(b) = 1 /\ b[1].call \in {"colour", "cancel"} /\ b[1].options = EveryFrame
            /\ a = <<>> => b[1].call = "colour",
         m = <<>> \/ (Len(m) = 1 /\ Gives(m[1], o)),
         a = <<>> \/ Asks(a, f)
  PROVE  MadeOf(t, b, m, a, o, f)
<1>1. /\ t \in Seq(CallRecord) /\ Len(b) \in Nat /\ Len(m) \in Nat /\ Len(a) \in Nat
      /\ Len(t) = Len(b) + Len(m) + Len(a)
      /\ \A i \in 1 .. Len(b) : t[i] = b[i]
      /\ \A i \in 1 .. Len(m) : t[Len(b) + i] = m[i]
      /\ \A i \in 1 .. Len(a) : t[Len(b) + Len(m) + i] = a[i]
  <2>1. Joined(t, b, m, a)
    BY JoinedCalls
  <2> QED
    BY <2>1 DEF Joined
<1>2. /\ Len(b) \in {0, 1} /\ Len(m) \in {0, 1}
      /\ (m = <<>> <=> Len(m) = 0) /\ (a # <<>> => Len(a) \in Nat \ {0})
  BY EmptySeq
<1>3. a # <<>> => Asking(t)
  <2> SUFFICES ASSUME a # <<>>
               PROVE  Asking(t)
    OBVIOUS
  <2>1. Len(a) \in 1 .. Len(a) /\ a[Len(a)].call \in {"request", "render"}
    BY <1>2 DEF Asks, Asking
  <2>2. t[Len(t)] = a[Len(a)] /\ Len(t) \in Nat \ {0}
    BY <1>1, <1>2, <2>1
  <2>3. t # <<>>
    BY <2>2, EmptySeq
  <2> QED
    BY <2>1, <2>2, <2>3 DEF Asking
<1>4. ASSUME NEW i \in 1 .. Len(t)
      PROVE  PlaceIn(i, t, b, m, a)
  <2>1. Joined(t, b, m, a)
    BY JoinedCalls
  <2>2. AtMostOne(b) /\ AtMostOne(m)
    BY <1>2 DEF AtMostOne
  <2> QED
    BY <2>1, <2>2, PlaceInJoined
<1>5. ~IsVisual(EveryFrame)
  BY DEF IsVisual, EveryFrame
<1>6. ASSUME NEW i \in 1 .. Len(t)
      PROVE  /\ t[i].call = "colour" => i = 1 /\ b # <<>> /\ b[1].call = "colour"
             /\ t[i].call \in Resets => Asking(t)
             /\ t[i].call = "request" => t[i].frame = f
             /\ t[i].call = "update" => t[i].lines # {}
             /\ IsVisual(t[i].options) => t[i].options = o /\ i = Len(b) + 1 /\ m # <<>>
  <2>1. CASE i = 1 /\ Len(b) = 1 /\ t[i] = b[1]
    <3>1. /\ b # <<>> /\ b[1].call \in {"colour", "cancel"} /\ b[1].options = EveryFrame
          /\ a = <<>> => b[1].call = "colour"
      BY <2>1, EmptySeq
    <3> QED
      BY <1>3, <1>5, <2>1, <3>1 DEF Resets
  <2>2. CASE i = Len(b) + 1 /\ Len(m) = 1 /\ t[i] = m[1]
    <3>1. Gives(m[1], o) /\ m # <<>>
      BY <1>2, <2>2
    <3> QED
      BY <2>2, <3>1 DEF Gives, Resets
  <2>3. ASSUME a # <<>>, NEW k \in 1 .. Len(a), t[i] = a[k]
        PROVE  /\ t[i].call \in {"cancel", "request", "render"} /\ ~IsVisual(t[i].options)
               /\ t[i].call = "request" => t[i].frame = f
    BY <1>5, <2>3 DEF Asks
  <2>4. CASE a # <<>> /\ \E k \in 1 .. Len(a) : t[i] = a[k]
    BY <1>3, <2>3, <2>4
  <2> QED
    BY <1>4, <2>1, <2>2, <2>4 DEF PlaceIn
<1>7. m # <<>> => Names(m[1].call, t)
  <2> SUFFICES ASSUME m # <<>>
               PROVE  Names(m[1].call, t)
    OBVIOUS
  <2>1. Len(m) = 1 /\ 1 \in 1 .. Len(m)
    BY <1>2
  <2>2. Len(b) + 1 \in 1 .. Len(t) /\ t[Len(b) + 1] = m[1]
    BY <1>1, <2>1
  <2> QED
    BY <2>2 DEF Names
<1> QED
  BY <1>3, <1>6, <1>7 DEF MadeOf, FirstColour, Names

\* What the calls of a handler are: who resets something asks for a frame at the end, and a
\* handler that asks for none leaves the target and what the interaction awaits.
NewCalls ==
    /\ FirstColour(todo')
    /\ Names("colour", todo') => Names("load", todo') \/ ToLoad'
    /\ \A i \in 1 .. Len(todo') :
          /\ todo'[i].call \in Resets => Asking(todo')
          /\ todo'[i].call = "request" => todo'[i].frame = frame_n'
          /\ todo'[i].call = "update" => todo'[i].lines # {}
          /\ IsVisual(todo'[i].options) =>
                /\ VisualRank <= Rank(todo'[i].options) /\ Rank(todo'[i].options) <= VisualRank'
                /\ \A j \in 1 .. Len(todo') : IsVisual(todo'[j].options) => i = j
    /\ VisualRank <= VisualRank' /\ VisualShape'
    /\ \/ Asking(todo')
       \/ UNCHANGED <<frame_n, previews>> /\ (ToLoad => ToLoad' \/ Names("load", todo'))

\* The calls of a handler, from its parts.
LEMMA NewCallsOf ==
  ASSUME NEW b \in Seq(CallRecord), NEW m \in Seq(CallRecord), NEW a \in Seq(CallRecord), NEW o,
         todo' = b \o (m \o a),
         \/ b = <<>>
         \/ /\ Len(b) = 1 /\ b[1].call \in {"colour", "cancel"} /\ b[1].options = EveryFrame
            /\ a = <<>> => b[1].call = "colour",
         m = <<>> \/ (Len(m) = 1 /\ Gives(m[1], o)),
         a = <<>> \/ Asks(a, frame_n'),
         m # <<>> /\ IsVisual(o) => VisualRank <= Rank(o) /\ Rank(o) <= VisualRank',
         VisualRank <= VisualRank', VisualShape',
         b # <<>> /\ b[1].call = "colour" => ToLoad' \/ (m # <<>> /\ m[1].call = "load"),
         \/ a # <<>>
         \/ /\ UNCHANGED <<frame_n, previews>>
            /\ ToLoad => ToLoad' \/ (m # <<>> /\ m[1].call = "load")
  PROVE  NewCalls
<1>1. MadeOf(todo', b, m, a, o, frame_n')
  BY CallsMade
<1>2. Names("colour", todo') => Names("load", todo') \/ ToLoad'
  BY <1>1 DEF MadeOf
<1>3. \A i \in 1 .. Len(todo') : IsVisual(todo'[i].options) =>
         /\ VisualRank <= Rank(todo'[i].options) /\ Rank(todo'[i].options) <= VisualRank'
         /\ \A j \in 1 .. Len(todo') : IsVisual(todo'[j].options) => i = j
  BY <1>1 DEF MadeOf
<1>4. \/ Asking(todo')
      \/ UNCHANGED <<frame_n, previews>> /\ (ToLoad => ToLoad' \/ Names("load", todo'))
  BY <1>1 DEF MadeOf
<1> QED
  BY <1>1, <1>2, <1>3, <1>4 DEF MadeOf, NewCalls

\* The ranks of what an interaction submits.
LEMMA VisualRanks ==
  \A id \in Nat : /\ Intermediate(id) \in Options /\ Rank(Intermediate(id)) = 2 * id
                  /\ Final(id) \in Options /\ Rank(Final(id)) = 2 * id + 1
BY OptionsFacts DEF Rank, Intermediate, Final

\* What is due is submitted, and is awaited no more.
LEMMA FlushCalls ==
  ASSUME Types, VisualShape, NEW due \in BOOLEAN, FlushDue(due),
         NEW m, m = IF due THEN SubmitSubtitleUpdate(visual.pending, Intermediate(visual.id))
                           ELSE <<>>
  PROVE  LET o == Intermediate(visual.id)
         IN  /\ m \in Seq(CallRecord) /\ (m = <<>> \/ (Len(m) = 1 /\ Gives(m[1], o)))
             /\ m # <<>> /\ IsVisual(o) => VisualRank <= Rank(o) /\ Rank(o) <= VisualRank'
             /\ VisualRank <= VisualRank' /\ VisualShape'
             /\ due /\ ToLoad => m # <<>> /\ m[1].call = "load"
<1> DEFINE o == Intermediate(visual.id)
<1>1. /\ visual.active \in BOOLEAN /\ visual.id \in Nat /\ visual.pending \in Update
      /\ visual.final \in Update /\ o \in Options /\ Rank(o) = 2 * visual.id
  BY VisualFacts, VisualRanks DEF Types
<1>2. \/ m = <<>>
      \/ visual.active /\ \E x : m = <<x>> /\ Gives(x, o) /\ (ToLoad => x.call = "load")
  <2>1. CASE due
    <3>1. Changing(visual.pending) /\ (visual.pending.mode # "none" => visual.active)
      BY DEF VisualShape
    <3>2. \/ m = <<>> /\ visual.pending.mode = "none"
          \/ \E x : m = <<x>> /\ Gives(x, o) /\ (visual.pending.mode = "load" => x.call = "load")
      BY <1>1, <2>1, <3>1, SubmittedCall
    <3>3. CASE m = <<>>
      BY <3>3
    <3>4. CASE ~(m = <<>>)
      <4>1. PICK x : m = <<x>> /\ Gives(x, o) /\ (visual.pending.mode = "load" => x.call = "load")
        BY <3>2, <3>4
      <4>2. visual.active
        <5>1. CASE visual.pending.mode = "none"
          BY <2>1, <3>4, <5>1 DEF SubmitSubtitleUpdate
        <5> QED
          BY <3>1, <5>1
      <4> QED
        BY <4>1, <4>2 DEF ToLoad
    <3> QED
      BY <3>3, <3>4
  <2>2. CASE ~due
    BY <2>2
  <2> QED
    BY <2>1, <2>2
<1>3. due /\ ToLoad => m # <<>>
  <2>1. due /\ ToLoad => m = <<LoadSubtitles(o)>>
    BY DEF ToLoad, SubmitSubtitleUpdate
  <2> QED
    BY <2>1
<1>4. /\ m \in Seq(CallRecord) /\ (m = <<>> \/ (Len(m) = 1 /\ Gives(m[1], o)))
      /\ m # <<>> => visual.active /\ (ToLoad => m[1].call = "load")
  <2>1. ASSUME NEW x, m = <<x>>, Gives(x, o)
        PROVE  m \in Seq(CallRecord) /\ Len(m) = 1 /\ m[1] = x
    <3>1. x \in CallRecord
      BY <2>1 DEF Gives
    <3>2. <<x>> \in Seq(CallRecord) /\ Len(<<x>>) = 1 /\ <<x>>[1] = x
      BY <3>1
    <3> QED
      BY <2>1, <3>2
  <2>2. ASSUME m = <<>>
        PROVE  m \in Seq(CallRecord)
    BY <2>2, EmptySeq
  <2> HIDE DEF o
  <2> QED
    BY <1>2, <2>1, <2>2
<1>5. visual' = [active |-> visual.active, id |-> visual.id,
                 pending |-> IF due THEN NoUpdate ELSE visual.pending, final |-> visual.final]
  BY VisualFacts DEF FlushDue, Types, GuiTypes
<1>6. VisualRank' = VisualRank /\ VisualShape' /\ (visual.active => VisualRank = 2 * visual.id)
      /\ VisualRank \in Nat
  BY <1>1, <1>5 DEF VisualRank, VisualShape, ToLoad, Changing, NoUpdate
<1> HIDE DEF o
<1> QED
  BY <1>1, <1>3, <1>4, <1>6 DEF o

\* The parts that ask for a frame, and those that come first.
LEMMA AskingParts ==
  /\ \A f \in Frame, supersede \in BOOLEAN :
        <<Request(f, supersede)>> # <<>> /\ Asks(<<Request(f, supersede)>>, f)
  /\ \A f : LET a == <<Call("cancel"), Call("render")>> IN a # <<>> /\ Asks(a, f)
  /\ \A calling \in {"colour", "cancel"} :
        LET b == <<Call(calling)>>
        IN  /\ b \in Seq(CallRecord) /\ Len(b) = 1 /\ b # <<>>
            /\ b[1].call = calling /\ b[1].options = EveryFrame
<1>1. ASSUME NEW f \in Frame, NEW supersede \in BOOLEAN
      PROVE  <<Request(f, supersede)>> # <<>> /\ Asks(<<Request(f, supersede)>>, f)
  <2> DEFINE x == Request(f, supersede)
  <2>1. /\ x \in CallRecord /\ x.call = "request" /\ x.frame = f /\ x.options = EveryFrame
    BY CallFacts DEF Request, Call
  <2> HIDE DEF x
  <2>2. <<x>> \in Seq(CallRecord) /\ Len(<<x>>) = 1 /\ <<x>>[1] = x /\ <<x>> # <<>>
    BY <2>1
  <2>3. Asking(<<x>>)
    BY <2>1, <2>2 DEF Asking
  <2>4. Asks(<<x>>, f)
    BY <2>1, <2>2, <2>3 DEF Asks
  <2> QED
    BY <2>2, <2>4 DEF x
<1>2. ASSUME NEW calling \in {"colour", "cancel", "render"}
      PROVE  /\ Call(calling) \in CallRecord /\ Call(calling).call = calling
             /\ Call(calling).options = EveryFrame
  BY CallFacts DEF CallName, Call
<1>3. ASSUME NEW f
      PROVE  LET a == <<Call("cancel"), Call("render")>> IN a # <<>> /\ Asks(a, f)
  <2> DEFINE x == Call("cancel")
             y == Call("render")
             a == <<x, y>>
  <2>1. /\ x \in CallRecord /\ x.call = "cancel" /\ x.options = EveryFrame
        /\ y \in CallRecord /\ y.call = "render" /\ y.options = EveryFrame
    BY <1>2
  <2> HIDE DEF x, y
  <2>2. a \in Seq(CallRecord) /\ Len(a) = 2 /\ a[1] = x /\ a[2] = y /\ a # <<>>
    BY <2>1
  <2> HIDE DEF a
  <2>3. Asking(a)
    BY <2>1, <2>2 DEF Asking
  <2>4. Asks(a, f)
    BY <2>1, <2>2, <2>3 DEF Asks
  <2> QED
    BY <2>2, <2>4 DEF a, x, y
<1>4. ASSUME NEW calling \in {"colour", "cancel"}
      PROVE  LET b == <<Call(calling)>>
             IN  /\ b \in Seq(CallRecord) /\ Len(b) = 1 /\ b # <<>>
                 /\ b[1].call = calling /\ b[1].options = EveryFrame
  <2> DEFINE x == Call(calling)
  <2>1. x \in CallRecord /\ x.call = calling /\ x.options = EveryFrame
    BY <1>2
  <2> HIDE DEF x
  <2>2. <<x>> \in Seq(CallRecord) /\ Len(<<x>>) = 1 /\ <<x>>[1] = x /\ <<x>> # <<>>
    BY <2>1
  <2> QED
    BY <2>1, <2>2 DEF x
<1> QED
  BY <1>1, <1>3, <1>4

\* A seek to a frame.
LEMMA JumpCalls ==
  ASSUME Types, VisualShape, NEW f \in Frame, NEW due \in BOOLEAN, JumpToFrame(f, due)
  PROVE  NewCalls
<1> DEFINE m == IF due THEN SubmitSubtitleUpdate(visual.pending, Intermediate(visual.id))
                       ELSE <<>>
           a == <<Request(f, TRUE)>>
           o == Intermediate(visual.id)
<1>1. FlushDue(due) /\ todo' = m \o a /\ frame_n' = f
  BY DEF JumpToFrame, RequestCalls
<1>2. a # <<>> /\ Asks(a, f) /\ a \in Seq(CallRecord)
  BY AskingParts DEF Asks
<1>3. /\ m \in Seq(CallRecord) /\ (m = <<>> \/ (Len(m) = 1 /\ Gives(m[1], o)))
      /\ m # <<>> /\ IsVisual(o) => VisualRank <= Rank(o) /\ Rank(o) <= VisualRank'
      /\ VisualRank <= VisualRank' /\ VisualShape'
  BY <1>1, FlushCalls
<1> HIDE DEF m, a, o
<1>4. <<>> \in Seq(CallRecord) /\ todo' = <<>> \o (m \o a)
  BY <1>1, <1>2, <1>3, ConcatProperties, ConcatEmptySeq
<1> QED
  BY <1>1, <1>2, <1>3, <1>4, NewCallsOf

\* A preview.
LEMMA PreviewCalls ==
  ASSUME Types, VisualShape, NEW f \in Frame, NEW due \in BOOLEAN, PreviewToFrame(f, due)
  PROVE  NewCalls
<1> DEFINE m == IF due THEN SubmitSubtitleUpdate(visual.pending, Intermediate(visual.id))
                       ELSE <<>>
           a == <<Request(f, FALSE)>>
           o == Intermediate(visual.id)
           b == IF accept_late_preview_frames THEN <<>> ELSE <<Call("cancel")>>
<1>1. FlushDue(due) /\ todo' = b \o (m \o a) /\ frame_n' = f
  BY DEF PreviewToFrame, RequestCalls
<1>2. a # <<>> /\ Asks(a, f) /\ a \in Seq(CallRecord)
  BY AskingParts DEF Asks
<1>3. /\ m \in Seq(CallRecord) /\ (m = <<>> \/ (Len(m) = 1 /\ Gives(m[1], o)))
      /\ m # <<>> /\ IsVisual(o) => VisualRank <= Rank(o) /\ Rank(o) <= VisualRank'
      /\ VisualRank <= VisualRank' /\ VisualShape'
  BY <1>1, FlushCalls
<1>4. /\ b \in Seq(CallRecord)
      /\ b = <<>> \/ (Len(b) = 1 /\ b[1].call = "cancel" /\ b[1].options = EveryFrame)
  BY AskingParts, EmptySeq
<1> HIDE DEF m, a, o, b
<1> QED
  BY <1>1, <1>2, <1>3, <1>4, NewCallsOf

\* A frame the GUI thread waits for.
LEMMA ImmediateCalls ==
  ASSUME Types, VisualShape, NEW due \in BOOLEAN, RequestFrameImmediate(due)
  PROVE  NewCalls
<1> DEFINE m == IF due THEN SubmitSubtitleUpdate(visual.pending, Intermediate(visual.id))
                       ELSE <<>>
           a == <<Call("cancel"), Call("render")>>
           o == Intermediate(visual.id)
<1>1. FlushDue(due) /\ todo' = m \o a
  BY DEF RequestFrameImmediate
<1>2. a # <<>> /\ Asks(a, frame_n') /\ a \in Seq(CallRecord)
  BY AskingParts DEF Asks
<1>3. /\ m \in Seq(CallRecord) /\ (m = <<>> \/ (Len(m) = 1 /\ Gives(m[1], o)))
      /\ m # <<>> /\ IsVisual(o) => VisualRank <= Rank(o) /\ Rank(o) <= VisualRank'
      /\ VisualRank <= VisualRank' /\ VisualShape'
  BY <1>1, FlushCalls
<1> HIDE DEF m, a, o
<1>4. <<>> \in Seq(CallRecord) /\ todo' = <<>> \o (m \o a)
  BY <1>1, <1>2, <1>3, ConcatProperties, ConcatEmptySeq
<1> QED
  BY <1>1, <1>2, <1>3, <1>4, NewCallsOf

\* One update alone, or none.
LEMMA UpdateCalls ==
  ASSUME NEW m \in Seq(CallRecord), NEW o, todo' = m,
         m = <<>> \/ (Len(m) = 1 /\ Gives(m[1], o)),
         m # <<>> /\ IsVisual(o) => VisualRank <= Rank(o) /\ Rank(o) <= VisualRank',
         VisualRank <= VisualRank', VisualShape', UNCHANGED <<frame_n, previews>>,
         ToLoad => ToLoad' \/ (m # <<>> /\ m[1].call = "load")
  PROVE  NewCalls
<1>1. <<>> \in Seq(CallRecord) /\ todo' = <<>> \o (m \o <<>>)
  BY ConcatEmptySeq, EmptySeq
<1> QED
  BY <1>1, NewCallsOf

\* The timer of an interaction.
LEMMA TimerCalls ==
  ASSUME Types, VisualShape, OnVisualSubtitleUpdateTimer
  PROVE  NewCalls
<1> DEFINE m == SubmitSubtitleUpdate(visual.pending, Intermediate(visual.id))
           o == Intermediate(visual.id)
<1>1. /\ FlushDue(TRUE) /\ todo' = m /\ UNCHANGED <<frame_n, previews>>
      /\ m = IF TRUE THEN SubmitSubtitleUpdate(visual.pending, Intermediate(visual.id)) ELSE <<>>
  BY DEF OnVisualSubtitleUpdateTimer, FlushDue
<1>2. /\ m \in Seq(CallRecord) /\ (m = <<>> \/ (Len(m) = 1 /\ Gives(m[1], o)))
      /\ m # <<>> /\ IsVisual(o) => VisualRank <= Rank(o) /\ Rank(o) <= VisualRank'
      /\ VisualRank <= VisualRank' /\ VisualShape'
      /\ ToLoad => m # <<>> /\ m[1].call = "load"
  <2> HIDE DEF m
  <2>1. TRUE \in BOOLEAN
    OBVIOUS
  <2> QED
    BY <1>1, <2>1, FlushCalls
<1> HIDE DEF m, o
<1> QED
  BY <1>1, <1>2, UpdateCalls

\* The end of an interaction: the rank of its last update is above the others'.
LEMMA EndCalls ==
  ASSUME Types, VisualShape, EndVisualSubtitleInteraction
  PROVE  NewCalls
<1> DEFINE o == Final(visual.id)
           m == SubmitSubtitleUpdate(visual.final, o)
<1>1. /\ todo' = m /\ visual.active /\ visual' = [NoVisual EXCEPT !.id = visual.id]
      /\ UNCHANGED <<frame_n, previews>>
  BY DEF EndVisualSubtitleInteraction
<1>2. /\ visual.id \in Nat /\ visual.final \in Update
      /\ o \in Options /\ Rank(o) = 2 * visual.id + 1
  BY VisualFacts, VisualRanks DEF Types
<1>3. visual' = [active |-> FALSE, id |-> visual.id, pending |-> NoUpdate, final |-> NoUpdate]
  BY <1>1 DEF NoVisual
<1>4. VisualRank = 2 * visual.id /\ VisualRank' = 2 * visual.id + 1 /\ VisualShape'
  BY <1>1, <1>3 DEF VisualRank, VisualShape, ToLoad, Changing, NoUpdate
<1>5. /\ Changing(visual.final) /\ (ToLoad => visual.final.mode = "load")
  BY DEF VisualShape
<1> HIDE DEF o
<1>6. \/ m = <<>> /\ visual.final.mode = "none"
      \/ \E x : m = <<x>> /\ Gives(x, o) /\ (visual.final.mode = "load" => x.call = "load")
  BY <1>2, <1>5, SubmittedCall
<1> HIDE DEF m
<1>7. /\ m \in Seq(CallRecord) /\ (m = <<>> \/ (Len(m) = 1 /\ Gives(m[1], o)))
      /\ ToLoad => m # <<>> /\ m[1].call = "load"
  <2>1. ASSUME NEW x, m = <<x>>, Gives(x, o)
        PROVE  m \in Seq(CallRecord) /\ Len(m) = 1 /\ m[1] = x /\ m # <<>>
    <3>1. x \in CallRecord
      BY <2>1 DEF Gives
    <3>2. <<x>> \in Seq(CallRecord) /\ Len(<<x>>) = 1 /\ <<x>>[1] = x /\ <<x>> # <<>>
      BY <3>1
    <3> QED
      BY <2>1, <3>2
  <2>2. ASSUME m = <<>>
        PROVE  m \in Seq(CallRecord)
    BY <2>2, EmptySeq
  <2> QED
    BY <1>5, <1>6, <2>1, <2>2
<1>8. VisualRank <= Rank(o) /\ Rank(o) <= VisualRank' /\ VisualRank <= VisualRank'
  BY <1>2, <1>4
<1>9. m # <<>> /\ IsVisual(o) => VisualRank <= Rank(o) /\ Rank(o) <= VisualRank'
  BY <1>8
<1>10. VisualShape'
  BY <1>4
<1> QED
  BY <1>1, <1>7, <1>8, <1>9, <1>10, UpdateCalls

\* The beginning of one.
LEMMA BeginCalls ==
  ASSUME Types, VisualShape, BeginVisualSubtitleInteraction
  PROVE  NewCalls
<1>1. /\ ~visual.active /\ todo' = <<>> /\ UNCHANGED <<frame_n, previews>>
      /\ visual' = [active |-> TRUE, id |-> visual.id + 1, pending |-> NoUpdate,
                    final |-> NoUpdate]
  BY DEF BeginVisualSubtitleInteraction, Handler, NoVisual
<1>2. visual.id \in Nat
  BY VisualFacts DEF Types
<1>3. VisualRank <= VisualRank' /\ VisualShape' /\ ~ToLoad
  BY <1>1, <1>2 DEF VisualRank, VisualShape, ToLoad, Changing, NoUpdate
<1>4. <<>> \in Seq(CallRecord)
  BY EmptySeq
<1> QED
  BY <1>1, <1>3, <1>4, UpdateCalls

\* A commit: what it changes is given at once, or awaited.
LEMMA CommitCalls ==
  ASSUME Types, VisualShape, NEW mode \in {"load", "update"}, NEW ls \in SUBSET Line,
         mode = "update" => ls # {}, NEW due \in BOOLEAN,
         NEW b, b = <<>> \/ (b = <<Call("colour")>> /\ mode = "load"),
         AfterCommit(mode, ls, b, due), due => visual.active, UNCHANGED <<frame_n, previews>>
  PROVE  NewCalls
<1> DEFINE added == AddSubtitleCommit(visual.pending, mode, ls)
           final == AddSubtitleCommit(visual.final, mode, ls)
           u == IF visual.active THEN added ELSE [mode |-> mode, lines |-> ls]
           o == IF visual.active THEN Intermediate(visual.id) ELSE EveryFrame
           gives == ~visual.active \/ due
           m == IF gives THEN SubmitSubtitleUpdate(u, o) ELSE <<>>
<1>1. /\ visual.active \in BOOLEAN /\ visual.id \in Nat
      /\ visual.pending \in Update /\ visual.final \in Update
      /\ Intermediate(visual.id) \in Options /\ Rank(Intermediate(visual.id)) = 2 * visual.id
      /\ EveryFrame \in Options /\ ~IsVisual(EveryFrame)
  BY VisualFacts, VisualRanks, OptionsFacts DEF Types, IsVisual, EveryFrame
<1>2. /\ added \in Update /\ final \in Update /\ u \in Update /\ o \in Options
  BY <1>1, AddFacts DEF Update
<1>3. Changing(added) /\ Changing(final) /\ Changing(u)
  BY <1>1, <1>2 DEF VisualShape, Changing, AddSubtitleCommit, Update
<1>4. /\ ToLoad \/ mode = "load" => added.mode = "load" /\ u.mode = "load"
      /\ added.mode = "load" => final.mode = "load"
      /\ u.mode # "none"
  BY DEF VisualShape, ToLoad, AddSubtitleCommit
<1>5. /\ todo' = b \o m
      /\ visual' = IF visual.active
                   THEN [active |-> visual.active, id |-> visual.id,
                         pending |-> IF due THEN NoUpdate ELSE added, final |-> final]
                   ELSE visual
  BY DEF AfterCommit, Types, GuiTypes
<1> HIDE DEF added, final, u, o, m
<1>6. /\ VisualRank' = VisualRank /\ VisualRank \in Nat
      /\ visual.active => VisualRank = 2 * visual.id
  BY <1>1, <1>5 DEF VisualRank
<1>7. VisualShape' /\ (~gives /\ added.mode = "load" => ToLoad')
  BY <1>3, <1>4, <1>5 DEF VisualShape, ToLoad, Changing, NoUpdate
<1>8. ASSUME gives
      PROVE  /\ m \in Seq(CallRecord) /\ Len(m) = 1 /\ Gives(m[1], o) /\ m # <<>>
             /\ u.mode = "load" => m[1].call = "load"
  <2>1. PICK x : m = <<x>> /\ Gives(x, o) /\ (u.mode = "load" => x.call = "load")
    BY <1>2, <1>3, <1>4, <1>8, SubmittedCall DEF m
  <2>2. x \in CallRecord
    BY <2>1 DEF Gives
  <2>3. <<x>> \in Seq(CallRecord) /\ Len(<<x>>) = 1 /\ <<x>>[1] = x /\ <<x>> # <<>>
    BY <2>2
  <2> QED
    BY <2>1, <2>3
<1>9. ASSUME ~gives
      PROVE  m = <<>> /\ m \in Seq(CallRecord) /\ visual.active
  BY <1>9, EmptySeq DEF m
<1>10. /\ b \in Seq(CallRecord)
       /\ b = <<>> \/ (Len(b) = 1 /\ b[1].call = "colour" /\ b[1].options = EveryFrame)
  BY AskingParts, EmptySeq
<1>11. <<>> \in Seq(CallRecord) /\ todo' = b \o (m \o <<>>)
  BY <1>5, <1>8, <1>9, ConcatEmptySeq, EmptySeq
<1>12. IsVisual(o) => o = Intermediate(visual.id) /\ visual.active
  BY <1>1 DEF o
<1>13. /\ m # <<>> /\ IsVisual(o) => VisualRank <= Rank(o) /\ Rank(o) <= VisualRank'
       /\ VisualRank <= VisualRank'
  BY <1>1, <1>6, <1>12
<1>14. ToLoad \/ mode = "load" => ToLoad' \/ (m # <<>> /\ m[1].call = "load")
  BY <1>4, <1>7, <1>8
<1>15. b # <<>> => mode = "load"
  OBVIOUS
<1>16. m \in Seq(CallRecord) /\ (m = <<>> \/ (Len(m) = 1 /\ Gives(m[1], o)))
  BY <1>8, <1>9
<1> QED
  BY <1>7, <1>10, <1>11, <1>13, <1>14, <1>15, <1>16, NewCallsOf

\* A commit of a line's text, and one of the colour matrix.
LEMMA EditCalls ==
  ASSUME Types, VisualShape, NEW l \in Line, NEW text \in Text, NEW mode \in {"load", "update"},
         NEW due \in BOOLEAN, due => visual.active, OnSubtitlesCommit(l, text, mode, due)
  PROVE  NewCalls
<1> DEFINE ls == IF mode = "update" THEN {l} ELSE {}
<1>1. /\ ls \in SUBSET Line /\ (mode = "update" => ls # {})
      /\ AfterCommit(mode, ls, <<>>, due) /\ UNCHANGED <<frame_n, previews>>
  BY DEF OnSubtitlesCommit
<1> HIDE DEF ls
<1> QED
  BY <1>1, CommitCalls
LEMMA ColourCalls ==
  ASSUME Types, VisualShape, NEW c \in Colour, NEW due \in BOOLEAN, due => visual.active,
         OnColourCommit(c, due)
  PROVE  NewCalls
<1>1. /\ {} \in SUBSET Line /\ "load" \in {"load", "update"}
      /\ AfterCommit("load", {}, <<Call("colour")>>, due) /\ UNCHANGED <<frame_n, previews>>
  BY DEF OnColourCommit
<1> QED
  BY <1>1, CommitCalls

\* Calls that ask for every frame anew.
LEMMA ResettingCalls ==
  ASSUME todo' # <<>>, todo'[Len(todo')].call = "request", Len(todo') \in Nat,
         \A i \in 1 .. Len(todo') :
            /\ todo'[i].call \notin {"colour", "update"} /\ todo'[i].options = EveryFrame
            /\ todo'[i].call = "request" => todo'[i].frame = frame_n',
         Types, VisualShape, visual' = visual
  PROVE  NewCalls
<1>1. Asking(todo') /\ ~Names("colour", todo') /\ FirstColour(todo')
  BY DEF Asking, Names, FirstColour
<1>2. ~IsVisual(EveryFrame)
  BY DEF IsVisual, EveryFrame
<1>3. VisualRank' = VisualRank /\ VisualRank \in Nat /\ VisualShape'
  BY VisualFacts DEF Types, VisualRank, VisualShape, ToLoad
<1> QED
  BY <1>1, <1>2, <1>3 DEF NewCalls

LEMMA TimecodesCalls ==
  ASSUME Types, VisualShape, NEW tc \in Timecodes, LoadTimecodes(tc)
  PROVE  NewCalls
<1> DEFINE x == Call("timecodes")
           r == Request(frame_n, TRUE)
<1>0. x.options = EveryFrame /\ r.options = EveryFrame
  BY DEF Call, Request
<1>1. /\ x \in CallRecord /\ x.call = "timecodes"
      /\ r \in CallRecord /\ r.call = "request" /\ r.frame = frame_n
  BY OtherCalls DEF Types, GuiTypes
<1>2. todo' = <<x, r>> /\ frame_n' = frame_n /\ visual' = visual
  BY DEF LoadTimecodes
<1> HIDE DEF x, r
<1>3. todo' \in Seq(CallRecord) /\ Len(todo') = 2 /\ todo'[1] = x /\ todo'[2] = r /\ todo' # <<>>
  BY <1>1, <1>2
<1>4. \A i \in 1 .. Len(todo') :
         /\ todo'[i].call \notin {"colour", "update"} /\ todo'[i].options = EveryFrame
         /\ todo'[i].call = "request" => todo'[i].frame = frame_n'
  BY <1>0, <1>1, <1>2, <1>3
<1>5. todo'[Len(todo')].call = "request" /\ Len(todo') \in Nat
  BY <1>1, <1>3
<1> QED
  BY <1>2, <1>3, <1>4, <1>5, ResettingCalls

LEMMA ReplaceCalls ==
  ASSUME Types, VisualShape, ReloadSubtitlesProvider
  PROVE  NewCalls
<1> DEFINE a == Call("replace")
           b == Call("timecodes")
           c == LoadSubtitles(EveryFrame)
           d == Request(frame_n, TRUE)
<1>1. /\ a \in CallRecord /\ b \in CallRecord /\ c \in CallRecord /\ d \in CallRecord
      /\ a.call = "replace" /\ b.call = "timecodes" /\ c.call = "load" /\ d.call = "request"
      /\ d.frame = frame_n
  BY OtherCalls DEF Types, GuiTypes
<1>0. /\ a.options = EveryFrame /\ b.options = EveryFrame
      /\ c.options = EveryFrame /\ d.options = EveryFrame
  BY DEF Call, LoadSubtitles, Request
<1>2. todo' = <<a, b, c, d>> /\ frame_n' = frame_n /\ visual' = visual
  BY DEF ReloadSubtitlesProvider
<1> HIDE DEF a, b, c, d
<1>3. /\ todo' \in Seq(CallRecord) /\ Len(todo') = 4 /\ todo' # <<>>
      /\ todo'[1] = a /\ todo'[2] = b /\ todo'[3] = c /\ todo'[4] = d
  BY <1>1, <1>2
<1>4. \A i \in 1 .. Len(todo') :
         /\ todo'[i].call \notin {"colour", "update"} /\ todo'[i].options = EveryFrame
         /\ todo'[i].call = "request" => todo'[i].frame = frame_n'
  BY <1>0, <1>1, <1>2, <1>3
<1>5. todo'[Len(todo')].call = "request" /\ Len(todo') \in Nat
  BY <1>1, <1>3
<1> QED
  BY <1>2, <1>3, <1>4, <1>5, ResettingCalls

LEMMA ReloadCalls ==
  ASSUME Types, VisualShape, ReloadVideo
  PROVE  NewCalls
<1> DEFINE a == Call("close")
           b == Call("open")
           c == LoadSubtitles(EveryFrame)
           d == Call("timecodes")
           e == Request(frame_n, TRUE)
<1>1. /\ a \in CallRecord /\ b \in CallRecord /\ c \in CallRecord /\ d \in CallRecord
      /\ e \in CallRecord
      /\ a.call = "close" /\ b.call = "open" /\ c.call = "load" /\ d.call = "timecodes"
      /\ e.call = "request" /\ e.frame = frame_n
  BY OtherCalls DEF Types, GuiTypes
<1>0. /\ a.options = EveryFrame /\ b.options = EveryFrame /\ c.options = EveryFrame
      /\ d.options = EveryFrame /\ e.options = EveryFrame
  BY DEF Call, LoadSubtitles, Request
<1>2. todo' = <<a, b, c, d, e>> /\ frame_n' = frame_n /\ visual' = visual
  BY DEF ReloadVideo
<1> HIDE DEF a, b, c, d, e
<1>3. /\ todo' \in Seq(CallRecord) /\ Len(todo') = 5 /\ todo' # <<>>
      /\ todo'[1] = a /\ todo'[2] = b /\ todo'[3] = c /\ todo'[4] = d /\ todo'[5] = e
  BY <1>1, <1>2
<1>4. \A i \in 1 .. Len(todo') :
         /\ todo'[i].call \notin {"colour", "update"} /\ todo'[i].options = EveryFrame
         /\ todo'[i].call = "request" => todo'[i].frame = frame_n'
  BY <1>0, <1>1, <1>2, <1>3
<1>5. todo'[Len(todo')].call = "request" /\ Len(todo') \in Nat
  BY <1>1, <1>3
<1> QED
  BY <1>2, <1>3, <1>4, <1>5, ResettingCalls

\* Every handler asks so, but for a seek to a recent packet and the prefetch.
HandlerAsks == HandlerStep /\ NewCalls
LEMMA UserAsks ==
  ASSUME Types, FinalCoversPending, VisualShape,
         UserCall \/ OnVisualSubtitleUpdateTimer \/ EndVisualSubtitleInteraction
  PROVE  \/ HandlerAsks
         \/ \E p \in recent_render_packets : JumpToRecentFrame(p)
         \/ PrefetchFrames \/ CancelFramePrefetch
<1>1. CASE OnVisualSubtitleUpdateTimer \/ EndVisualSubtitleInteraction
  BY <1>1, TimerHandled, EndHandled, TimerCalls, EndCalls DEF HandlerAsks
<1>2. CASE UserCall
  <2>1. ASSUME NEW due \in BOOLEAN, due => visual.active, NEW l \in Line, NEW text \in Text,
               NEW mode \in {"load", "update"}, OnSubtitlesCommit(l, text, mode, due)
        PROVE  HandlerAsks
    BY <2>1, EditHandled, EditCalls DEF HandlerAsks
  <2>2. ASSUME NEW due \in BOOLEAN, due => visual.active, NEW c \in Colour,
               OnColourCommit(c, due)
        PROVE  HandlerAsks
    BY <2>2, ColourHandled, ColourCalls DEF HandlerAsks
  <2>3. ASSUME NEW due \in BOOLEAN, NEW f \in Frame, JumpToFrame(f, due) \/ PreviewToFrame(f, due)
        PROVE  HandlerAsks
    BY <2>3, JumpHandled, PreviewHandled, JumpCalls, PreviewCalls DEF HandlerAsks
  <2>4. ASSUME NEW due \in BOOLEAN, RequestFrameImmediate(due)
        PROVE  HandlerAsks
    BY <2>4, ImmediateHandled, ImmediateCalls DEF HandlerAsks
  <2>5. ASSUME NEW tc \in Timecodes, LoadTimecodes(tc)
        PROVE  HandlerAsks
    BY <2>5, TimecodesHandled, TimecodesCalls DEF HandlerAsks
  <2>6. BeginVisualSubtitleInteraction \/ ReloadSubtitlesProvider \/ ReloadVideo => HandlerAsks
    BY BeginHandled, ReplaceHandled, ReloadHandled, BeginCalls, ReplaceCalls, ReloadCalls
       DEF HandlerAsks
  <2> QED
    BY <1>2, <2>1, <2>2, <2>3, <2>4, <2>5, <2>6 DEF UserCall
<1> QED
  BY <1>1, <1>2

\* The steps, with what the handlers ask for.
LEMMA AskingSteps ==
  ASSUME Types, FinalCoversPending, VisualShape, [Next]_vars
  PROVE  \/ CallStep \/ CallOpen \/ HandlerAsks
         \/ \E p \in recent_render_packets : JumpToRecentFrame(p)
         \/ PrefetchFrames \/ CancelFramePrefetch
         \/ Receive \/ WorkStep \/ FinishStep
         \/ UNCHANGED vars
BY UserAsks DEF Next, ProviderCall, Work, CallStep, WorkStep, FinishStep, Rest
-----------------------------------------------------------------------------
(***************************************************************************)
(* The calls that are left                                                 *)
(***************************************************************************)
\* After a call those behind it are left, and perhaps one that schedules or waits.
Quiet(x) == x.call \in {"schedule", "wait"} /\ x.options = EveryFrame
Leaves(d) ==
    /\ Len(todo') = Len(todo) - d
    /\ \A i \in 1 .. Len(todo') :
          \/ d = 0 /\ i = 1 /\ Quiet(todo'[i])
          \/ i + d \in 2 .. Len(todo) /\ todo'[i] = todo[i + d]
LEMMA ReturnLeaves ==
  ASSUME TodoTypes, todo # <<>>, Return
  PROVE  Leaves(1)
<1>1. Len(todo) \in Nat \ {0}
  BY HeadFacts
<1>2. /\ Len(todo') = Len(todo) - 1
      /\ \A i \in 1 .. Len(todo') : i + 1 \in 1 .. Len(todo) /\ todo'[i] = todo[i + 1]
  BY ReturnFacts
<1> QED
  BY <1>1, <1>2 DEF Leaves
LEMMA ReplaceLeaves ==
  ASSUME TodoTypes, todo # <<>>, NEW x \in CallRecord, Quiet(x), todo' = <<x>> \o Tail(todo)
  PROVE  Leaves(0)
<1>1. Len(todo) \in Nat \ {0}
  BY HeadFacts
<1>2. /\ Len(todo') = Len(todo) /\ todo'[1] = x
      /\ \A i \in 2 .. Len(todo) : todo'[i] = todo[i]
  BY ReplaceFacts
<1>3. \A i \in 1 .. Len(todo') : i = 1 \/ (i + 0 \in 2 .. Len(todo) /\ i + 0 = i)
  BY <1>1, <1>2
<1> QED
  BY <1>1, <1>2, <1>3 DEF Leaves
LEMMA NextCalls ==
  ASSUME Types, SyncIsAwaited, CallStep \/ CallOpen \/ FinishStep
  PROVE  /\ todo # <<>> /\ Len(todo) \in Nat \ {0} /\ Head(todo) = todo[1]
         /\ \E d \in {0, 1} : Leaves(d)
<1>0. TodoTypes
  BY DEF Types
<1>1. Schedule \in CallRecord /\ Quiet(Schedule)
  BY CallFacts DEF Quiet, Schedule, Call
<1>2. Call("wait") \in CallRecord /\ Quiet(Call("wait"))
  BY CallFacts DEF Quiet, Call, CallName
<1>3. todo # <<>>
  BY CallLeaves
<1>4. Return \/ ReturnScheduling \/ todo' = <<Call("wait")>> \o Tail(todo)
  <2>1. CASE CallStep
    BY <2>1 DEF CallStep, CallLoad, CallUpdate, CallRequest, CallCancel, CallSetColorSpace,
                CallSchedule, CallSync
  <2>2. CASE CallOpen
    BY <2>2 DEF CallOpen
  <2>3. CASE FinishStep
    BY <2>3, FinishEffects
  <2> QED
    BY <2>1, <2>2, <2>3
<1>5. ReturnScheduling => Leaves(0)
  BY <1>0, <1>1, <1>3, ReplaceLeaves DEF ReturnScheduling
<1>6. todo' = <<Call("wait")>> \o Tail(todo) => Leaves(0)
  BY <1>0, <1>2, <1>3, ReplaceLeaves
<1>7. Return => Leaves(1)
  BY <1>0, <1>3, ReturnLeaves
<1> QED
  BY <1>0, <1>3, <1>4, <1>5, <1>6, <1>7, HeadFacts

\* Who asks for a frame at the end goes on to, unless the last call was that.
LEMMA AskingStays ==
  ASSUME Len(todo) \in Nat \ {0}, NEW d \in {0, 1}, Leaves(d), Asking(todo)
  PROVE  Asking(todo') \/ (Len(todo) = 1 /\ todo[1].call \in {"request", "render"})
<1>1. todo[Len(todo)].call \in {"request", "render"}
  BY DEF Asking
<1>2. CASE Len(todo) = 1
  BY <1>1, <1>2
<1>3. CASE Len(todo) # 1
  <2>1. Len(todo') \in 1 .. Len(todo') /\ Len(todo') + d = Len(todo)
        /\ ~(d = 0 /\ Len(todo') = 1)
    BY <1>3 DEF Leaves
  <2>2. todo'[Len(todo')] = todo[Len(todo)]
    BY <2>1 DEF Leaves
  <2>3. todo' # <<>>
    BY <2>1, EmptySeq
  <2> QED
    BY <1>1, <2>2, <2>3 DEF Asking
<1> QED
  BY <1>2, <1>3

\* What the steps do to the calls.
TodoKept ==
    /\ todo' = todo /\ (frame_n' # frame_n => todo = <<>>)
    /\ PrefetchFrames \/ CancelFramePrefetch \/ Receive \/ WorkStep \/ UNCHANGED vars
LEMMA TodoSteps ==
  ASSUME Inv, VisualShape, [Next]_vars
  PROVE  \/ /\ CallStep \/ CallOpen \/ FinishStep
            /\ todo # <<>> /\ Len(todo) \in Nat \ {0} /\ Head(todo) = todo[1]
            /\ \E d \in {0, 1} : Leaves(d)
         \/ todo = <<>> /\ HandlerAsks
         \/ /\ todo = <<>> /\ \E p \in recent_render_packets : JumpToRecentFrame(p)
            /\ Len(todo') = 1 /\ todo'[1] = Schedule
         \/ TodoKept
<1>0. Types /\ SyncIsAwaited /\ WorkerShape /\ FinalCoversPending
  BY DEF Inv, Jobs, Given
<1>1. CASE CallStep \/ CallOpen \/ FinishStep
  BY <1>0, <1>1, NextCalls
<1>2. CASE HandlerAsks
  BY <1>2 DEF HandlerAsks, HandlerStep
<1>3. CASE \E p \in recent_render_packets : JumpToRecentFrame(p)
  <2>1. todo = <<>> /\ todo' = <<Schedule>>
    BY <1>3 DEF JumpToRecentFrame, Handler
  <2> QED
    BY <1>3, <2>1
<1>4. CASE PrefetchFrames \/ CancelFramePrefetch
  BY <1>4 DEF TodoKept, PrefetchFrames, CancelFramePrefetch
<1>5. CASE Receive
  BY <1>5 DEF TodoKept, Receive
<1>6. CASE WorkStep
  <2>1. todo' = todo
    BY <1>0, <1>6, WorkJobs
  <2>2. frame_n' = frame_n
    BY <1>6 DEF WorkStep, StartJob, TakeNothing, Take, SkipStale, Render, Deliver, DeliverError,
                PrefetchOne, PrefetchRepost, PrefetchFails, gui
  <2> QED
    BY <1>6, <2>1, <2>2 DEF TodoKept
<1>7. CASE UNCHANGED vars
  BY <1>7 DEF TodoKept, vars, gui
<1> QED
  BY <1>0, <1>1, <1>2, <1>3, <1>4, <1>5, <1>6, <1>7, AskingSteps

\* What an interaction awaits changes only where a handler says so.
LEMMA VisualStill ==
  ASSUME \/ CallStep \/ FinishStep \/ TodoKept
         \/ \E p \in recent_render_packets : JumpToRecentFrame(p)
  PROVE  visual' = visual
<1>1. CASE CallStep
  BY <1>1, CallEffects DEF gui
<1>2. CASE FinishStep
  BY <1>2 DEF FinishStep, FinishRender, FinishTimecodes, FinishReplace, FinishClose, gui
<1>3. CASE \E p \in recent_render_packets : JumpToRecentFrame(p)
  BY <1>3 DEF JumpToRecentFrame
<1>4. CASE PrefetchFrames \/ CancelFramePrefetch \/ Receive \/ UNCHANGED vars
  BY <1>4 DEF PrefetchFrames, CancelFramePrefetch, Receive, vars, gui
<1>5. CASE WorkStep
  BY <1>5 DEF WorkStep, StartJob, TakeNothing, Take, SkipStale, Render, Deliver, DeliverError,
              PrefetchOne, PrefetchRepost, PrefetchFails, gui
<1> QED
  BY <1>1, <1>2, <1>3, <1>4, <1>5 DEF TodoKept

\* The target changes only where a handler, a seek or a packet says so.
LEMMA TargetStill ==
  ASSUME CallStep \/ FinishStep \/ WorkStep \/ PrefetchFrames \/ CancelFramePrefetch
         \/ UNCHANGED vars
  PROVE  UNCHANGED <<frame_n, previews>>
<1>1. CASE CallStep
  BY <1>1, CallEffects DEF gui
<1>2. CASE FinishStep
  BY <1>2 DEF FinishStep, FinishRender, FinishTimecodes, FinishReplace, FinishClose, gui
<1>3. CASE PrefetchFrames \/ CancelFramePrefetch \/ UNCHANGED vars
  BY <1>3 DEF PrefetchFrames, CancelFramePrefetch, vars, gui
<1>4. CASE WorkStep
  BY <1>4 DEF WorkStep, StartJob, TakeNothing, Take, SkipStale, Render, Deliver, DeliverError,
              PrefetchOne, PrefetchRepost, PrefetchFails, gui
<1> QED
  BY <1>1, <1>2, <1>3, <1>4
-----------------------------------------------------------------------------
(***************************************************************************)
(* The calls still to make, over every step                                *)
(***************************************************************************)
\* Who resets something asks for a frame at the end.
LEMMA CallsAskKept ==
  ASSUME Inv, VisualShape, CallsAsk, [Next]_vars
  PROVE  CallsAsk'
<1>0. Types /\ SyncIsAwaited /\ WorkerShape /\ FinalCoversPending
  BY DEF Inv, Jobs, Given
<1>1. ASSUME NEW i \in 1 .. Len(todo'), todo'[i].call \in Resets
      PROVE  Asking(todo')
  <2>1. ASSUME Len(todo) \in Nat \ {0}, NEW d \in {0, 1}, Leaves(d)
        PROVE  Asking(todo')
    <3>1. i + d \in 2 .. Len(todo) /\ todo'[i] = todo[i + d]
      BY <1>1, <2>1 DEF Leaves, Quiet, Resets
    <3>2. Asking(todo) /\ Len(todo) # 1
      <4>1. i + d \in 1 .. Len(todo) /\ Len(todo) # 1
        BY <2>1, <3>1
      <4> QED
        BY <1>1, <3>1, <4>1 DEF CallsAsk
    <3> QED
      BY <2>1, <3>2, AskingStays
  <2>2. CASE HandlerAsks
    BY <1>1, <2>2 DEF HandlerAsks, NewCalls
  <2>3. ~(Len(todo') = 1 /\ todo'[1] = Schedule)
    BY <1>1 DEF Schedule, Call, Resets
  <2>4. CASE todo' = todo
    BY <1>1, <2>4 DEF CallsAsk
  <2> QED
    BY <2>1, <2>2, <2>3, <2>4, TodoSteps DEF TodoKept
<1>2. ASSUME NEW job \in {"timecodes", "replace", "close"}, Outstanding(job)'
      PROVE  Asking(todo')
  <2>0. job \in SyncJobs /\ job \in Resets /\ job \notin {"request", "render"}
    BY DEF SyncJobs, Resets
  <2>1. CASE CallSync /\ Head(todo).call = job
    <3>1. /\ Len(todo) \in Nat \ {0} /\ Head(todo) = todo[1]
          /\ \E d \in {0, 1} : Leaves(d)
      BY <1>0, <2>1, NextCalls DEF CallStep
    <3>2. Asking(todo)
      BY <2>0, <2>1, <3>1 DEF CallsAsk
    <3> QED
      BY <2>0, <2>1, <3>1, <3>2, AskingStays
  <2>2. CASE Outstanding(job) /\ (Aside \/ PrefetchFrames \/ WorkStep \/ UNCHANGED vars)
    <3>1. Asking(todo)
      BY <2>2 DEF CallsAsk
    <3>2. todo # <<>>
      BY <3>1 DEF Asking
    <3>3. todo' = todo
      BY <1>0, <2>2, <3>2, AsideEffects, WorkJobs DEF PrefetchFrames, vars
    <3> QED
      BY <3>1, <3>3
  <2> QED
    BY <1>0, <1>2, <2>0, <2>1, <2>2, OutstandingFacts
<1> QED
  BY <1>1, <1>2 DEF CallsAsk

\* A request is for the target, and colours are followed by a load.
LEMMA CallsFitKept ==
  ASSUME Inv, VisualShape, CallsFit, [Next]_vars
  PROVE  CallsFit'
<1>0. Types /\ SyncIsAwaited
  BY DEF Inv, Jobs
<1>1. ASSUME CallStep \/ CallOpen \/ FinishStep, Len(todo) \in Nat \ {0}, NEW d \in {0, 1},
             Leaves(d)
      PROVE  CallsFit'
  <2>1. frame_n' = frame_n
    BY <1>1, TargetStill DEF CallOpen
  <2>2. ASSUME NEW i \in 1 .. Len(todo')
        PROVE  /\ todo'[i].call # "colour"
               /\ todo'[i].call = "request" => todo'[i].frame = frame_n
               /\ todo'[i].call = "update" => todo'[i].lines # {}
    <3>1. CASE Quiet(todo'[i])
      BY <3>1 DEF Quiet
    <3>2. CASE i + d \in 2 .. Len(todo) /\ todo'[i] = todo[i + d]
      <4>1. i + d \in 1 .. Len(todo) /\ i + d # 1
        BY <1>1, <3>2
      <4> QED
        BY <3>2, <4>1 DEF CallsFit, FirstColour
    <3> QED
      BY <1>1, <3>1, <3>2 DEF Leaves
  <2> QED
    BY <2>1, <2>2 DEF CallsFit, FirstColour, Names
<1>2. CASE HandlerAsks
  BY <1>2 DEF HandlerAsks, NewCalls, CallsFit
<1>3. CASE Len(todo') = 1 /\ todo'[1] = Schedule
  BY <1>3 DEF CallsFit, FirstColour, Names, Schedule, Call
<1>4. CASE TodoKept
  <2>1. ToLoad' = ToLoad
    BY <1>4, VisualStill DEF ToLoad
  <2>2. todo' = todo /\ (frame_n' # frame_n => todo = <<>>)
    BY <1>4 DEF TodoKept
  <2>3. todo = <<>> => CallsFit'
    BY <2>2 DEF CallsFit, FirstColour, Names
  <2>4. frame_n' = frame_n => CallsFit'
    BY <2>1, <2>2 DEF CallsFit, Names
  <2> QED
    BY <2>2, <2>3, <2>4
<1> QED
  BY <1>1, <1>2, <1>3, <1>4, TodoSteps

\* What an interaction awaits.
LEMMA VisualShapeKept ==
  ASSUME Inv, VisualShape, [Next]_vars
  PROVE  VisualShape'
<1>1. visual' = visual => VisualShape'
  BY DEF VisualShape, ToLoad
<1>2. CASE CallOpen
  <2>1. visual' = [active |-> FALSE, id |-> visual.id, pending |-> NoUpdate, final |-> NoUpdate]
    BY <1>2 DEF CallOpen, NoVisual
  <2> QED
    BY <2>1 DEF VisualShape, ToLoad, Changing, NoUpdate
<1>3. CASE HandlerAsks
  BY <1>3 DEF HandlerAsks, NewCalls
<1> QED
  BY <1>1, <1>2, <1>3, VisualStill, TodoSteps
-----------------------------------------------------------------------------
(***************************************************************************)
(* The turns, over every step                                              *)
(***************************************************************************)
LEMMA RankFacts ==
  /\ \A o \in Options : Rank(o) \in Nat
  /\ \A p \in Packets : Rank(p) \in Nat
  /\ ~IsVisual(EveryFrame) /\ ~IsVisual(NoPacket)
<1>1. \A o \in Options : Rank(o) \in Nat
  BY DEF Options, Rank
<1>2. \A p \in Packets : Rank(p) \in Nat
  BY DEF Packets, Rank
<1> QED
  BY <1>1, <1>2 DEF IsVisual, EveryFrame, NoPacket
LEMMA TurnTypes ==
  ASSUME Types
  PROVE  /\ VisualRank \in Nat /\ SinkRank \in Nat
         /\ Rank(pending.options) \in Nat /\ Rank(worker.packet) \in Nat
         /\ \A i \in 1 .. Len(todo) : Rank(todo[i].options) \in Nat
<1>1. VisualRank \in Nat
  BY DEF Types, GuiTypes, VisualRank
<1>2. SinkRank \in Nat
  BY DEF Types, GuiTypes, SinkRank
<1>3. pending.options \in Options /\ worker.packet \in Packets
  BY DEF Types, ProviderTypes, PendingType, WorkerTypes, WorkerType
<1>4. \A i \in 1 .. Len(todo) : todo[i].options \in Options
  <2>1. \A i \in 1 .. Len(todo) : todo[i] \in CallRecord
    BY ElementOfSeq DEF Types, TodoTypes
  <2> QED
    BY <2>1 DEF CallRecord
<1> QED
  BY <1>1, <1>2, <1>3, <1>4, RankFacts
LEMMA NextTurnTypes ==
  ASSUME Types'
  PROVE  /\ VisualRank' \in Nat
         /\ Rank(pending'.options) \in Nat /\ Rank(worker'.packet) \in Nat
         /\ \A i \in 1 .. Len(todo') : Rank(todo'[i].options) \in Nat
<1>1. VisualRank' \in Nat
  BY DEF Types, GuiTypes, VisualRank
<1>3. pending'.options \in Options /\ worker'.packet \in Packets
  BY DEF Types, ProviderTypes, PendingType, WorkerTypes, WorkerType
<1>4. \A i \in 1 .. Len(todo') : todo'[i].options \in Options
  <2>1. \A i \in 1 .. Len(todo') : todo'[i] \in CallRecord
    BY ElementOfSeq DEF Types, TodoTypes
  <2> QED
    BY <2>1 DEF CallRecord
<1> QED
  BY <1>1, <1>3, <1>4, RankFacts

\* Visual calls take their turns: those made now have a turn after those before.
Later ==
    /\ VisualRank <= VisualRank'
    /\ \A i \in 1 .. Len(todo') : IsVisual(todo'[i].options) =>
          \/ VisualRank <= Rank(todo'[i].options)
          \/ \E j \in 1 .. Len(todo) : todo'[i].options = todo[j].options
LEMMA CallsTakeTurns ==
  ASSUME Inv, Inv', VisualShape, OneVisualCall, [Next]_vars
  PROVE  Later /\ OneVisualCall'
<1>0. Types /\ Types'
  BY DEF Inv
<1>a. /\ VisualRank \in Nat /\ VisualRank' \in Nat
      /\ \A i \in 1 .. Len(todo) : Rank(todo[i].options) \in Nat
  BY <1>0, TurnTypes, NextTurnTypes
<1>1. ASSUME CallStep \/ CallOpen \/ FinishStep, Len(todo) \in Nat \ {0}, NEW d \in {0, 1},
             Leaves(d)
      PROVE  Later /\ OneVisualCall'
  <2>1. VisualRank <= VisualRank'
    <3>1. CASE CallOpen
      <4>1. visual' = [active |-> FALSE, id |-> visual.id, pending |-> NoUpdate,
                       final |-> NoUpdate]
        BY <3>1 DEF CallOpen, NoVisual
      <4>2. visual.id \in Nat
        BY <1>0, VisualFacts DEF Types
      <4> QED
        BY <4>1, <4>2 DEF VisualRank
    <3>2. CASE CallStep \/ FinishStep
      BY <1>a, <3>2, VisualStill DEF VisualRank
    <3> QED
      BY <1>1, <3>1, <3>2
  <2>2. ASSUME NEW i \in 1 .. Len(todo'), IsVisual(todo'[i].options)
        PROVE  i + d \in 1 .. Len(todo) /\ todo'[i] = todo[i + d]
    BY <1>1, <2>2, RankFacts DEF Leaves, Quiet
  <2>3. Later
    BY <2>1, <2>2 DEF Later
  <2>4. ASSUME NEW i \in 1 .. Len(todo'), IsVisual(todo'[i].options)
        PROVE  Rank(todo'[i].options) <= VisualRank'
    <3>1. Rank(todo[i + d].options) <= VisualRank /\ todo'[i] = todo[i + d]
          /\ i + d \in 1 .. Len(todo)
      BY <2>2, <2>4 DEF OneVisualCall
    <3> QED
      BY <1>a, <2>1, <3>1
  <2>5. ASSUME NEW i \in 1 .. Len(todo'), IsVisual(todo'[i].options),
               NEW j \in 1 .. Len(todo'), IsVisual(todo'[j].options)
        PROVE  i = j
    <3>1. i + d = j + d
      BY <2>2, <2>5 DEF OneVisualCall
    <3> QED
      BY <3>1
  <2> QED
    BY <2>3, <2>4, <2>5 DEF OneVisualCall
<1>2. CASE HandlerAsks
  BY <1>2 DEF HandlerAsks, NewCalls, Later, OneVisualCall
<1>3. CASE /\ Len(todo') = 1 /\ todo'[1] = Schedule
           /\ \E p \in recent_render_packets : JumpToRecentFrame(p)
  <2>1. VisualRank' = VisualRank
    BY <1>3, VisualStill DEF VisualRank
  <2>2. \A i \in 1 .. Len(todo') : ~IsVisual(todo'[i].options)
    BY <1>3, RankFacts DEF Schedule, Call
  <2> QED
    BY <1>a, <2>1, <2>2 DEF Later, OneVisualCall
<1>4. CASE TodoKept
  <2>1. VisualRank' = VisualRank /\ todo' = todo
    BY <1>4, VisualStill DEF VisualRank, TodoKept
  <2> QED
    BY <1>a, <2>1 DEF Later, OneVisualCall
<1> QED
  BY <1>1, <1>2, <1>3, <1>4, TodoSteps

\* A turn stays behind the calls to come.
LEMMA AfterStays ==
  ASSUME Types, Types', Later, NEW r \in Nat, After(r)
  PROVE  After(r)'
<1>1. /\ VisualRank \in Nat /\ VisualRank' \in Nat
      /\ \A i \in 1 .. Len(todo) : Rank(todo[i].options) \in Nat
      /\ \A i \in 1 .. Len(todo') : Rank(todo'[i].options) \in Nat
  BY TurnTypes, NextTurnTypes
<1>2. r <= VisualRank'
  BY <1>1 DEF After, Later
<1>3. ASSUME NEW i \in 1 .. Len(todo'), IsVisual(todo'[i].options)
      PROVE  r <= Rank(todo'[i].options)
  <2>1. CASE VisualRank <= Rank(todo'[i].options)
    BY <1>1, <2>1 DEF After
  <2>2. ASSUME NEW j \in 1 .. Len(todo), todo'[i].options = todo[j].options
        PROVE  r <= Rank(todo'[i].options)
    BY <1>3, <2>2 DEF After
  <2> QED
    BY <1>3, <2>1, <2>2 DEF Later
<1> QED
  BY <1>2, <1>3 DEF After

\* The turns stay where none is taken.
LEMMA TurnsStay ==
  ASSUME Types, Types', Later, OneVisualCall', Turns,
         SinkRank' = SinkRank \/ SinkRank' = 0,
         ~IsVisual(pending'.options) \/ pending'.options = pending.options,
         \/ ~IsVisual(worker'.packet)
         \/ IsVisual(worker.packet) /\ Rank(worker'.packet) = Rank(worker.packet)
  PROVE  Turns'
<1>1. /\ SinkRank \in Nat /\ Rank(pending.options) \in Nat /\ Rank(worker.packet) \in Nat
      /\ VisualRank' \in Nat /\ Rank(pending'.options) \in Nat /\ Rank(worker'.packet) \in Nat
      /\ \A i \in 1 .. Len(todo') : Rank(todo'[i].options) \in Nat
  BY TurnTypes, NextTurnTypes
<1>2. ASSUME NEW r \in Nat, AfterPending(r)
      PROVE  AfterPending(r)'
  BY <1>2, AfterStays DEF AfterPending
<1>3. AfterPending(SinkRank) /\ After(0)
  <2>1. \A i \in 1 .. Len(todo) : 0 <= Rank(todo[i].options)
    BY TurnTypes
  <2>2. 0 <= VisualRank
    BY TurnTypes
  <2> QED
    BY <2>1, <2>2 DEF Turns, After
<1>4. AfterPending(SinkRank)'
  <2>1. CASE SinkRank' = SinkRank
    <3>1. \A r \in Nat : r = SinkRank => AfterPending(r)'
      BY <1>2, <1>3
    <3>2. PICK r \in Nat : r = SinkRank
      BY <1>1
    <3>3. AfterPending(r)' /\ r = SinkRank'
      BY <2>1, <3>1, <3>2
    <3> QED
      BY <3>3 DEF AfterPending, After
  <2>2. CASE SinkRank' = 0
    <3>1. After(0)'
      BY <1>3, AfterStays
    <3>2. 0 <= Rank(pending'.options)
      BY <1>1
    <3> QED
      BY <2>2, <3>1, <3>2 DEF AfterPending, After
  <2> QED
    BY <2>1, <2>2
<1>5. IsVisual(worker'.packet) => SinkRank' <= Rank(worker'.packet)
  BY <1>1 DEF Turns
<1>6. IsVisual(worker'.packet) => AfterPending(Rank(worker.packet))'
  <2> SUFFICES ASSUME IsVisual(worker'.packet)
               PROVE  AfterPending(Rank(worker.packet))'
    OBVIOUS
  <2>1. PICK r \in Nat : r = Rank(worker.packet)
    BY <1>1
  <2>2. AfterPending(r)
    BY <2>1 DEF Turns
  <2>3. AfterPending(r)' /\ r = Rank(worker'.packet)
    BY <1>2, <2>1, <2>2
  <2> QED
    BY <2>3 DEF AfterPending, After, Rank
<1>7. IsVisual(pending'.options) => After(Rank(pending.options))'
  <2> SUFFICES ASSUME IsVisual(pending'.options)
               PROVE  After(Rank(pending.options))'
    OBVIOUS
  <2>1. PICK r \in Nat : r = Rank(pending.options)
    BY <1>1
  <2>2. After(r)
    BY <2>1 DEF Turns
  <2>3. After(r)' /\ r = Rank(pending'.options)
    BY <2>1, <2>2, AfterStays
  <2> QED
    BY <2>3 DEF After, Rank
<1> QED
  BY <1>4, <1>5, <1>6, <1>7 DEF Turns, IsVisual, Rank

\* A call that gives an update takes its turn; the others leave the one that is pending.
LEMMA CallOptions ==
  ASSUME Types, CallStep
  PROVE  \/ pending'.options = pending.options
         \/ /\ IsVisual(pending'.options) <=> IsVisual(Head(todo).options)
            /\ Rank(pending'.options) = Rank(Head(todo).options)
<1>0. pending \in PendingType
  BY PendingFacts DEF Types
<1>1. CASE CallLoad \/ \E known \in BOOLEAN : CallUpdate(known)
  <2>1. todo # <<>>
    BY <1>1 DEF CallLoad, CallUpdate, Calling
  <2>2. Head(todo).options \in Options
    BY <2>1, HeadFacts DEF Types, CallRecord
  <2> DEFINE o == MergeSubtitleUpdateOptions(pending.options, Head(todo).options)
  <2>3. o.class = Head(todo).options.class /\ o.id = Head(todo).options.id
    BY <2>2 DEF MergeSubtitleUpdateOptions, Options
  <2>4. pending'.options = o
    <3>1. CASE CallLoad
      BY <1>0, <3>1 DEF CallLoad, PendingType
    <3>2. ASSUME NEW known \in BOOLEAN, CallUpdate(known)
          PROVE  pending'.options = o
      BY <1>0, <3>2 DEF CallUpdate, PendingType
    <3> QED
      BY <1>1, <3>1, <3>2
  <2> HIDE DEF o
  <2> QED
    BY <2>3, <2>4 DEF IsVisual, Rank
<1>2. CASE CallRequest
  BY <1>0, <1>2 DEF CallRequest, PendingType
<1>3. CASE CallCancel
  BY <1>0, <1>3 DEF CallCancel, PendingType
<1>4. CASE CallSetColorSpace
  BY <1>0, <1>4 DEF CallSetColorSpace, PendingType
<1>5. CASE CallSchedule \/ CallSync
  BY <1>5 DEF CallSchedule, CallSync
<1> QED
  BY <1>1, <1>2, <1>3, <1>4, <1>5 DEF CallStep

\* The worker takes the turn that is pending,
LEMMA TakeTurn ==
  ASSUME Types, Take
  PROVE  /\ pending' = NothingPending /\ UNCHANGED sink
         /\ \/ worker' = worker
            \/ ~IsVisual(worker'.packet)
            \/ IsVisual(pending.options) /\ Rank(worker'.packet) = Rank(pending.options)
<1>1. worker \in WorkerType /\ NoPacket \in Packets
  BY NoPacketType DEF Types, WorkerTypes
<1>2. pending' = NothingPending /\ UNCHANGED sink
  BY DEF Take, host
<1>3. \/ worker' = worker
      \/ /\ worker'.packet.class = IF pending.kind = "request" THEN "every"
                                   ELSE pending.options.class
         /\ worker'.packet.id = IF pending.kind = "request" THEN 0 ELSE pending.options.id
  <2> DEFINE c == IF pending.kind = "request" THEN "every" ELSE pending.options.class
             n == IF pending.kind = "request" THEN 0 ELSE pending.options.id
             p == [NoPacket EXCEPT !.frame = frame_number', !.version = Version,
                                   !.class = c, !.id = n]
  <2>1. worker' = worker \/ worker' = [worker EXCEPT !.at = "render", !.packet = p]
    BY DEF Take
  <2>2. p.class = c /\ p.id = n
    BY DEF NoPacket
  <2> HIDE DEF p, c, n
  <2>3. [worker EXCEPT !.at = "render", !.packet = p].packet = p
    BY <1>1 DEF WorkerType
  <2>4. worker' = worker \/ worker'.packet = p
    BY <2>1, <2>3
  <2>5. worker' = worker \/ (worker'.packet.class = c /\ worker'.packet.id = n)
    BY <2>2, <2>4
  <2> QED
    BY <2>5 DEF c, n
<1> QED
  BY <1>2, <1>3 DEF IsVisual, Rank

\* keeps it when it draws,
LEMMA DrawnTurn ==
  ASSUME NEW p \in Packets, NEW f
  PROVE  IsVisual(Drawn(p, f)) = IsVisual(p) /\ Rank(Drawn(p, f)) = Rank(p)
BY DEF Drawn, Packets, IsVisual, Rank

\* and the sink has it when the packet is posted.
LEMMA PostTurn ==
  ASSUME Types, NEW p \in Packets, Post(p)
  PROVE  SinkRank' = SinkRank \/ (IsVisual(p) /\ SinkRank' = Rank(p))
<1>1. sink \in [open : BOOLEAN, id : Nat, final : BOOLEAN]
      /\ p.class \in {"every", "intermediate", "final"}
  BY DEF Types, GuiTypes, Packets
<1>2. CASE p.class = "every"
  <2>1. sink' = [sink EXCEPT !.open = FALSE]
    BY <1>2 DEF Post
  <2> QED
    BY <1>1, <2>1 DEF SinkRank
<1>3. CASE p.class # "every" /\ Superseded(p)
  BY <1>3 DEF Post, host, SinkRank
<1>4. CASE p.class # "every" /\ ~Superseded(p)
  <2>1. /\ sink'.id = p.id
        /\ sink'.final = (p.class = "final" \/ (sink.final /\ p.id = sink.id))
    BY <1>4 DEF Post
  <2>2. sink'.final = (p.class = "final")
    BY <1>1, <1>4, <2>1 DEF Superseded
  <2> QED
    BY <1>4, <2>1, <2>2 DEF SinkRank, Rank, IsVisual
<1> QED
  BY <1>2, <1>3, <1>4

\* A turn that becomes the pending one.
LEMMA PendingTurn ==
  ASSUME Inv, Inv', Turns, Later, OneVisualCall', CallStep,
         IsVisual(pending'.options), IsVisual(Head(todo).options),
         Rank(pending'.options) = Rank(Head(todo).options)
  PROVE  Turns'
<1>0. Types /\ Types' /\ SyncIsAwaited
  BY DEF Inv, Jobs
<1>1. /\ Len(todo) \in Nat \ {0} /\ Head(todo) = todo[1] /\ 1 \in 1 .. Len(todo)
      /\ \E d \in {0, 1} : Leaves(d)
  BY <1>0, NextCalls
<1>2. UNCHANGED <<worker, sink>>
  BY CallEffects DEF host
<1>3. PICK h \in Nat : h = Rank(todo[1].options)
  BY <1>0, <1>1, TurnTypes
<1>4. h = Rank(pending'.options)
  BY <1>1, <1>3
<1>5. ASSUME NEW i \in 1 .. Len(todo'), IsVisual(todo'[i].options)
      PROVE  FALSE
  <2>1. PICK d \in {0, 1} : Leaves(d)
    BY <1>1
  <2>2. i + d \in 2 .. Len(todo) /\ todo'[i] = todo[i + d]
    BY <1>5, <2>1, RankFacts DEF Leaves, Quiet
  <2>3. i + d \in 1 .. Len(todo) /\ i + d # 1
    BY <1>1, <2>2
  <2> QED
    BY <1>1, <1>5, <2>2, <2>3 DEF Turns, OneVisualCall
<1>6. VisualRank \in Nat /\ VisualRank' \in Nat /\ SinkRank \in Nat /\ Rank(worker.packet) \in Nat
  BY <1>0, TurnTypes, NextTurnTypes
<1>7. h <= VisualRank
  BY <1>1, <1>3 DEF Turns, OneVisualCall
<1>8. \A r \in Nat : r <= VisualRank => After(r)'
  BY <1>5, <1>6 DEF After, Later
<1>9. After(h)'
  BY <1>7, <1>8
<1>10. ASSUME NEW r \in Nat, AfterPending(r)
       PROVE  AfterPending(r)'
  <2>1. r <= h /\ r <= VisualRank
    BY <1>1, <1>3, <1>10 DEF AfterPending, After
  <2> QED
    BY <1>4, <1>8, <2>1 DEF AfterPending
<1>11. AfterPending(SinkRank)'
  <2>1. PICK r \in Nat : r = SinkRank
    BY <1>6
  <2>2. AfterPending(r)
    BY <2>1 DEF Turns
  <2>3. AfterPending(r)' /\ r = SinkRank'
    BY <1>2, <1>10, <2>1, <2>2 DEF SinkRank
  <2> QED
    BY <2>3 DEF AfterPending, After
<1>12. IsVisual(worker'.packet) =>
          SinkRank' <= Rank(worker'.packet) /\ AfterPending(Rank(worker.packet))'
  <2> SUFFICES ASSUME IsVisual(worker'.packet)
               PROVE  SinkRank' <= Rank(worker'.packet) /\ AfterPending(Rank(worker.packet))'
    OBVIOUS
  <2>1. PICK r \in Nat : r = Rank(worker.packet)
    BY <1>6
  <2>2. IsVisual(worker.packet)
    BY <1>2
  <2>3. AfterPending(r) /\ SinkRank <= r
    BY <2>1, <2>2 DEF Turns
  <2>4. AfterPending(r)' /\ r = Rank(worker'.packet)
    BY <1>2, <1>10, <2>1, <2>3
  <2>5. SinkRank' <= Rank(worker'.packet)
    BY <1>2, <2>3, <2>4 DEF SinkRank
  <2> QED
    BY <2>4, <2>5 DEF AfterPending, After, Rank
<1>13. After(Rank(pending.options))'
  BY <1>4, <1>9 DEF After, Rank
<1> QED
  BY <1>11, <1>12, <1>13 DEF Turns, IsVisual, Rank

\* A turn that the worker takes, and one that the sink has.
LEMMA TakenTurn ==
  ASSUME Types, Types', Turns, Later, OneVisualCall', ~IsVisual(pending'.options),
         SinkRank' = SinkRank, IsVisual(pending.options),
         Rank(worker'.packet) = Rank(pending.options)
  PROVE  Turns'
<1>1. SinkRank \in Nat /\ Rank(pending.options) \in Nat
  BY TurnTypes
<1>2. PICK s \in Nat : s = SinkRank
  BY <1>1
<1>3. PICK r \in Nat : r = Rank(pending.options)
  BY <1>1
<1>4. After(s) /\ After(r) /\ s <= r
  BY <1>2, <1>3 DEF Turns, AfterPending
<1>5. After(s)' /\ After(r)' /\ s = SinkRank' /\ r = Rank(worker'.packet)
  BY <1>2, <1>3, <1>4, AfterStays
<1>6. AfterPending(SinkRank)'
  BY <1>5 DEF AfterPending, After, IsVisual
<1>7. AfterPending(Rank(worker.packet))'
  BY <1>5 DEF AfterPending, After, IsVisual, Rank
<1> QED
  BY <1>4, <1>5, <1>6, <1>7 DEF Turns, IsVisual, Rank
LEMMA PostedTurn ==
  ASSUME Types, Types', Turns, Later, OneVisualCall', pending' = pending,
         ~IsVisual(worker'.packet), IsVisual(worker.packet), SinkRank' = Rank(worker.packet)
  PROVE  Turns'
<1>1. Rank(worker.packet) \in Nat /\ Rank(pending.options) \in Nat
  BY TurnTypes
<1>2. PICK s \in Nat : s = Rank(worker.packet)
  BY <1>1
<1>3. PICK r \in Nat : r = Rank(pending.options)
  BY <1>1
<1>4. AfterPending(s) /\ (IsVisual(pending.options) => After(r))
  BY <1>2, <1>3 DEF Turns
<1>5. AfterPending(s)' /\ s = SinkRank'
  BY <1>2, <1>4, AfterStays DEF AfterPending
<1>6. AfterPending(SinkRank)'
  BY <1>5 DEF AfterPending, After
<1>7. IsVisual(pending'.options) => After(Rank(pending.options))'
  BY <1>3, <1>4, AfterStays DEF After
<1> QED
  BY <1>6, <1>7 DEF Turns, IsVisual

\* The turns, over every step.
LEMMA TurnsKept ==
  ASSUME Inv, Inv', VisualShape, Turns, [Next]_vars
  PROVE  Turns'
<1>0. Types /\ Types' /\ WorkerShape /\ TodoTypes /\ FinalCoversPending
  BY DEF Inv, Jobs, Types, Given
<1>t. Later /\ OneVisualCall'
  BY CallsTakeTurns DEF Turns
<1>a. ~IsVisual(Idle.packet) /\ ~IsVisual(NothingPending.options)
  BY RankFacts, IdleFacts DEF NothingPending
<1>s. ASSUME UNCHANGED <<sink, worker>>, pending'.options = pending.options
      PROVE  Turns'
  BY <1>0, <1>t, <1>s, TurnsStay DEF SinkRank
<1>1. CASE CallStep
  <2>1. UNCHANGED <<sink, worker>>
    BY <1>1, CallEffects DEF host
  <2>2. CASE ~IsVisual(pending'.options)
    BY <1>0, <1>t, <2>1, <2>2, TurnsStay DEF SinkRank
  <2>3. CASE IsVisual(pending'.options) /\ pending'.options # pending.options
    BY <1>0, <1>1, <1>t, <2>3, CallOptions, PendingTurn
  <2> QED
    BY <1>s, <2>1, <2>2, <2>3
<1>2. CASE CallOpen
  <2>1. SinkRank' = 0 /\ worker' = Idle /\ pending' = NothingPending
    BY <1>2 DEF CallOpen, SinkRank, NoBatch
  <2> QED
    BY <1>0, <1>a, <1>t, <2>1, TurnsStay
<1>3. CASE Aside \/ PrefetchFrames \/ UNCHANGED vars
  <2>1. worker' = worker /\ pending'.options = pending.options
    <3>1. pending \in PendingType
      BY <1>0, PendingFacts DEF Types
    <3>2. CASE \E p \in recent_render_packets : JumpToRecentFrame(p)
      BY <3>1, <3>2 DEF JumpToRecentFrame, PendingType
    <3>3. CASE HandlerStep \/ CancelFramePrefetch \/ Receive \/ PrefetchFrames \/ UNCHANGED vars
      BY <3>3 DEF HandlerStep, CancelFramePrefetch, Receive, PrefetchFrames, vars, Elsewhere
    <3> QED
      BY <1>3, <3>2, <3>3 DEF Aside
  <2>2. SinkRank' = SinkRank
    <3>1. CASE Receive
      <4>1. sink'.id = sink.id /\ sink'.final = sink.final
        BY <1>0, <3>1 DEF Receive, Types, GuiTypes
      <4> QED
        BY <4>1 DEF SinkRank
    <3>2. CASE ~Receive
      BY <1>3, <3>2 DEF Aside, HandlerStep, CancelFramePrefetch, PrefetchFrames,
                        JumpToRecentFrame, vars, Elsewhere, host, SinkRank
    <3> QED
      BY <3>1, <3>2
  <2> QED
    BY <1>0, <1>t, <2>1, <2>2, TurnsStay
<1>4. CASE FinishStep
  <2>1. worker' = Idle /\ pending' = pending /\ sink' = sink
    BY <1>4, FinishEffects DEF host
  <2> QED
    BY <1>0, <1>a, <1>t, <2>1, TurnsStay DEF SinkRank
<1>5. CASE WorkStep
  <2>0. worker \in WorkerType /\ worker.packet \in Packets
    BY <1>0 DEF Types, WorkerTypes, WorkerType
  <2>1. CASE Take
    <3>1. /\ pending' = NothingPending /\ SinkRank' = SinkRank
          /\ \/ worker' = worker
             \/ ~IsVisual(worker'.packet)
             \/ IsVisual(pending.options) /\ Rank(worker'.packet) = Rank(pending.options)
      BY <1>0, <2>1, TakeTurn DEF SinkRank
    <3>2. worker' = worker \/ ~IsVisual(worker'.packet) => Turns'
      BY <1>0, <1>a, <1>t, <3>1, TurnsStay
    <3>3. IsVisual(pending.options) /\ Rank(worker'.packet) = Rank(pending.options) => Turns'
      BY <1>0, <1>a, <1>t, <3>1, TakenTurn
    <3> QED
      BY <3>1, <3>2, <3>3
  <2>2. CASE Render
    <3>1. UNCHANGED <<sink, pending>>
      BY <2>2 DEF Render, host
    <3>2. \/ worker'.packet = Drawn(worker.packet, worker.packet.frame)
          \/ worker'.packet = worker.packet
      BY <2>0, <2>2 DEF Render, WorkerType
    <3>3. IsVisual(worker'.packet) = IsVisual(worker.packet)
          /\ Rank(worker'.packet) = Rank(worker.packet)
      BY <2>0, <3>2, DrawnTurn
    <3> QED
      BY <1>0, <1>t, <3>1, <3>3, TurnsStay DEF SinkRank
  <2>3. CASE Deliver
    <3>1. pending' = pending /\ ~IsVisual(worker'.packet)
      BY <2>0, <2>3, RankFacts DEF Deliver, WorkerType
    <3>2. Post(worker.packet) \/ UNCHANGED host
      BY <2>3 DEF Deliver
    <3>3. CASE SinkRank' = SinkRank
      BY <1>0, <1>t, <3>1, <3>3, TurnsStay
    <3>4. CASE IsVisual(worker.packet) /\ SinkRank' = Rank(worker.packet)
      BY <1>0, <1>t, <3>1, <3>4, PostedTurn
    <3> QED
      BY <1>0, <2>0, <3>2, <3>3, <3>4, PostTurn DEF host, SinkRank
  <2>4. CASE SkipStale \/ DeliverError
    <3>1. UNCHANGED <<sink, pending>>
      BY <2>4 DEF SkipStale, DeliverError, host
    <3>2. worker'.packet = NoPacket
      BY <2>0, <2>4 DEF SkipStale, DeliverError, WorkerType
    <3> QED
      BY <1>0, <1>t, <3>1, <3>2, TurnsStay, RankFacts DEF SinkRank
  <2>5. CASE StartJob \/ TakeNothing \/ PrefetchOne \/ PrefetchRepost \/ PrefetchFails
    <3>1. UNCHANGED <<sink, pending>>
      BY <2>5 DEF StartJob, TakeNothing, PrefetchOne, PrefetchRepost, PrefetchFails, host
    <3>2. worker.packet = NoPacket
      BY <1>0, <2>5, IdleFacts DEF StartJob, TakeNothing, PrefetchOne, PrefetchRepost,
                                   PrefetchFails, WorkerShape
    <3>3. worker'.packet = NoPacket
      <4>1. StartJob => worker'.packet = NoPacket
        BY DEF StartJob, Idle
      <4> QED
        BY <2>0, <2>5, <3>2, <4>1, IdleFacts DEF TakeNothing, PrefetchOne, PrefetchRepost,
                                                 PrefetchFails, WorkerType
    <3> QED
      BY <1>0, <1>t, <3>1, <3>3, TurnsStay, RankFacts DEF SinkRank
  <2> QED
    BY <1>5, <2>1, <2>2, <2>3, <2>4, <2>5 DEF WorkStep
<1> QED
  BY <1>0, <1>1, <1>2, <1>3, <1>4, <1>5, StepKinds
-----------------------------------------------------------------------------
(***************************************************************************)
(* What is scheduled, over every step                                      *)
(***************************************************************************)
Processes == \E i \in 1 .. Len(queue) : queue[i] = "process"
LEMMA ProcessStays ==
  ASSUME ProviderTypes, NEW job \in Job, queue' = queue \/ queue' = Append(queue, job), Processes
  PROVE  Processes'
<1>1. \A i \in 1 .. Len(queue) : i \in 1 .. Len(queue') /\ queue'[i] = queue[i]
  BY QueueFacts
<1> QED
  BY <1>1 DEF Processes

\* A call schedules what it leaves pending, or that is scheduled.
LEMMA CallScheduled ==
  ASSUME Inv, Scheduled, CallStep
  PROVE  Scheduled'
<1>0. /\ Types /\ TodoTypes /\ ProviderTypes /\ SyncIsAwaited /\ pending \in PendingType
      /\ worker' = worker
  BY PendingFacts, CallEffects DEF Inv, Types, Jobs
<1>1. ReturnScheduling => Names("schedule", todo')
  <2> SUFFICES ASSUME ReturnScheduling
               PROVE  Names("schedule", todo')
    OBVIOUS
  <2>1. todo # <<>>
    BY <1>0, NextCalls
  <2>2. Len(todo') = Len(todo) /\ Len(todo) \in Nat \ {0} /\ todo'[1].call = "schedule"
    BY <1>0, <2>1, ReturnSchedulingFacts, HeadFacts
  <2>3. 1 \in 1 .. Len(todo')
    BY <2>2
  <2> QED
    BY <2>2, <2>3 DEF Names
<1>2. CASE CallLoad \/ CallRequest \/ CallSetColorSpace \/ \E known \in BOOLEAN : CallUpdate(known)
  <2>1. ReturnScheduling /\ UNCHANGED <<processing_scheduled, queue>>
    BY <1>2 DEF CallLoad, CallRequest, CallSetColorSpace, CallUpdate
  <2> QED
    BY <1>0, <1>1, <2>1 DEF Scheduled, Rendering
<1>3. CASE CallCancel
  <2>1. /\ UNCHANGED <<processing_scheduled, queue>> /\ todo # <<>> /\ Head(todo).call = "cancel"
        /\ Return
    BY <1>3 DEF CallCancel, Calling
  <2>2. ~NothingToTake' => ~NothingToTake
    BY <1>0, <1>3 DEF CallCancel, NothingToTake, HasContent, PendingType
  <2>3. Names("schedule", todo) => Names("schedule", todo')
    BY <1>0, <2>1, CallsRemain
  <2> QED
    BY <1>0, <2>1, <2>2, <2>3 DEF Scheduled, Rendering
<1>4. CASE CallSchedule
  <2>1. processing_scheduled' = TRUE
    BY <1>4 DEF CallSchedule
  <2>2. CASE processing_scheduled
    BY <1>0, <1>4, <2>2 DEF CallSchedule, Scheduled, Rendering
  <2>3. CASE ~processing_scheduled
    <3>1. queue' = Append(queue, "process") /\ "process" \in Job
      BY <1>4, <2>3 DEF CallSchedule, Job
    <3>2. Len(queue) + 1 \in 1 .. Len(queue') /\ queue'[Len(queue) + 1] = "process"
      BY <1>0, <3>1, QueueFacts
    <3> QED
      BY <2>1, <3>2 DEF Scheduled
  <2> QED
    BY <2>2, <2>3
<1>5. CASE CallSync
  <2>1. /\ UNCHANGED <<processing_scheduled, pending>> /\ todo # <<>>
        /\ Head(todo).call \in SyncJobs /\ todo' = <<Call("wait")>> \o Tail(todo)
        /\ queue' = Append(queue, Head(todo).call) /\ Head(todo).call \in Job
    BY <1>5 DEF CallSync, Job
  <2>2. Names("schedule", todo) => Names("schedule", todo')
    <3>1. Call("wait") \in CallRecord
      BY CallFacts DEF CallName
    <3>2. Head(todo).call # "schedule"
      BY <2>1 DEF SyncJobs
    <3> QED
      BY <1>0, <2>1, <3>1, <3>2, CallsRemain
  <2>3. Processes => Processes'
    BY <1>0, <2>1, ProcessStays
  <2>4. NothingToTake' = NothingToTake
    BY <2>1 DEF NothingToTake, HasContent
  <2> QED
    BY <1>0, <2>1, <2>2, <2>3, <2>4 DEF Scheduled, Rendering, Processes
<1> QED
  BY <1>2, <1>3, <1>4, <1>5 DEF CallStep

\* So is what the worker leaves.
LEMMA WorkScheduled ==
  ASSUME Inv, Scheduled, WorkStep
  PROVE  Scheduled'
<1>0. /\ Types /\ ProviderTypes /\ WorkerShape /\ worker \in WorkerType /\ pending \in PendingType
  BY PendingFacts DEF Inv, Types, Jobs, WorkerTypes
<1>t. todo' = todo
  BY <1>0, WorkJobs
<1>p. ASSUME pending' = pending
      PROVE  NothingToTake' = NothingToTake
  BY <1>p DEF NothingToTake, HasContent
<1>1. CASE StartJob
  <2>1. /\ UNCHANGED <<processing_scheduled, pending>> /\ worker = Idle /\ queue # <<>>
        /\ queue' = Tail(queue)
        /\ worker' = [Idle EXCEPT !.job = Head(queue),
                         !.at = IF Head(queue) = "prefetch" THEN "prefetch" ELSE "take"]
    BY <1>1 DEF StartJob
  <2>2. processing_scheduled => Processes
    BY <2>1, IdleFacts DEF Scheduled, Processes, Rendering
  <2>3. /\ Len(queue) \in Nat \ {0} /\ Head(queue) = queue[1] /\ Len(queue') = Len(queue) - 1
        /\ \A i \in 1 .. Len(queue') : queue'[i] = queue[i + 1]
    BY <1>0, <2>1, QueueFacts
  <2>4. Processes => Processes' \/ worker'.at = "take"
    <3> SUFFICES ASSUME NEW i \in 1 .. Len(queue), queue[i] = "process"
                 PROVE  Processes' \/ worker'.at = "take"
      BY DEF Processes
    <3>1. CASE i = 1
      <4>1. Head(queue) = "process"
        BY <2>3, <3>1
      <4> QED
        BY <2>1, <4>1, IdleFacts DEF Idle
    <3>2. CASE i # 1
      <4>1. i - 1 \in 1 .. Len(queue') /\ (i - 1) + 1 = i
        BY <2>3, <3>2
      <4>2. queue'[i - 1] = "process"
        BY <2>3, <4>1
      <4> QED
        BY <4>1, <4>2 DEF Processes
    <3> QED
      BY <3>1, <3>2
  <2> QED
    BY <1>p, <1>t, <2>1, <2>2, <2>4 DEF Scheduled, Processes
<1>2. CASE TakeNothing
  BY <1>2, <1>p DEF TakeNothing, Scheduled
<1>3. CASE Take
  <2>1. NothingToTake'
    BY <1>3 DEF Take, NothingToTake, HasContent, NothingPending
  <2>2. UNCHANGED <<processing_scheduled, queue>>
    BY <1>3 DEF Take
  <2>3. worker'.at \in {"take", "render"}
    <3>1. worker.at = "take"
      BY <1>3 DEF Take
    <3> QED
      BY <1>0, <1>3, <3>1, TakeFacts
  <2> QED
    BY <2>1, <2>2, <2>3 DEF Scheduled, Rendering
<1>4. CASE SkipStale \/ Render \/ Deliver \/ DeliverError
  <2>1. worker'.at \in {"take", "deliver", "error"}
    BY <1>0, <1>4 DEF SkipStale, Render, Deliver, DeliverError, WorkerType
  <2>2. UNCHANGED <<processing_scheduled, queue, pending>>
    BY <1>4 DEF SkipStale, Render, Deliver, DeliverError
  <2> QED
    BY <1>p, <1>t, <2>1, <2>2 DEF Scheduled, Rendering
<1>5. CASE PrefetchOne \/ PrefetchRepost \/ PrefetchFails
  <2>1. /\ UNCHANGED <<processing_scheduled, pending>> /\ worker.at \in {"prefetch", "repost"}
        /\ queue' = queue \/ queue' = Append(queue, "prefetch")
    BY <1>5 DEF PrefetchOne, PrefetchRepost, PrefetchFails
  <2>2. processing_scheduled => Processes
    BY <2>1 DEF Scheduled, Processes, Rendering
  <2>3. Processes => Processes'
    BY <1>0, <2>1, ProcessStays DEF Job
  <2> QED
    BY <1>p, <1>t, <2>1, <2>2, <2>3 DEF Scheduled, Processes
<1> QED
  BY <1>1, <1>2, <1>3, <1>4, <1>5 DEF WorkStep

LEMMA ScheduledKept ==
  ASSUME Inv, Scheduled, [Next]_vars
  PROVE  Scheduled'
<1>0. Types /\ ProviderTypes /\ WorkerShape /\ FinalCoversPending
  BY DEF Inv, Types, Jobs, Given
<1>p. ASSUME pending' = pending
      PROVE  NothingToTake' = NothingToTake
  BY <1>p DEF NothingToTake, HasContent
<1>1. CASE CallOpen
  BY <1>1 DEF CallOpen, Scheduled, NothingToTake, HasContent, NothingPending
<1>2. CASE Aside
  <2>1. UNCHANGED <<processing_scheduled, queue, worker>>
    BY <1>0, <1>2, AsideEffects
  <2>2. CASE \E p \in recent_render_packets : JumpToRecentFrame(p)
    <3>1. todo' = <<Schedule>>
      BY <2>2 DEF JumpToRecentFrame
    <3>2. Len(todo') = 1 /\ todo'[1].call = "schedule"
      BY <3>1 DEF Schedule, Call
    <3> QED
      BY <2>1, <3>2 DEF Scheduled, Rendering, Names
  <2>3. CASE HandlerStep
    <3>1. pending' = pending /\ todo = <<>>
      BY <2>3 DEF HandlerStep, Elsewhere
    <3>2. ~Names("schedule", todo)
      BY <3>1 DEF Names
    <3> QED
      BY <1>p, <2>1, <3>1, <3>2 DEF Scheduled, Rendering
  <2>4. CASE CancelFramePrefetch \/ Receive
    <3>1. pending' = pending /\ todo' = todo
      BY <2>4 DEF CancelFramePrefetch, Receive, Elsewhere
    <3> QED
      BY <1>p, <2>1, <3>1 DEF Scheduled, Rendering
  <2> QED
    BY <1>2, <2>2, <2>3, <2>4 DEF Aside
<1>3. CASE PrefetchFrames
  <2>1. /\ UNCHANGED <<processing_scheduled, pending, worker, todo>>
        /\ queue' = queue \/ queue' = Append(queue, "prefetch")
    BY <1>3 DEF PrefetchFrames
  <2>2. Processes => Processes'
    BY <1>0, <2>1, ProcessStays DEF Job
  <2> QED
    BY <1>p, <2>1, <2>2 DEF Scheduled, Rendering, Processes
<1>4. CASE FinishStep
  <2>1. worker.at = "finish" /\ UNCHANGED <<pending, queue>>
    BY <1>4, FinishEffects
  <2>2. processing_scheduled' = processing_scheduled
    BY <1>4 DEF FinishStep, FinishRender, FinishTimecodes, FinishReplace, FinishClose
  <2>3. NothingToTake'
    BY <1>0, <1>p, <2>1 DEF WorkerShape
  <2> QED
    BY <2>1, <2>2, <2>3 DEF Scheduled, Rendering
<1>5. CASE UNCHANGED vars
  BY <1>5, <1>p DEF vars, Scheduled, Rendering
<1> QED
  BY <1>0, <1>1, <1>2, <1>3, <1>4, <1>5, CallScheduled, WorkScheduled, StepKinds
-----------------------------------------------------------------------------
(***************************************************************************)
(* What was drawn, over every step                                         *)
(***************************************************************************)
\* A step that is no pass of the worker and no call leaves what is pending.
LEMMA PendingStill ==
  ASSUME \/ HandlerStep \/ CancelFramePrefetch \/ Receive \/ PrefetchFrames \/ FinishStep
         \/ (WorkStep /\ ~Take) \/ CallSchedule \/ CallSync \/ UNCHANGED vars
  PROVE  pending' = pending
<1>1. CASE HandlerStep \/ CancelFramePrefetch \/ Receive \/ PrefetchFrames
  BY <1>1 DEF HandlerStep, CancelFramePrefetch, Receive, PrefetchFrames, Elsewhere
<1>2. CASE FinishStep
  BY <1>2, FinishEffects
<1>3. CASE WorkStep /\ ~Take
  BY <1>3 DEF WorkStep, StartJob, TakeNothing, SkipStale, Render, Deliver, DeliverError,
              PrefetchOne, PrefetchRepost, PrefetchFails
<1>4. CASE CallSchedule \/ CallSync \/ UNCHANGED vars
  BY <1>4 DEF CallSchedule, CallSync, vars
<1> QED
  BY <1>1, <1>2, <1>3, <1>4

\* A request that is pending is not skipped.
LEMMA CheckUpdatedKept ==
  ASSUME Inv, CheckUpdated, [Next]_vars
  PROVE  CheckUpdated'
<1>0. Types /\ FinalCoversPending /\ pending \in PendingType
  BY PendingFacts DEF Inv, Types, Given
<1>1. pending' = pending => CheckUpdated'
  BY DEF CheckUpdated
<1>2. CASE CallLoad
  BY <1>0, <1>2 DEF CallLoad, CheckUpdated, PendingType
<1>3. ASSUME NEW known \in BOOLEAN, CallUpdate(known)
      PROVE  CheckUpdated'
  <2>1. /\ pending'.check_updated = (pending.check_updated \/ pending.kind # "request")
        /\ pending'.kind = pending.kind
    BY <1>0, <1>3 DEF CallUpdate, PendingType
  <2> QED
    BY <2>1 DEF CheckUpdated
<1>4. CASE CallRequest \/ CallCancel
  BY <1>0, <1>4 DEF CallRequest, CallCancel, CheckUpdated, PendingType
<1>5. CASE CallSetColorSpace
  BY <1>0, <1>5 DEF CallSetColorSpace, CheckUpdated, PendingType
<1>6. CASE CallOpen \/ Take
  BY <1>6 DEF CallOpen, Take, CheckUpdated, NothingPending
<1>7. CASE \E p \in recent_render_packets : JumpToRecentFrame(p)
  BY <1>0, <1>7, ContextPending DEF CheckUpdated
<1> QED
  BY <1>0, <1>1, <1>2, <1>3, <1>4, <1>5, <1>6, <1>7, PendingStill, Steps DEF CallStep

\* How the work with a frame ended changes only where it ends, and a failure is remembered.
LEMMA HistoryStays ==
  ASSUME Types, FinalCoversPending, [Next]_vars
  PROVE  \/ UNCHANGED history
         \/ (Take /\ Ended("skipped", drawn)) \/ (Render /\ Ended("unloaded", drawn))
         \/ /\ Deliver /\ worker.packet.version = Version
            /\ Post(worker.packet) /\ Ended("drawn", worker.packet)
         \/ (DeliverError /\ Ended("failed", drawn))
         \/ (FinishRender /\ \E how \in {"drawn", "failed", "unloaded"} : Ended(how, drawn))
<1>1. CASE CallStep
  BY <1>1, CallEffects
<1>2. CASE HandlerStep \/ CancelFramePrefetch
  BY <1>2 DEF HandlerStep, CancelFramePrefetch, Elsewhere
<1>3. CASE CallOpen \/ Receive \/ PrefetchFrames \/ UNCHANGED vars
            \/ \E p \in recent_render_packets : JumpToRecentFrame(p)
  BY <1>3 DEF CallOpen, Receive, PrefetchFrames, vars, JumpToRecentFrame
<1>4. CASE FinishStep
  BY <1>4 DEF FinishStep, FinishRender, FinishTimecodes, FinishReplace, FinishClose
<1>5. CASE Take
  BY <1>5 DEF Take
<1>6. CASE Render
  BY <1>6 DEF Render
<1>7. CASE Deliver
  BY <1>7 DEF Deliver, history
<1>8. CASE DeliverError
  BY <1>8 DEF DeliverError
<1>9. CASE StartJob \/ TakeNothing \/ SkipStale \/ PrefetchOne \/ PrefetchRepost \/ PrefetchFails
  BY <1>9 DEF StartJob, TakeNothing, SkipStale, PrefetchOne, PrefetchRepost, PrefetchFails
<1> QED
  BY <1>1, <1>2, <1>3, <1>4, <1>5, <1>6, <1>7, <1>8, <1>9, Steps DEF WorkStep

LEMMA FailedStays ==
  ASSUME Types, FinalCoversPending, [Next]_vars, HasFailed
  PROVE  HasFailed'
BY HistoryStays DEF Ended, HasFailed, history

\* What the next pass is compared with was drawn.
LEMMA RenderedKept ==
  ASSUME Inv, Rendered, [Next]_vars
  PROVE  Rendered'
<1>0. Types /\ WorkerShape /\ PacketsAreFresh /\ FinalCoversPending
  BY DEF Inv, Jobs, Given
<1>f. ~HasFailed' => ~HasFailed
  BY <1>0, FailedStays
<1>a. ASSUME UNCHANGED <<last_rendered, last_lines, drawn>>
      PROVE  Rendered'
  BY <1>a, <1>f DEF Rendered
<1>1. CASE CallOpen \/ FinishTimecodes \/ FinishReplace
  BY <1>1 DEF CallOpen, FinishTimecodes, FinishReplace, ForgetRendered, Rendered
<1>2. CASE Deliver
  <2>1. CASE worker.packet.version = Version
    <3>1. /\ last_rendered' = frame_number
          /\ last_lines' = VisibleLines(subs, subtitles_timecodes, frame_number)
          /\ drawn' = worker.packet /\ worker.at = "deliver"
      BY <1>2, <2>1 DEF Deliver, Ended
    <3>2. worker.packet.frame = frame_number /\ Fresh(worker.packet)
      BY <1>0, <3>1 DEF WorkerShape, PacketsAreFresh
    <3>3. Current(worker.packet.version)
      BY <1>0, <2>1, VersionFresh
    <3>4. outcome # "unloaded" => worker.packet.lines = last_lines'
      BY <3>1, <3>2, <3>3 DEF Fresh, IsPictureOf
    <3> QED
      BY <1>f, <3>1, <3>2, <3>4 DEF Rendered, HasFailed
  <2>2. CASE worker.packet.version # Version
    BY <1>2, <2>2, <1>a DEF Deliver, history
  <2> QED
    BY <2>1, <2>2
<1>3. CASE ~(CallOpen \/ FinishTimecodes \/ FinishReplace \/ Deliver)
  <2>1. UNCHANGED <<last_rendered, last_lines>>
    <3>1. CASE CallStep
      BY <3>1, CallEffects DEF renderer
    <3>2. CASE HandlerStep \/ CancelFramePrefetch
      BY <3>2 DEF HandlerStep, CancelFramePrefetch, Elsewhere, renderer
    <3>3. CASE Receive \/ PrefetchFrames \/ UNCHANGED vars
                \/ \E p \in recent_render_packets : JumpToRecentFrame(p)
      BY <3>3 DEF Receive, PrefetchFrames, vars, JumpToRecentFrame, renderer
    <3>4. CASE FinishRender \/ FinishClose
      BY <3>4 DEF FinishRender, FinishClose, renderer
    <3>5. CASE WorkStep /\ ~Deliver
      BY <3>5 DEF WorkStep, StartJob, TakeNothing, Take, SkipStale, Render, DeliverError,
                  PrefetchOne, PrefetchRepost, PrefetchFails, renderer
    <3> QED
      BY <1>0, <1>3, <3>1, <3>2, <3>3, <3>4, <3>5, Steps DEF FinishStep
  <2>2. drawn' = drawn
    BY <1>0, <1>3, HistoryStays DEF Ended, history
  <2> QED
    BY <1>a, <2>1, <2>2
<1> QED
  BY <1>1, <1>2, <1>3
-----------------------------------------------------------------------------
(***************************************************************************)
(* The frame that is asked for, over every step                            *)
(***************************************************************************)
LEMMA AskingNames ==
  ASSUME NEW s \in Seq(CallRecord), Asking(s)
  PROVE  Names("request", s) \/ Names("render", s)
<1>1. Len(s) \in 1 .. Len(s)
  BY EmptySeq DEF Asking
<1> QED
  BY <1>1 DEF Asking, Names

\* Who asks for a frame goes on to until it is requested, or rendered.
LEMMA AskedStays ==
  ASSUME Inv, [Next]_vars, Asked
  PROVE  Asked' \/ CallRequest \/ FinishRender
<1>0. /\ Types /\ TodoTypes /\ WorkerShape /\ SyncIsAwaited /\ FinalCoversPending
      /\ "render" \in SyncJobs
  BY DEF Inv, Types, Jobs, Given, SyncJobs
<1>w. Outstanding("render") => Calling("wait")
  BY <1>0 DEF SyncIsAwaited, Outstanding
<1>n. todo = <<>> => ~Asked
  BY <1>w DEF Asked, Names, Calling
<1>1. CASE CallStep \/ CallOpen
  <2>1. ~Outstanding("render")
    <3>1. ~Calling("wait")
      BY <1>1, CallEffects DEF CallOpen, Calling
    <3> QED
      BY <1>w, <3>1
  <2>2. /\ todo # <<>>
        /\ Return \/ \E x \in CallRecord : todo' = <<x>> \o Tail(todo)
    BY <1>0, <1>1, CallLeaves
  <2>3. \A calling : Names(calling, todo) /\ Head(todo).call # calling => Names(calling, todo')
    BY <1>0, <2>2, CallsRemain
  <2>4. Head(todo).call = "request" => CallRequest
    BY <1>1, SyncCallsAreJobs DEF CallStep, CallLoad, CallUpdate, CallCancel, CallSetColorSpace,
                                  CallSchedule, CallSync, CallOpen, Calling, SyncJobs
  <2>5. Head(todo).call = "render" => Outstanding("render")'
    <3> SUFFICES ASSUME Head(todo).call = "render"
                 PROVE  Outstanding("render")'
      OBVIOUS
    <3>1. CallSync
      BY <1>1 DEF CallStep, CallLoad, CallUpdate, CallRequest, CallCancel, CallSetColorSpace,
                  CallSchedule, CallOpen, Calling
    <3>2. /\ queue'[Len(queue) + 1] = "render" /\ Len(queue) \in Nat
          /\ Len(queue') = Len(queue) + 1
      BY <1>0, <3>1, SyncCallsAreJobs
    <3>3. Len(queue) + 1 \in 1 .. Len(queue')
      BY <3>2
    <3> QED
      BY <3>2, <3>3 DEF Outstanding
  <2> QED
    BY <2>1, <2>3, <2>4, <2>5 DEF Asked
<1>2. CASE FinishStep
  <2>1. worker.job \in SyncJobs /\ Return /\ todo # <<>> /\ Head(todo).call = "wait"
    <3>1. worker.job \in SyncJobs /\ Return
      BY <1>2, FinishEffects
    <3> QED
      BY <1>0, <3>1 DEF SyncIsAwaited, Calling
  <2>2. Outstanding("render") => worker.job = "render"
    BY <1>0, <2>1 DEF SyncIsAwaited, Outstanding
  <2>3. Outstanding("render") => FinishRender
    BY <1>2, <2>2 DEF FinishStep, FinishTimecodes, FinishReplace, FinishClose
  <2>4. \A calling : Names(calling, todo) /\ Head(todo).call # calling => Names(calling, todo')
    BY <1>0, <2>1, CallsRemain
  <2> QED
    BY <2>1, <2>3, <2>4 DEF Asked
<1>3. CASE Aside \/ PrefetchFrames
  <2>1. todo = <<>>
    BY <1>3 DEF Aside, HandlerStep, CancelFramePrefetch, Receive, JumpToRecentFrame,
                PrefetchFrames, Handler
  <2> QED
    BY <1>n, <2>1
<1>4. CASE WorkStep
  <2>1. todo' = todo /\ (Outstanding("render") => Outstanding("render")')
    BY <1>0, <1>4, WorkJobs, JobStaysOutstanding
  <2> QED
    BY <2>1 DEF Asked
<1>5. CASE UNCHANGED vars
  BY <1>5 DEF vars, Asked, Outstanding
<1> QED
  BY <1>0, <1>1, <1>2, <1>3, <1>4, <1>5, StepKinds

\* Who resets something has asked for a frame.
LEMMA ResetsAsk ==
  ASSUME Inv, CallsAsk, todo # <<>>, Head(todo).call \in Resets
  PROVE  Asked
<1>1. todo \in Seq(CallRecord) /\ Len(todo) \in Nat \ {0} /\ Head(todo) = todo[1]
  BY HeadFacts DEF Inv, Types, TodoTypes
<1>2. Asking(todo)
  BY <1>1 DEF CallsAsk
<1> QED
  BY <1>1, <1>2, AskingNames DEF Asked

\* A handler asks for the new target, or leaves it.
LEMMA HandlerTarget ==
  ASSUME Types', HandlerAsks
  PROVE  \/ Asked'
         \/ UNCHANGED <<frame_n, previews>> /\ (ToLoad => ToLoad' \/ Names("load", todo'))
<1>1. todo' \in Seq(CallRecord)
  BY DEF Types, TodoTypes
<1>2. Asking(todo') => Asked'
  BY <1>1, AskingNames DEF Asked
<1> QED
  BY <1>2 DEF HandlerAsks, NewCalls

\* A packet moves the target only while previews are accepted.
LEMMA ReceiveTarget ==
  ASSUME Types, Receive, NEW f, IsTarget(f)
  PROVE  IsTarget(f)' /\ accept_late_preview_frames' = accept_late_preview_frames
<1>1. accept_late_preview_frames' = accept_late_preview_frames
  BY DEF Receive, previews
<1>2. accept_late_preview_frames \/ frame_n' = frame_n
  BY DEF Receive, Accepts, IsAwaited
<1> QED
  BY <1>1, <1>2 DEF IsTarget

\* The frame that would be taken next changes where one is requested or dropped.
LEMMA TakenStill ==
  ASSUME Types, FinalCoversPending, WorkerShape, [Next]_vars
  PROVE  \/ CallRequest \/ CallCancel \/ CallOpen \/ FinishRender
         \/ \E p \in recent_render_packets : JumpToRecentFrame(p)
         \/ TakenFrame' = TakenFrame
<1>0. pending \in PendingType
  BY PendingFacts DEF Types
<1>a. UNCHANGED <<frame_number, pending>> => TakenFrame' = TakenFrame
  BY DEF TakenFrame
<1>1. CASE CallLoad \/ CallSetColorSpace \/ \E known \in BOOLEAN : CallUpdate(known)
  <2>1. frame_number' = frame_number
    BY <1>1 DEF CallLoad, CallSetColorSpace, CallUpdate, renderer
  <2>2. pending'.kind = pending.kind /\ pending'.frame = pending.frame
    BY <1>0, <1>1 DEF CallLoad, CallSetColorSpace, CallUpdate, PendingType
  <2> QED
    BY <2>1, <2>2 DEF TakenFrame
<1>2. CASE Take
  <2>1. pending' = NothingPending
        /\ frame_number' = IF pending.kind = "context" \/ HasFrame THEN TakenFrame
                                                                   ELSE frame_number
    BY <1>2 DEF Take
  <2>2. pending.kind \in {"none", "context", "request"}
    BY <1>0 DEF PendingType
  <2> QED
    BY <2>1, <2>2 DEF TakenFrame, HasFrame, NothingPending
<1>3. CASE CallSchedule \/ CallSync
  BY <1>3, <1>a DEF CallSchedule, CallSync, renderer
<1>4. CASE HandlerStep \/ CancelFramePrefetch \/ Receive \/ PrefetchFrames \/ UNCHANGED vars
  BY <1>4, <1>a DEF HandlerStep, CancelFramePrefetch, Receive, PrefetchFrames, vars, Elsewhere,
                    renderer
<1>5. CASE FinishTimecodes \/ FinishReplace \/ FinishClose
  BY <1>5, <1>a DEF FinishTimecodes, FinishReplace, FinishClose, renderer
<1>6. CASE WorkStep /\ ~Take
  BY <1>6, <1>a DEF WorkStep, StartJob, TakeNothing, SkipStale, Render, Deliver, DeliverError,
                    PrefetchOne, PrefetchRepost, PrefetchFails, renderer
<1> QED
  BY <1>1, <1>2, <1>3, <1>4, <1>5, <1>6, Steps DEF CallStep, FinishStep
-----------------------------------------------------------------------------
(***************************************************************************)
(* The packet in work, over every step                                     *)
(***************************************************************************)
\* A packet in work has the version and the frame that were taken.
LEMMA WorkSteps ==
  ASSUME Types, Types', WorkerShape, FinalCoversPending, [Next]_vars
  PROVE  \/ /\ worker'.packet.version = worker.packet.version
            /\ worker'.packet.frame = worker.packet.frame
            /\ Rendering' => Rendering
         \/ ~Rendering'
         \/ /\ Take /\ worker'.packet.version = Version
            /\ worker'.packet.frame = frame_number' /\ frame_number' \in Frame
<1>0. worker \in WorkerType /\ worker.packet \in Packets
  BY DEF Types, WorkerTypes, WorkerType
<1>1. CASE worker' = worker
  BY <1>1 DEF Rendering
<1>2. CASE worker' = Idle
  BY <1>2, IdleFacts DEF Rendering
<1>3. CASE Take
  BY <1>1, <1>3, TakeFacts
<1>4. CASE Render
  <2>1. \/ worker'.packet = Drawn(worker.packet, worker.packet.frame)
        \/ worker'.packet = worker.packet
    BY <1>0, <1>4 DEF Render, WorkerType
  <2>2. worker.at = "render" /\ worker.packet.frame \in Frame
    BY <1>4 DEF Render, WorkerShape
  <2>3. /\ Drawn(worker.packet, worker.packet.frame).frame = worker.packet.frame
        /\ Drawn(worker.packet, worker.packet.frame).version = worker.packet.version
    BY <1>0, <2>2, DrawnFacts DEF Types
  <2> QED
    BY <2>1, <2>2, <2>3 DEF Rendering
<1>5. CASE StartJob \/ TakeNothing \/ SkipStale \/ Deliver \/ DeliverError
            \/ PrefetchOne \/ PrefetchRepost \/ PrefetchFails
  <2>1. worker'.at \notin {"render", "deliver", "error"}
    <3>1. StartJob => worker'.at \in {"prefetch", "take"}
      BY DEF StartJob, Idle
    <3>2. TakeNothing => worker'.at \in {"idle", "finish"}
      BY <1>0, IdleFacts DEF TakeNothing, WorkerType
    <3>3. SkipStale \/ Deliver \/ DeliverError => worker'.at = "take"
      BY <1>0 DEF SkipStale, Deliver, DeliverError, WorkerType
    <3>4. PrefetchOne \/ PrefetchRepost \/ PrefetchFails => worker'.at \in {"idle", "repost"}
      BY <1>0, IdleFacts DEF PrefetchOne, PrefetchRepost, PrefetchFails, WorkerType
    <3> QED
      BY <1>5, <3>1, <3>2, <3>3, <3>4
  <2> QED
    BY <2>1 DEF Rendering
<1>6. CASE CallStep
  BY <1>1, <1>6, CallEffects
<1>7. CASE CallOpen \/ FinishStep
  BY <1>2, <1>7, FinishEffects DEF CallOpen
<1>8. CASE Aside
  BY <1>1, <1>8, AsideEffects
<1>9. CASE PrefetchFrames \/ UNCHANGED vars
  BY <1>1, <1>9 DEF PrefetchFrames, vars
<1> QED
  BY <1>3, <1>4, <1>5, <1>6, <1>7, <1>8, <1>9, StepKinds DEF WorkStep

\* The version of the requests grows with each that drops those before it.
LEMMA RequestGrows ==
  ASSUME Types, FinalCoversPending, [Next]_vars
  PROVE  \/ request_version' = request_version
         \/ /\ request_version' = request_version + 1
            /\ CallRequest \/ CallCancel \/ \E p \in recent_render_packets : JumpToRecentFrame(p)
         \/ CallOpen
<1>0. request_version \in Nat
  BY DEF Types, ProviderTypes
<1>1. CASE CallLoad \/ CallSetColorSpace \/ CallSchedule \/ CallSync
            \/ \E known \in BOOLEAN : CallUpdate(known)
  BY <1>1 DEF CallLoad, CallSetColorSpace, CallSchedule, CallSync, CallUpdate, versions
<1>2. CASE CallRequest \/ CallCancel
  BY <1>0, <1>2 DEF CallRequest, CallCancel
<1>3. CASE \E p \in recent_render_packets : JumpToRecentFrame(p)
  BY <1>3 DEF JumpToRecentFrame
<1>4. CASE HandlerStep \/ CancelFramePrefetch \/ Receive \/ PrefetchFrames \/ UNCHANGED vars
  BY <1>4 DEF HandlerStep, CancelFramePrefetch, Receive, PrefetchFrames, vars, Elsewhere, versions
<1>5. CASE FinishStep
  BY <1>5, FinishEffects
<1>6. CASE WorkStep
  BY <1>6 DEF WorkStep, StartJob, TakeNothing, Take, SkipStale, Render, Deliver, DeliverError,
              PrefetchOne, PrefetchRepost, PrefetchFails, versions
<1> QED
  BY <1>1, <1>2, <1>3, <1>4, <1>5, <1>6, Steps DEF CallStep

LEMMA RequestIssuedKept ==
  ASSUME Inv, Inv', RequestIssued, [Next]_vars
  PROVE  RequestIssued'
<1>0. /\ Types /\ Types' /\ WorkerShape /\ WorkerShape' /\ FinalCoversPending
      /\ request_version \in Nat /\ request_version' \in Nat
      /\ worker.packet.version.request \in Nat
  BY DEF Inv, Jobs, Given, Types, ProviderTypes, WorkerTypes, WorkerType, Packets
<1>1. CASE ~Rendering'
  <2>1. worker'.packet = NoPacket
    BY <1>0, <1>1 DEF WorkerShape, Rendering
  <2> QED
    BY <1>0, <2>1 DEF RequestIssued, NoPacket, NoVersion
<1>2. CASE CallOpen
  BY <1>0, <1>1, <1>2, IdleFacts DEF CallOpen, Rendering
<1>3. CASE /\ request_version' >= request_version
           /\ worker'.packet.version = worker.packet.version
  BY <1>0, <1>3 DEF RequestIssued
<1>4. CASE Take /\ worker'.packet.version = Version
  BY <1>0, <1>4 DEF Take, Version, versions, RequestIssued
<1> QED
  BY <1>0, <1>1, <1>2, <1>3, <1>4, WorkSteps, RequestGrows

\* Work that is of the current version was taken with it.
LEMMA InWorkBefore ==
  ASSUME Inv, Inv', RequestIssued, [Next]_vars, InWork'
  PROVE  \/ /\ InWork /\ worker'.packet.frame = worker.packet.frame /\ Version' = Version
            /\ ~CallOpen
         \/ /\ Take /\ worker'.packet.frame = frame_number' /\ frame_number' \in Frame
<1>0. /\ Types /\ Types' /\ WorkerShape /\ FinalCoversPending /\ TodoShape
      /\ Issued(worker.packet.version)
  BY DEF Inv, Jobs, Given, PacketsAreFresh
<1>1. Rendering' /\ worker'.packet.version = Version'
  BY DEF InWork
<1>2. CASE Take /\ worker'.packet.frame = frame_number' /\ frame_number' \in Frame
  BY <1>2
<1>3. CASE /\ worker'.packet.version = worker.packet.version
           /\ worker'.packet.frame = worker.packet.frame
           /\ Rendering
  <2> DEFINE v == worker.packet.version
  <2>1. /\ v.provider \in Nat /\ v.content \in Nat /\ v.request \in Nat
        /\ provider_version \in Nat /\ content_version \in Nat /\ request_version \in Nat
        /\ provider_version' \in Nat /\ content_version' \in Nat
    BY <1>0 DEF Types, ProviderTypes, WorkerTypes, WorkerType, Packets
  <2>2. /\ v.provider = provider_version' /\ v.content = content_version'
        /\ v.request = request_version'
    BY <1>1, <1>3 DEF Version
  <2>3. ~Outdates
    BY <1>0, <2>1, <2>2 DEF Outdates, Issued
  <2>4. UNCHANGED <<provider_version, content_version>>
    BY <1>0, <2>3, OutdatesOrKeeps DEF Keeps
  <2>5. ~CallOpen
    BY <2>1, <2>4 DEF CallOpen
  <2>6. request_version' = request_version
    BY <1>0, <2>1, <2>2, <2>5, RequestGrows DEF RequestIssued
  <2>7. Version' = Version
    BY <2>4, <2>6 DEF Version
  <2> QED
    BY <1>1, <1>3, <2>5, <2>7 DEF InWork
<1> QED
  BY <1>0, <1>1, <1>2, <1>3, WorkSteps

\* A provider is opened when the old one's worker is gone.
LEMMA OpensIdle ==
  ASSUME Inv, CallOpen
  PROVE  worker = Idle /\ queue = <<>>
<1>1. todo # <<>> /\ Head(todo).call = "open"
  BY DEF CallOpen, Calling
<1>2. Head(todo) = todo[1] /\ 1 \in 1 .. Len(todo)
  BY <1>1, HeadFacts DEF Inv, Types
<1>3. 1 # 2
  OBVIOUS
<1> QED
  BY <1>1, <1>2, <1>3 DEF Inv, Jobs, TodoShape

\* The kind of what is pending changes only where a frame is requested, dropped or taken.
LEMMA KindStill ==
  ASSUME Types, FinalCoversPending, [Next]_vars
  PROVE  \/ CallRequest \/ CallCancel \/ CallOpen \/ Take
         \/ \E p \in recent_render_packets : JumpToRecentFrame(p)
         \/ pending'.kind = pending.kind
<1>0. pending \in PendingType
  BY PendingFacts DEF Types
<1>1. CASE CallLoad \/ CallSetColorSpace \/ \E known \in BOOLEAN : CallUpdate(known)
  BY <1>0, <1>1 DEF CallLoad, CallSetColorSpace, CallUpdate, PendingType
<1> QED
  BY <1>1, PendingStill, Steps DEF CallStep

\* The target that is known, over every step.
LEMMA TargetKnownKept ==
  ASSUME Inv, Inv', VisualShape, CallsAsk, CallsFit, RequestIssued, TargetKnown, [Next]_vars
  PROVE  TargetKnown'
<1>0. Types /\ Types' /\ WorkerShape /\ FinalCoversPending /\ None \notin Frame
  BY NoneIsNot DEF Inv, Jobs, Given
<1>f. HasFailed => HasFailed'
  BY <1>0, FailedStays
<1>r. CallRequest => /\ pending'.kind = "request" /\ TakenFrame' = frame_n
                     /\ frame_n' = frame_n /\ frame_n \in Frame
  <2> SUFFICES ASSUME CallRequest
               PROVE  /\ pending'.kind = "request" /\ TakenFrame' = frame_n
                      /\ frame_n' = frame_n /\ frame_n \in Frame
    OBVIOUS
  <2>1. /\ todo # <<>> /\ Head(todo).call = "request" /\ pending \in PendingType
        /\ frame_n' = frame_n /\ frame_n \in Frame
    BY <1>0, PendingFacts DEF CallRequest, Calling, Types, GuiTypes, gui
  <2>2. Head(todo).frame = frame_n
    <3>1. Head(todo) = todo[1] /\ 1 \in 1 .. Len(todo)
      BY <1>0, <2>1, HeadFacts DEF Types
    <3> QED
      BY <2>1, <3>1 DEF CallsFit
  <2>3. pending'.kind = "request" /\ pending'.frame = frame_n
    BY <2>1, <2>2 DEF CallRequest, PendingType
  <2> QED
    BY <2>1, <2>3 DEF TakenFrame
<1>j. (\E p \in recent_render_packets : JumpToRecentFrame(p)) =>
          TakenFrame' = frame_n' /\ frame_n' \in Frame
  <2> SUFFICES ASSUME NEW p \in recent_render_packets, JumpToRecentFrame(p)
               PROVE  TakenFrame' = frame_n' /\ frame_n' \in Frame
    OBVIOUS
  <2>1. p.frame \in Frame /\ pending \in PendingType /\ frame_n' = p.frame
    BY <1>0, PendingFacts DEF JumpToRecentFrame, Types, GuiTypes
  <2>2. pending'.kind = "context" /\ pending'.frame = p.frame
    BY <2>1 DEF JumpToRecentFrame, PendingType
  <2> QED
    BY <2>1, <2>2 DEF TakenFrame
<1>e. FinishRender => HasFailed' \/ (TakenFrame' = frame_n /\ frame_n' = frame_n)
  <2> SUFFICES ASSUME FinishRender
               PROVE  HasFailed' \/ (TakenFrame' = frame_n /\ frame_n' = frame_n)
    OBVIOUS
  <2>1. pending' = pending /\ pending.kind = "none" /\ frame_n' = frame_n
    BY <1>0 DEF FinishRender, WorkerShape, NothingToTake
  <2>2. \/ frame_number' = frame_n \/ HasFailed'
    BY DEF FinishRender, Ended, HasFailed
  <2> QED
    BY <2>1, <2>2 DEF TakenFrame
<1>t. ASSUME NEW f, IsTarget(f)
      PROVE  IsTarget(f)' \/ Asked' \/ (\E p \in recent_render_packets : JumpToRecentFrame(p))
  <2>1. CASE UNCHANGED <<frame_n, previews>>
    BY <1>t, <2>1 DEF IsTarget, previews
  <2>2. CASE Receive
    BY <1>0, <1>t, <2>2, ReceiveTarget
  <2>3. CASE HandlerAsks
    BY <1>0, <2>1, <2>3, HandlerTarget
  <2>4. CASE CallOpen
    <3>1. Asked
      BY <2>4, ResetsAsk DEF CallOpen, Calling, Resets
    <3>2. ~CallRequest /\ ~FinishRender
      <4>1. worker = Idle
        BY <2>4, OpensIdle
      <4> QED
        BY <2>4, <4>1, IdleFacts DEF CallOpen, Calling, CallRequest, FinishRender
    <3> QED
      BY <3>1, <3>2, AskedStays
  <2> QED
    BY <1>0, <2>1, <2>2, <2>3, <2>4, AskingSteps, TargetStill
<1>1. HasFailed' \/ Asked' \/ (TakenFrame' # None /\ IsTarget(TakenFrame)')
  <2>1. CASE CallRequest
    BY <1>0, <1>r, <2>1 DEF IsTarget
  <2>2. CASE FinishRender
    BY <1>0, <1>e, <2>2 DEF IsTarget, Types, GuiTypes
  <2>3. CASE \E p \in recent_render_packets : JumpToRecentFrame(p)
    BY <1>0, <1>j, <2>3 DEF IsTarget
  <2>4. CASE Asked /\ ~CallRequest /\ ~FinishRender
    BY <2>4, AskedStays
  <2>5. CASE CallCancel \/ CallOpen
    <3>1. Asked
      BY <2>5, ResetsAsk DEF CallCancel, CallOpen, Calling, Resets
    <3> QED
      BY <2>1, <2>2, <2>4, <3>1
  <2>6. CASE /\ TakenFrame' = TakenFrame /\ TakenFrame # None /\ IsTarget(TakenFrame)
             /\ ~(\E p \in recent_render_packets : JumpToRecentFrame(p))
    <3>2. PICK f : f = TakenFrame
      OBVIOUS
    <3>3. IsTarget(f)' \/ Asked'
      BY <1>t, <2>6, <3>2
    <3> QED
      BY <2>6, <3>2, <3>3 DEF IsTarget
  <2> QED
    BY <1>0, <1>f, <2>1, <2>2, <2>3, <2>4, <2>5, <2>6, TakenStill DEF TargetKnown
<1>2. ASSUME InWork'
      PROVE  HasFailed' \/ Asked' \/ pending'.kind = "request" \/ IsTarget(worker.packet.frame)'
  <2>1. CASE Take /\ worker'.packet.frame = frame_number' /\ frame_number' \in Frame
    <3>1. TakenFrame' = frame_number'
      BY <2>1 DEF Take, TakenFrame, NothingPending
    <3> QED
      BY <1>1, <2>1, <3>1 DEF IsTarget
  <2>2. CASE /\ InWork /\ worker'.packet.frame = worker.packet.frame /\ Version' = Version
             /\ ~CallOpen
    <3>1. request_version' = request_version
      BY <2>2 DEF Version
    <3>2. ~(\E p \in recent_render_packets : JumpToRecentFrame(p))
      <4> SUFFICES ASSUME NEW p \in recent_render_packets, JumpToRecentFrame(p)
                   PROVE  FALSE
        OBVIOUS
      <4>1. request_version' = request_version + 1
        BY DEF JumpToRecentFrame
      <4>2. request_version \in Nat
        BY <1>0 DEF Types, ProviderTypes
      <4> QED
        BY <3>1, <4>1, <4>2
    <3>3. CASE IsTarget(worker.packet.frame)
      <4>1. PICK f : f = worker.packet.frame
        OBVIOUS
      <4>2. IsTarget(f)' \/ Asked'
        BY <1>t, <3>2, <3>3, <4>1
      <4> QED
        BY <2>2, <4>1, <4>2 DEF IsTarget
    <3>4. CASE CallRequest
      BY <1>r, <3>4
    <3>5. CASE Asked /\ ~CallRequest
      <4>1. ~FinishRender
        BY <2>2 DEF InWork, Rendering, FinishRender
      <4> QED
        BY <3>5, <4>1, AskedStays
    <3>6. CASE pending.kind = "request" /\ ~CallRequest
      <4>1. CASE pending'.kind = pending.kind
        BY <3>6, <4>1
      <4>2. CASE CallCancel
        <5>1. Asked
          BY <4>2, ResetsAsk DEF CallCancel, Calling, Resets
        <5> QED
          BY <3>5, <3>6, <5>1
      <4>3. CASE Take
        BY <2>2, <4>3 DEF Take, InWork, Rendering
      <4> QED
        BY <1>0, <2>2, <3>2, <3>6, <4>1, <4>2, <4>3, KindStill
    <3> QED
      BY <1>f, <2>2, <3>3, <3>4, <3>5, <3>6 DEF TargetKnown
  <2> QED
    BY <1>2, <2>1, <2>2, InWorkBefore
<1> QED
  BY <1>1, <1>2 DEF TargetKnown
-----------------------------------------------------------------------------
(***************************************************************************)
(* Someone will show what the worker has, over every step                  *)
(***************************************************************************)
\* While nobody asks for a frame nothing is reset either.
LEMMA NobodyAsks ==
  ASSUME Inv, VisualShape, CallsAsk, ~Asked, [Next]_vars
  PROVE  \/ CallLoad \/ CallSetColorSpace \/ CallSchedule
         \/ \E known \in BOOLEAN : CallUpdate(known)
         \/ HandlerAsks \/ \E p \in recent_render_packets : JumpToRecentFrame(p)
         \/ PrefetchFrames \/ CancelFramePrefetch \/ Receive \/ WorkStep \/ UNCHANGED vars
<1>0. /\ Types /\ SyncIsAwaited /\ FinalCoversPending /\ todo \in Seq(CallRecord)
  BY DEF Inv, Jobs, Given, Types, TodoTypes
<1>1. ASSUME todo # <<>>, Head(todo).call \in Resets \cup {"request", "render"}
      PROVE  FALSE
  <2>1. Head(todo) = todo[1] /\ 1 \in 1 .. Len(todo)
    BY <1>0, <1>1, HeadFacts DEF Types
  <2>2. Head(todo).call = "request" => Names("request", todo)
    BY <2>1 DEF Names
  <2>3. Head(todo).call = "render" => Names("render", todo)
    BY <2>1 DEF Names
  <2> QED
    BY <1>1, <2>2, <2>3, ResetsAsk DEF Asked
<1>2. CallCancel \/ CallOpen \/ CallRequest =>
         todo # <<>> /\ Head(todo).call \in Resets \cup {"request", "render"}
  BY DEF CallCancel, CallOpen, CallRequest, Calling, Resets
<1>3. CallSync => todo # <<>> /\ Head(todo).call \in Resets \cup {"request", "render"}
  BY DEF CallSync, SyncJobs, Resets
<1>4. ASSUME FinishStep
      PROVE  FALSE
  <2>1. worker.job \in {"render", "timecodes", "replace", "close"}
    BY <1>4, FinishEffects DEF SyncJobs
  <2>2. worker.job # "render" => Asking(todo)
    BY <2>1 DEF Outstanding, CallsAsk
  <2>3. Asking(todo) => Asked
    BY <1>0, AskingNames DEF Asked
  <2> QED
    BY <2>1, <2>2, <2>3 DEF Asked, Outstanding
<1> QED
  BY <1>0, <1>1, <1>2, <1>3, <1>4, AskingSteps DEF CallStep

\* An update leaves something to take.
LEMMA ContentIsGiven ==
  ASSUME Inv, CallsFit, CallLoad \/ \E known \in BOOLEAN : CallUpdate(known)
  PROVE  HasContent'
<1>0. Types /\ doc # None /\ doc \in Document /\ pending \in PendingType
  <2>1. Types /\ doc \in Document /\ Document \subseteq Lines
    BY DocumentLines DEF Inv, Types, GuiTypes
  <2> QED
    BY <2>1, NoneIsNot, PendingFacts DEF Types
<1>1. CASE CallLoad
  BY <1>0, <1>1, LoadPending DEF HasContent
<1>2. ASSUME NEW known \in BOOLEAN, CallUpdate(known)
      PROVE  HasContent'
  <2>1. CASE ~known
    <3>1. pending'.subs = doc
      BY <1>0, <1>2, <2>1 DEF CallUpdate, PendingType
    <3> QED
      BY <1>0, <3>1 DEF HasContent
  <2>2. CASE known
    <3> DEFINE ls == Head(todo).lines
               r == Restrict(doc, ls)
               c == Override(pending.changed, r)
    <3>1. pending'.changed = c
      BY <1>0, <1>2, <2>2 DEF CallUpdate, PendingType
    <3>2. ls # {} /\ ls \subseteq Line
      <4>1. todo # <<>> /\ Head(todo).call = "update"
        BY <1>2 DEF CallUpdate, Calling
      <4>2. Head(todo) = todo[1] /\ 1 \in 1 .. Len(todo) /\ Head(todo) \in CallRecord
        BY <1>0, <4>1, HeadFacts DEF Types
      <4> QED
        BY <4>1, <4>2 DEF CallsFit, CallRecord
    <3> HIDE DEF ls
    <3>3. DOMAIN r = ls
      BY <1>0, <3>2 DEF Restrict, Document
    <3> HIDE DEF r
    <3>4. DOMAIN c = DOMAIN pending.changed \cup ls
      BY <3>3 DEF Override
    <3> HIDE DEF c
    <3>5. c # NoLines
      BY <3>2, <3>4, DocumentLines
    <3> QED
      BY <3>1, <3>5 DEF HasContent
  <2> QED
    BY <2>1, <2>2
<1> QED
  BY <1>1, <1>2

\* Whoever will show it still does when nothing of what counts has changed.
LEMMA WillShowStays ==
  ASSUME UNCHANGED <<pending, subs, colour_space, subtitles_timecodes, displayed, messages,
                     versions, history, frame_n, previews>>,
         ~Asked, WillShow, InWork => InWork', GivesContent => GivesContent',
         ToLoad => ToLoad' \/ GivesContent'
  PROVE  WillShow'
<1>1. HasFailed => HasFailed'
  BY DEF HasFailed, history
<1>2. HasContent' = HasContent /\ (NothingChanged => NothingChanged')
  BY DEF HasContent, NothingChanged
<1>3. IsPosted => IsPosted'
  BY DEF IsPosted, Version, versions
<1>4. IsShown => IsShown'
  BY <1>2 DEF IsShown
<1>5. LastDrawn => LastDrawn'
  BY <1>2 DEF LastDrawn, history, previews
<1> QED
  BY <1>1, <1>2, <1>3, <1>4, <1>5 DEF WillShow

\* The worker does not work with a packet that it only looks for.
LEMMA StillInWork ==
  ASSUME worker' = worker, UNCHANGED versions, InWork
  PROVE  InWork'
BY DEF InWork, Rendering, Version, versions

\* The calls and handlers that ask for no frame.
LEMMA CallWillShow ==
  ASSUME Inv, CallsFit, WillShow, ~Asked,
         \/ CallLoad \/ CallSetColorSpace \/ CallSchedule
         \/ \E known \in BOOLEAN : CallUpdate(known)
  PROVE  WillShow'
<1>0. Types /\ TodoTypes /\ SyncIsAwaited
  BY DEF Inv, Types, Jobs
<1>a. CallStep
  BY DEF CallStep
<1>b. todo # <<>> /\ (Return \/ \E x \in CallRecord : todo' = <<x>> \o Tail(todo))
  BY <1>0, <1>a, CallLeaves
<1>c. visual' = visual
  BY <1>a, VisualStill
<1>g. GivesContent /\ Head(todo).call \notin {"load", "update"} => GivesContent'
  <2>2. \A calling : Names(calling, todo) /\ Head(todo).call # calling => Names(calling, todo')
    BY <1>0, <1>b, CallsRemain
  <2>3. /\ Names("load", todo) /\ Head(todo).call # "load" => Names("load", todo')
        /\ Names("update", todo) /\ Head(todo).call # "update" => Names("update", todo')
    BY <2>2
  <2> QED
    BY <2>3 DEF GivesContent
<1>1. CASE CallLoad \/ \E known \in BOOLEAN : CallUpdate(known)
  BY <1>1, ContentIsGiven DEF WillShow
<1>2. CASE CallSetColorSpace
  <2>1. Head(todo).call = "colour" /\ todo # <<>>
    BY <1>2 DEF CallSetColorSpace, Calling
  <2>2. Names("colour", todo)
    <3>1. Head(todo) = todo[1] /\ 1 \in 1 .. Len(todo)
      BY <1>0, <2>1, HeadFacts
    <3> QED
      BY <2>1, <3>1 DEF Names
  <2>3. GivesContent \/ ToLoad
    BY <2>2 DEF CallsFit, GivesContent
  <2> QED
    BY <1>c, <1>g, <2>1, <2>3 DEF WillShow, ToLoad
<1>3. CASE CallSchedule
  <2>1. Head(todo).call = "schedule"
    BY <1>3 DEF CallSchedule, Calling
  <2>2. /\ UNCHANGED <<pending, subs, colour_space, subtitles_timecodes, displayed, messages,
                       versions, history, frame_n, previews, worker>>
    BY <1>3 DEF CallSchedule, gui, renderer, host
  <2> QED
    BY <1>c, <1>g, <2>1, <2>2, WillShowStays, StillInWork DEF ToLoad
<1> QED
  BY <1>1, <1>2, <1>3

LEMMA HandlerWillShow ==
  ASSUME Inv, Inv', WillShow, ~Asked, HandlerAsks
  PROVE  WillShow'
<1>0. Types'
  BY DEF Inv
<1>1. /\ UNCHANGED <<pending, subs, colour_space, subtitles_timecodes, displayed, messages,
                     versions, history, worker>>
      /\ todo = <<>>
  BY DEF HandlerAsks, HandlerStep, Elsewhere, renderer, host
<1>2. ~GivesContent
  BY <1>1 DEF GivesContent, Names
<1>3. CASE Asked'
  BY <1>3 DEF WillShow
<1>4. CASE UNCHANGED <<frame_n, previews>> /\ (ToLoad => ToLoad' \/ Names("load", todo'))
  <2>1. ToLoad => ToLoad' \/ GivesContent'
    BY <1>4 DEF GivesContent
  <2> QED
    BY <1>1, <1>2, <1>4, <2>1, WillShowStays, StillInWork
<1> QED
  BY <1>0, <1>3, <1>4, HandlerTarget

\* A recent packet is shown at once.
LEMMA JumpWillShow ==
  ASSUME Inv, Inv', FinalCoversPending, [Next]_vars, WillShow,
         NEW p \in recent_render_packets, JumpToRecentFrame(p)
  PROVE  WillShow'
<1>0. Types /\ Fresh(p) /\ p \in Packets /\ request_version \in Nat
  BY DEF Inv, PacketsAreFresh, Types, GuiTypes, ProviderTypes
<1>1. CASE HasFailed
  BY <1>0, <1>1, FailedStays DEF WillShow
<1>2. CASE ~HasFailed
  <2>1. Current(p.version)
    BY DEF JumpToRecentFrame, Adoptable, Current
  <2>2. NothingChanged /\ IsPictureOf(p, subs, colour_space, subtitles_timecodes)
    BY <1>0, <1>2, <2>1 DEF Fresh, HasFailed
  <2>3. NothingChanged'
    BY <1>0, <2>2, ContextPending DEF NothingChanged, HasContent
  <2>4. /\ displayed' = Reissued(p, request_version + 1) /\ frame_n' = p.frame
        /\ UNCHANGED <<subs, colour_space, subtitles_timecodes>>
    BY DEF JumpToRecentFrame, Show, Reissued, renderer
  <2>5. /\ displayed'.frame = p.frame /\ displayed'.lines = p.lines /\ displayed'.colour = p.colour
    <3>1. request_version + 1 \in Nat
      BY <1>0
    <3> QED
      BY <1>0, <2>4, <3>1, ReissuedFacts
  <2>6. IsShown'
    BY <2>2, <2>3, <2>4, <2>5 DEF IsShown, IsPictureOf
  <2> QED
    BY <2>6 DEF WillShow
<1> QED
  BY <1>1, <1>2

\* A packet that is accepted is shown, and the one that was posted for the target is.
LEMMA ReceiveWillShow ==
  ASSUME Inv, WillShow, ~Asked, Receive
  PROVE  WillShow'
<1>0. Types /\ PacketsAreFresh /\ messages \in Seq(Message)
  BY DEF Inv, Types, GuiTypes
<1>1. /\ Len(messages) \in Nat \ {0} /\ Head(messages) = messages[1]
      /\ Len(messages') = Len(messages) - 1
      /\ \A i \in 1 .. Len(messages') : messages'[i] = messages[i + 1]
      /\ messages[1] \in Message
  <2>1. messages # <<>> /\ messages' = Tail(messages)
    BY DEF Receive
  <2> QED
    BY <1>0, <2>1, EmptySeq, HeadTailProperties, ElementOfSeq
<1>2. UNCHANGED <<pending, subs, colour_space, subtitles_timecodes, versions, history, worker,
                  todo, visual>>
  BY DEF Receive, renderer
<1> DEFINE m == messages[1]
<1>3. CASE m.kind # "error" /\ Accepts(m.packet)
  <2>1. displayed' = m.packet /\ frame_n' = m.packet.frame
    BY <1>1, <1>3 DEF Receive, Show
  <2>2. Fresh(m.packet) /\ m.packet.version = Version
    <3>1. 1 \in 1 .. Len(messages)
      BY <1>1
    <3> QED
      BY <1>0, <1>3, <3>1 DEF PacketsAreFresh, Accepts
  <2>3. Current(m.packet.version)
    BY <1>0, <2>2, VersionFresh
  <2>4. CASE HasFailed
    BY <1>2, <2>4 DEF WillShow, HasFailed, history
  <2>5. CASE ~HasFailed
    <3>1. NothingChanged /\ IsPictureOf(m.packet, subs, colour_space, subtitles_timecodes)
      BY <2>2, <2>3, <2>5 DEF Fresh, HasFailed
    <3>2. NothingChanged'
      BY <1>2, <3>1 DEF NothingChanged, HasContent
    <3>3. IsShown'
      BY <1>2, <2>1, <3>1, <3>2 DEF IsShown
    <3> QED
      BY <3>3 DEF WillShow
  <2> QED
    BY <2>4, <2>5
<1>4. CASE ~(m.kind # "error" /\ Accepts(m.packet))
  <2>1. UNCHANGED <<displayed, frame_n, previews>>
    BY <1>1, <1>4 DEF Receive
  <2>2. IsPosted => IsPosted'
    <3> SUFFICES ASSUME NEW i \in 1 .. Len(messages), messages[i].kind # "error",
                        messages[i].packet.version = Version, messages[i].packet.frame = frame_n
                 PROVE  IsPosted'
      BY DEF IsPosted
    <3>1. i # 1
      BY <1>4 DEF Accepts, IsAwaited
    <3>2. i - 1 \in 1 .. Len(messages') /\ (i - 1) + 1 = i
      BY <1>1, <3>1
    <3>3. messages'[i - 1] = messages[i]
      BY <1>1, <3>2
    <3>4. Version' = Version
      BY <1>2 DEF Version, versions
    <3> QED
      BY <2>1, <3>2, <3>3, <3>4 DEF IsPosted
  <2>3. HasFailed => HasFailed'
    BY <1>2 DEF HasFailed, history
  <2>4. HasContent' = HasContent /\ (NothingChanged => NothingChanged')
    BY <1>2 DEF HasContent, NothingChanged
  <2>5. (IsShown => IsShown') /\ (LastDrawn => LastDrawn')
    BY <1>2, <2>1, <2>4 DEF IsShown, LastDrawn, history, previews
  <2>6. (GivesContent => GivesContent') /\ (ToLoad => ToLoad') /\ (InWork => InWork')
    BY <1>2, StillInWork DEF GivesContent, ToLoad
  <2> QED
    BY <1>2, <2>2, <2>3, <2>4, <2>5, <2>6 DEF WillShow
<1> QED
  BY <1>3, <1>4

\* What the sink does not drop is posted.
LEMMA PostedIs ==
  ASSUME Types, BatchIsLast, NEW packet \in Packets, Post(packet),
         IsVisual(packet) => SinkRank <= Rank(packet)
  PROVE  \E i \in 1 .. Len(messages') : messages'[i].kind # "error" /\ messages'[i].packet = packet
<1> DEFINE m == [kind |-> "batch", packet |-> packet]
           e == [kind |-> "frame", packet |-> packet]
<1>1. /\ m \in Message /\ e \in Message /\ messages \in Seq(Message)
      /\ m.kind # "error" /\ m.packet = packet /\ e.kind # "error" /\ e.packet = packet
      /\ Len(messages) \in Nat /\ GuiTypes
  BY LenProperties DEF Types, Message, GuiTypes
<1>2. ASSUME NEW x \in Message, messages' = Append(messages, x)
      PROVE  Len(messages) + 1 \in 1 .. Len(messages') /\ messages'[Len(messages) + 1] = x
  BY <1>1, <1>2, AppendProperties
<1>3. CASE packet.class = "every"
  <2>1. messages' = Append(messages, e)
    BY <1>3 DEF Post
  <2> HIDE DEF e
  <2> QED
    BY <1>1, <1>2, <2>1
<1>4. CASE packet.class # "every"
  <2>1. ~Superseded(packet)
    <3>1. sink.id \in Nat /\ sink.final \in BOOLEAN /\ packet.id \in Nat
      BY <1>1 DEF GuiTypes, Packets
    <3>2. SinkRank <= Rank(packet)
      BY <1>4 DEF IsVisual
    <3>3. ASSUME packet.id < sink.id
          PROVE  FALSE
      BY <3>1, <3>2, <3>3 DEF SinkRank, Rank
    <3>4. ASSUME packet.id = sink.id, sink.final, packet.class = "intermediate"
          PROVE  FALSE
      BY <3>1, <3>2, <3>4 DEF SinkRank, Rank
    <3> QED
      BY <3>3, <3>4 DEF Superseded
  <2>2. CASE ~sink.open
    <3>1. messages' = Append(messages, m)
      BY <1>4, <2>1, <2>2 DEF Post
    <3> HIDE DEF m
    <3> QED
      BY <1>1, <1>2, <3>1
  <2>3. CASE sink.open
    <3>1. PICK i \in 1 .. Len(messages) :
             /\ messages[i].kind = "batch"
             /\ \A j \in i + 1 .. Len(messages) : messages[j].kind = "error"
      BY <2>3 DEF BatchIsLast
    <3>2. LastBatch = i
      BY <1>1, <3>1, LastBatchIs
    <3>3. messages' = [messages EXCEPT ![i] = m]
      BY <1>4, <2>1, <2>3, <3>2 DEF Post
    <3> HIDE DEF m
    <3>4. Len(messages') = Len(messages) /\ messages'[i] = m
      BY <1>1, <3>3
    <3> QED
      BY <1>1, <3>4
  <2> QED
    BY <2>2, <2>3
<1> QED
  BY <1>3, <1>4

\* What is taken is worked with, or was drawn, or is no reason to draw.
LEMMA TakeWillShow ==
  ASSUME Inv, TargetKnown, CheckUpdated, Rendered, WillShow, ~Asked, Take
  PROVE  WillShow'
<1>0. /\ Types /\ Document \subseteq Lines /\ NoLines \in Lines /\ None \notin Frame
      /\ [Next]_vars /\ FinalCoversPending
  BY DocumentLines, NoneIsNot DEF Inv, Jobs, Given, Next, Work
<1>1. /\ subs' = TakenSubs /\ frame_number' \in Frame \cup {None}
      /\ pending' = NothingPending /\ ~HasContent'
      /\ UNCHANGED <<gui, todo, versions, messages, subtitles_timecodes, last_rendered,
                     last_lines>>
  BY <1>0, TakeFacts DEF Take, host, HasContent, NothingPending
<1>2. Version' = Version /\ UNCHANGED <<visual, frame_n, previews, displayed>>
  BY <1>1 DEF gui, versions, Version
<1>3. (HasFailed => HasFailed') /\ (GivesContent => GivesContent') /\ (ToLoad => ToLoad')
  BY <1>0, <1>1, <1>2, FailedStays DEF GivesContent, ToLoad
<1>4. CASE HasFailed \/ GivesContent \/ ToLoad
  BY <1>3, <1>4 DEF WillShow
<1>5. CASE worker'.at = "render" /\ worker'.packet.version = Version
  <2>1. InWork'
    BY <1>2, <1>5 DEF InWork, Rendering
  <2> QED
    BY <2>1 DEF WillShow
<1>6. CASE HasFrame /\ worker' = worker /\ ~HasFailed
  <2>1. /\ pending.check_updated
        /\ ~NeedUpdate(single_frame', subs', frame_number')
        /\ Ended("skipped", drawn) /\ worker.at = "take" /\ frame_number' = TakenFrame
    <3>1. worker.at = "take" /\ worker \in WorkerType
      BY <1>0 DEF Take, Types, WorkerTypes
    <3> QED
      BY <1>6, <3>1 DEF Take, WorkerType
  <2>2. outcome' = "skipped" /\ drawn' = drawn
    BY <1>6, <2>1 DEF Ended
  <2>3. /\ frame_number' = last_rendered
        /\ VisibleLines(subs', subtitles_timecodes, frame_number') = last_lines
    BY <2>1 DEF NeedUpdate
  <2>4. TakenFrame # None
    BY <1>6, <2>1 DEF HasFrame, CheckUpdated
  <2>5. /\ last_rendered \in Frame /\ drawn.frame = last_rendered /\ drawn.lines = last_lines
    BY <1>0, <1>1, <1>6, <2>1, <2>3, <2>4 DEF Rendered
  <2>6. LastDrawn'
    BY <1>1, <2>2, <2>3, <2>5 DEF LastDrawn
  <2> QED
    BY <2>6 DEF WillShow
<1>7. CASE ~HasFrame /\ ~HasFailed
  <2>1. pending.kind # "request" /\ TakenFrame # None /\ ~HasContent
    BY <1>7 DEF TargetKnown, HasFrame
  <2>2. UNCHANGED history /\ subs' = subs
    BY <1>0, <1>1, <1>7, <2>1, TakenSubsFacts DEF Take
  <2>3. IsPosted => IsPosted'
    BY <1>1, <1>2 DEF IsPosted
  <2>4. IsShown => IsShown'
    <3>1. NothingChanged => NothingChanged' /\ colour_space' = colour_space
      BY <1>1 DEF NothingChanged, Take, NothingPending
    <3> QED
      BY <1>1, <1>2, <2>2, <3>1 DEF IsShown
  <2>5. LastDrawn => LastDrawn'
    BY <1>1, <1>2, <2>2 DEF LastDrawn, history, previews
  <2>6. ~InWork
    BY DEF Take, InWork, Rendering
  <2> QED
    BY <1>3, <2>1, <2>3, <2>4, <2>5, <2>6 DEF WillShow
<1> QED
  <2>1. \/ worker'.at = "render" /\ worker'.packet.version = Version
        \/ worker' = worker
    BY <1>0, TakeFacts
  <2> QED
    BY <1>4, <1>5, <1>6, <1>7, <2>1

\* A packet that is delivered is posted for the target, or another one is asked for, or the
\* target has moved on.
LEMMA DeliverWillShow ==
  ASSUME Inv, Turns, TargetKnown, WillShow, ~Asked, Deliver, worker.packet.version = Version
  PROVE  WillShow'
<1> DEFINE p == worker.packet
<1>0. /\ Types /\ BatchIsLast /\ p \in Packets /\ Fresh(p) /\ p.frame \in Frame
      /\ [Next]_vars /\ FinalCoversPending
  BY DEF Inv, Types, WorkerTypes, WorkerType, Deliver, PacketsAreFresh, Jobs, WorkerShape, Given,
         Next, Work
<1>1. /\ Post(p) /\ Ended("drawn", p)
      /\ UNCHANGED <<pending, subs, colour_space, subtitles_timecodes, versions, frame_n,
                     previews>>
  BY DEF Deliver, gui
<1>2. Version' = Version
  BY <1>1 DEF Version, versions
<1>3. InWork
  BY DEF InWork, Rendering, Deliver
<1>4. CASE HasFailed
  <2>1. HasFailed'
    BY <1>0, <1>4, FailedStays
  <2> QED
    BY <2>1 DEF WillShow
<1>5. CASE pending.kind = "request"
  BY <1>1, <1>5 DEF WillShow
<1>6. CASE p.frame = frame_n
  <2>1. IsVisual(p) => SinkRank <= Rank(p)
    BY DEF Turns
  <2>2. PICK i \in 1 .. Len(messages') : messages'[i].kind # "error" /\ messages'[i].packet = p
    <3> HIDE DEF p
    <3> QED
      BY <1>0, <1>1, <2>1, PostedIs
  <2>3. messages'[i].packet.version = Version' /\ messages'[i].packet.frame = frame_n'
    BY <1>1, <1>2, <1>6, <2>2
  <2>4. IsPosted'
    BY <2>2, <2>3 DEF IsPosted
  <2> QED
    BY <2>4 DEF WillShow
<1>7. CASE accept_late_preview_frames /\ p.frame # frame_n /\ ~HasFailed
  <2>1. drawn' = p /\ accept_late_preview_frames'
    BY <1>1, <1>7 DEF Ended, previews
  <2>2. Current(p.version)
    BY <1>0, VersionFresh
  <2>3. ~HasContent /\ p.lines = VisibleLines(subs, subtitles_timecodes, p.frame)
    BY <1>0, <1>7, <2>2 DEF Fresh, HasFailed, NothingChanged, IsPictureOf
  <2>4. ~HasContent'
    BY <1>1, <2>3 DEF HasContent
  <2>5. LastDrawn'
    BY <1>0, <1>1, <1>7, <2>1, <2>3, <2>4 DEF LastDrawn
  <2> QED
    BY <2>5 DEF WillShow
<1> QED
  BY <1>3, <1>4, <1>5, <1>6, <1>7 DEF TargetKnown, IsTarget

LEMMA WorkWillShow ==
  ASSUME Inv, Turns, TargetKnown, CheckUpdated, Rendered, WillShow, ~Asked, WorkStep
  PROVE  WillShow'
<1>0. /\ Types /\ [Next]_vars /\ FinalCoversPending /\ WorkerShape /\ worker.packet \in Packets
      /\ worker \in WorkerType
  BY DEF Inv, Types, Jobs, Given, WorkerTypes, WorkerType, Next, Work, WorkStep
<1>1. CASE Take
  BY <1>1, TakeWillShow
<1>2. CASE Deliver /\ worker.packet.version = Version
  BY <1>2, DeliverWillShow
<1>3. CASE DeliverError /\ worker.packet.version = Version
  <2>1. HasFailed'
    BY <1>3 DEF DeliverError, Ended, HasFailed
  <2> QED
    BY <2>1 DEF WillShow
<1>4. CASE Render
  <2>1. worker.packet.frame \in Frame /\ worker.packet.version = Version
    BY <1>0, <1>4 DEF WorkerShape, Render
  <2>2. Drawn(worker.packet, worker.packet.frame).version = worker.packet.version
    BY <1>0, <2>1, DrawnFacts DEF Types
  <2>3. worker'.at \in {"deliver", "error"} /\ worker'.packet.version = worker.packet.version
    BY <1>0, <1>4, <2>2 DEF Render, WorkerType
  <2>4. Version' = Version
    BY <1>4 DEF Render, Version, versions
  <2>5. InWork'
    BY <2>1, <2>3, <2>4 DEF InWork, Rendering
  <2> QED
    BY <2>5 DEF WillShow
<1>5. CASE \/ StartJob \/ TakeNothing \/ SkipStale \/ PrefetchOne \/ PrefetchRepost
           \/ PrefetchFails
           \/ ((Deliver \/ DeliverError) /\ worker.packet.version # Version)
  <2>1. /\ UNCHANGED <<pending, subs, colour_space, subtitles_timecodes, displayed, messages,
                       versions, history, frame_n, previews, todo, visual>>
    BY <1>5 DEF StartJob, TakeNothing, SkipStale, PrefetchOne, PrefetchRepost, PrefetchFails,
                Deliver, DeliverError, gui, renderer, host
  <2>2. ~InWork
    BY <1>5, IdleFacts DEF StartJob, TakeNothing, SkipStale, PrefetchOne, PrefetchRepost,
                PrefetchFails, InWork, Rendering
  <2>3. (GivesContent => GivesContent') /\ (ToLoad => ToLoad')
    BY <2>1 DEF GivesContent, ToLoad
  <2> QED
    BY <2>1, <2>2, <2>3, WillShowStays
<1> QED
  BY <1>1, <1>2, <1>3, <1>4, <1>5 DEF WorkStep

\* Who asked for a frame has requested it, or has been given it.
LEMMA AskedWillShow ==
  ASSUME Inv, Asked, [Next]_vars
  PROVE  WillShow'
<1>0. Types /\ RendererIsLoaded /\ WorkerShape /\ FinalCoversPending
  BY DEF Inv, Jobs, Given
<1>1. CASE CallRequest
  <2>1. pending'.kind = "request"
    BY <1>0, <1>1, PendingFacts DEF CallRequest, PendingType, Types
  <2> QED
    BY <2>1 DEF WillShow
<1>2. CASE FinishRender /\ HasFailed
  <2>1. HasFailed'
    BY <1>0, <1>2, FailedStays
  <2> QED
    BY <2>1 DEF WillShow
<1>3. CASE FinishRender /\ ~HasFailed
  <2> DEFINE p == [NoPacket EXCEPT !.version = Version]
             d == Drawn(p, frame_n)
  <2>0. /\ UNCHANGED <<pending, subs, colour_space, subtitles_timecodes, frame_n>>
        /\ worker.at = "finish"
    BY <1>3 DEF FinishRender
  <2>1. CASE \/ VideoFails(frame_n) /\ Ended("failed", drawn)
             \/ SubtitlesFail(frame_n) /\ Ended("unloaded", drawn)
    BY <1>3, <2>1 DEF Ended, HasFailed, WillShow
  <2>2. CASE displayed' = d
    <3>1. p \in Packets /\ frame_n \in Frame
      BY <1>0, NoPacketType, VersionType DEF Types, GuiTypes, Packets
    <3> HIDE DEF p
    <3>2. IsPictureOf(d, subs, colour_space, subtitles_timecodes) /\ d.frame = frame_n
      BY <1>0, <1>3, <3>1, DrawnIsPicture, DrawnFacts DEF Types, HasFailed
    <3> HIDE DEF d
    <3>3. NothingChanged'
      BY <1>0, <2>0 DEF WorkerShape, NothingToTake, NothingChanged, HasContent
    <3>4. IsShown'
      BY <2>0, <2>2, <3>2, <3>3 DEF IsShown, IsPictureOf
    <3> QED
      BY <3>4 DEF WillShow
  <2>3. \/ displayed' = d
        \/ VideoFails(frame_n) /\ Ended("failed", drawn)
        \/ SubtitlesFail(frame_n) /\ Ended("unloaded", drawn)
    BY <1>3 DEF FinishRender, Show
  <2> HIDE DEF d
  <2> QED
    BY <2>1, <2>2, <2>3
<1>4. CASE Asked'
  BY <1>4 DEF WillShow
<1> QED
  BY <1>1, <1>2, <1>3, <1>4, AskedStays

LEMMA WillShowKept ==
  ASSUME Inv, Inv', Shows, [Next]_vars
  PROVE  WillShow'
<1>0. /\ VisualShape /\ CallsAsk /\ CallsFit /\ Turns /\ TargetKnown /\ CheckUpdated /\ Rendered
      /\ WillShow /\ FinalCoversPending
  BY DEF Shows, Inv, Given
<1>1. CASE Asked
  BY <1>1, AskedWillShow
<1>2. CASE ~Asked
  <2>1. CASE CallLoad \/ CallSetColorSpace \/ CallSchedule
             \/ \E known \in BOOLEAN : CallUpdate(known)
    BY <1>0, <1>2, <2>1, CallWillShow
  <2>2. CASE HandlerAsks
    BY <1>0, <1>2, <2>2, HandlerWillShow
  <2>3. CASE \E p \in recent_render_packets : JumpToRecentFrame(p)
    BY <1>0, <2>3, JumpWillShow
  <2>4. CASE Receive
    BY <1>0, <1>2, <2>4, ReceiveWillShow
  <2>5. CASE WorkStep
    BY <1>0, <1>2, <2>5, WorkWillShow
  <2>6. CASE PrefetchFrames \/ CancelFramePrefetch \/ UNCHANGED vars
    <3>1. /\ UNCHANGED <<pending, subs, colour_space, subtitles_timecodes, displayed, messages,
                         versions, history, frame_n, previews, todo, visual>>
          /\ worker' = worker
      BY <2>6 DEF PrefetchFrames, CancelFramePrefetch, vars, gui, Elsewhere, renderer, host
    <3>2. (GivesContent => GivesContent') /\ (ToLoad => ToLoad')
      BY <3>1 DEF GivesContent, ToLoad
    <3> QED
      BY <1>0, <1>2, <3>1, <3>2, StillInWork, WillShowStays
  <2> QED
    BY <1>0, <1>2, <2>1, <2>2, <2>3, <2>4, <2>5, <2>6, NobodyAsks
<1> QED
  BY <1>1, <1>2
-----------------------------------------------------------------------------
(***************************************************************************)
(* All of it, over every step                                              *)
(***************************************************************************)
LEMMA ShowsInit == Init => Shows
<1> SUFFICES ASSUME Init
             PROVE  Shows
  OBVIOUS
<1>0. Inv /\ Types
  BY InvInit DEF Inv
<1>1. /\ todo # <<>> /\ Len(todo) = 1 /\ todo[1].call = "request" /\ todo[1].frame = 1
      /\ todo[1].options = EveryFrame
  <2> DEFINE x == Request(1, TRUE)
  <2>1. x.call = "request" /\ x.frame = 1 /\ x.options = EveryFrame
    BY DEF Request, Call
  <2>2. todo = <<x>>
    BY DEF Init
  <2> HIDE DEF x
  <2> QED
    BY <2>1, <2>2
<1>2. /\ worker = Idle /\ queue = <<>> /\ pending = NothingPending /\ visual = NoVisual
      /\ frame_n = 1 /\ sink = NoBatch /\ ~processing_scheduled /\ last_rendered = None
      /\ request_version = 0
  BY DEF Init
<1>3. Asked
  BY <1>1 DEF Asked, Names
<1>4. /\ ~Rendering /\ worker.job = "none" /\ worker.packet.version.request = 0
      /\ ~IsVisual(worker.packet) /\ ~IsVisual(pending.options) /\ ~IsVisual(EveryFrame)
  BY <1>2, RankFacts DEF Rendering, Idle, NoPacket, NoVersion, NothingPending
<1>5. CallsAsk
  <2>1. Asking(todo)
    BY <1>1 DEF Asking
  <2> QED
    BY <2>1 DEF CallsAsk
<1>6. CallsFit
  BY <1>1, <1>2 DEF CallsFit, FirstColour, Names
<1>7. VisualShape
  BY <1>2 DEF VisualShape, ToLoad, Changing, NoVisual, NoUpdate
<1>8. Turns
  <2>1. SinkRank = 0 /\ VisualRank = 1
    BY <1>2 DEF SinkRank, VisualRank, NoBatch, NoVisual
  <2>2. After(0) /\ OneVisualCall
    BY <1>1, <1>4, <2>1 DEF After, OneVisualCall
  <2> QED
    BY <1>4, <2>1, <2>2 DEF Turns, AfterPending
<1>9. Scheduled
  <2>1. NothingToTake
    BY <1>2 DEF NothingToTake, HasContent, NothingPending
  <2> QED
    BY <1>2, <2>1 DEF Scheduled
<1>10. TargetKnown /\ RequestIssued /\ CheckUpdated /\ Rendered /\ WillShow
  BY <1>2, <1>3, <1>4 DEF TargetKnown, InWork, RequestIssued, CheckUpdated, NothingPending,
                          Rendered, WillShow
<1> QED
  BY <1>5, <1>6, <1>7, <1>8, <1>9, <1>10 DEF Shows

LEMMA ShowsNext ==
  ASSUME Inv, Inv', Shows, [Next]_vars
  PROVE  Shows'
<1>1. /\ CallsAsk /\ CallsFit /\ VisualShape /\ Turns /\ Scheduled /\ TargetKnown
      /\ RequestIssued /\ CheckUpdated /\ Rendered
  BY DEF Shows
<1>2. CallsAsk' /\ CallsFit' /\ VisualShape'
  BY <1>1, CallsAskKept, CallsFitKept, VisualShapeKept
<1>3. Turns'
  BY <1>1, TurnsKept
<1>4. Scheduled'
  BY <1>1, ScheduledKept
<1>5. TargetKnown'
  BY <1>1, TargetKnownKept
<1>6. RequestIssued' /\ CheckUpdated' /\ Rendered'
  BY <1>1, RequestIssuedKept, CheckUpdatedKept, RenderedKept
<1>7. WillShow'
  BY WillShowKept
<1> QED
  BY <1>2, <1>3, <1>4, <1>5, <1>6, <1>7 DEF Shows

\* At rest nobody is left who would show something, so it is shown.
LEMMA RestShows ==
  ASSUME Inv, Shows
  PROVE  SettlesOnDocument
<1> SUFFICES ASSUME Settled, ~HasFailed
             PROVE  \/ /\ displayed.frame = frame_n
                       /\ IsPictureOf(displayed, doc, color_matrix, timecodes)
                    \/ /\ \/ outcome = "skipped"
                          \/ accept_late_preview_frames /\ drawn.frame # frame_n
                       /\ drawn.frame \in Frame
                       /\ drawn.lines = VisibleLines(doc, timecodes, drawn.frame)
  BY DEF SettlesOnDocument
<1>1. /\ Types /\ Given /\ todo = <<>> /\ queue = <<>> /\ worker = Idle /\ messages = <<>>
      /\ ~visual.active /\ Len(todo) = 0 /\ Len(queue) = 0 /\ Len(messages) = 0
  BY EmptySeq DEF Inv, Settled
<1>2. worker.job = "none" /\ worker.at = "idle"
  BY <1>1, IdleFacts
<1>3. /\ \A calling : ~Names(calling, todo)
      /\ \A job \in SyncJobs : ~Outstanding(job)
  BY <1>1, <1>2 DEF Names, Outstanding, SyncJobs
<1>4. ~Asked /\ ~GivesContent /\ ~InWork /\ ~IsPosted
  BY <1>1, <1>2, <1>3 DEF Asked, GivesContent, InWork, Rendering, IsPosted, SyncJobs
<1>5. NothingToTake
  BY <1>1, <1>2, <1>3 DEF Shows, Scheduled, Rendering
<1>6. NothingChanged /\ ~HasContent /\ pending.kind # "request"
  BY <1>5 DEF NothingToTake, NothingChanged
<1>7. visual.pending = NoUpdate /\ ~ToLoad
  <2>1. visual.pending.mode = "none" /\ visual.pending \in Update
    BY <1>1, VisualFacts DEF Shows, VisualShape, Types, GuiTypes, Update
  <2> QED
    BY <2>1 DEF Update, NoUpdate, ToLoad
<1>8. subs = doc /\ colour_space = color_matrix /\ subtitles_timecodes = timecodes
  BY <1>1, <1>3, <1>6, <1>7, WorkerHasDocument DEF SyncJobs
<1>9. IsShown \/ LastDrawn
  BY <1>4, <1>6, <1>7 DEF Shows, WillShow
<1> QED
  BY <1>8, <1>9 DEF IsShown, LastDrawn

\* When everything has settled, the display shows the document on the frame asked for, or
\* rendering has failed, or the worker posted the document's lines last and the update was
\* skipped or a preview's packet was no longer accepted.
THEOREM SettlesShown == Spec => []SettlesOnDocument
<1>1. Inv /\ Inv' /\ Shows /\ [Next]_vars => Shows'
  BY ShowsNext
<1>2. Inv /\ Shows => SettlesOnDocument
  BY RestShows
<1> QED
  BY <1>1, <1>2, ShowsInit, Invariant, PTL DEF Spec
=============================================================================
