------------------------- MODULE VideoProviderProofs -------------------------
(***************************************************************************)
(* Theorems about VideoProvider, for any document, timecodes, colours,     *)
(* number of frames and bounds: what is shown is the document as the       *)
(* provider was last given it, packets come in order, a destroyed provider *)
(* is at rest, and there is one prefetch chain.                            *)
(***************************************************************************)
EXTENDS VideoProvider, FiniteSetTheorems, SequenceTheorems, TLAPS

(***************************************************************************)
(* The types                                                               *)
(***************************************************************************)
Options == [class : {"every", "intermediate", "final"}, id : Nat, force : BOOLEAN]
CallName == {"load", "update", "request", "cancel", "colour", "schedule", "render", "timecodes",
             "replace", "close", "open", "wait"}
CallRecord == [call : CallName, frame : Frame \cup {None}, lines : SUBSET Line,
               supersede : BOOLEAN, options : Options]
Update == {u \in [mode : {"none", "load", "update"}, lines : SUBSET Line] :
              u.mode = "none" => u.lines = {}}
Job == SyncJobs \cup {"process", "prefetch"}
Message == [kind : {"frame", "batch", "error"}, packet : Packets]

PendingType == [subs : Document \cup {None}, changed : Lines, check_updated : BOOLEAN,
                options : Options, kind : {"none", "context", "request"},
                frame : Frame \cup {None}, colour : Colour \cup {None}]
PrefetchType == [next : Nat, end : Nat, request : Nat, content : Nat,
                 scheduled : BOOLEAN, shutdown : BOOLEAN]
Stage == {"idle", "take", "render", "deliver", "error", "finish", "prefetch", "repost"}
WorkerType == [job : Job \cup {"none"}, packet : Packets, at : Stage]
SourceType == [frame : Frame \cup {None}, colour : Colour \cup {None}]

GuiTypes ==
    /\ doc \in Document /\ color_matrix \in Colour /\ timecodes \in Timecodes
    /\ frame_n \in Frame /\ accept_late_preview_frames \in BOOLEAN
    /\ acceptable_late_preview_frames \subseteq Frame
    /\ recent_render_packets \subseteq Packets /\ displayed \in Packets
    /\ \A p \in recent_render_packets : p.frame \in Frame
    /\ visual \in [active : BOOLEAN, id : Nat, pending : Update, final : Update]
    /\ messages \in Seq(Message)
    /\ sink \in [open : BOOLEAN, id : Nat, final : BOOLEAN]
TodoTypes == todo \in Seq(CallRecord)
ProviderTypes ==
    /\ content_version \in Nat /\ request_version \in Nat /\ provider_version \in Nat \ {0}
    /\ pending \in PendingType
    /\ pending.kind # "none" <=> pending.frame \in Frame
    /\ processing_scheduled \in BOOLEAN
    /\ prefetch \in PrefetchType
    /\ queue \in Seq(Job)
WorkerTypes ==
    /\ worker \in WorkerType
    /\ subs \in Document \cup {None} /\ colour_space \in Colour
    /\ subtitles_timecodes \in Timecodes /\ frame_number \in Frame \cup {None}
    /\ single_frame \in {NEW_SUBS_FILE, SUBS_FILE_ALREADY_LOADED} \cup Frame
    /\ loaded \in Lines /\ last_lines \in Lines /\ last_rendered \in Frame \cup {None}
    /\ cached_source \in SourceType
    /\ outcome \in {"none", "drawn", "skipped", "failed", "unloaded"} /\ drawn \in Packets
Types == GuiTypes /\ TodoTypes /\ ProviderTypes /\ WorkerTypes

(***************************************************************************)
(* The worker's jobs, and the GUI thread that waits for one                *)
(***************************************************************************)
\* What the worker does is of its job, and it finishes when nothing is left to take.
WorkerShape ==
    /\ worker.at = "idle" <=> worker.job = "none"
    /\ worker.at \in {"prefetch", "repost"} <=> worker.job = "prefetch"
    /\ worker.at = "finish" => worker.job \in SyncJobs /\ NothingToTake
    /\ worker.at \in {"render", "deliver", "error"} =>
          worker.packet.frame \in Frame /\ worker.packet.frame = frame_number
    /\ worker.at \notin {"render", "deliver", "error"} => worker.packet = NoPacket

\* There is one job to wait for, and only while the GUI thread waits.
SyncIsAwaited ==
    /\ worker.job \in SyncJobs =>
          Calling("wait") /\ \A i \in 1 .. Len(queue) : queue[i] \notin SyncJobs
    /\ \A i \in 1 .. Len(queue) : queue[i] \in SyncJobs =>
          Calling("wait") /\ \A j \in 1 .. Len(queue) : queue[j] \in SyncJobs => i = j

Outstanding(job) == worker.job = job \/ \E i \in 1 .. Len(queue) : queue[i] = job

\* The job that closes a provider is the last.
Closing ==
    /\ prefetch.shutdown
    /\ \/ worker.job = "close" /\ queue = <<>>
       \/ queue # <<>> /\ queue[Len(queue)] = "close"

\* The calls of a handler: a wait comes first, a provider is opened after the old one was
\* closed, and loaded after that; a synchronous frame is the last.
TodoShape ==
    \A i \in 1 .. Len(todo) :
        /\ todo[i].call = "request" => todo[i].frame \in Frame
        /\ todo[i].call = "wait" => i = 1
        /\ todo[i].call = "render" => i = Len(todo)
        /\ todo[i].call = "close" => i = 1 /\ 2 <= Len(todo) /\ todo[2].call = "open"
        /\ todo[i].call = "open" =>
              /\ \E j \in i + 1 .. Len(todo) : todo[j].call = "load"
              /\ \/ i = 1 /\ queue = <<>> /\ worker = Idle
                 \/ i = 2 /\ todo[1].call = "close"
                 \/ i = 2 /\ todo[1].call = "wait" /\ Closing
RenderIsLast == Outstanding("render") => Len(todo) = 1

\* One link of the prefetch chain, in the queue or running, and none when none is scheduled.
OneLink ==
    /\ worker.job = "prefetch" =>
          prefetch.scheduled /\ \A i \in 1 .. Len(queue) : queue[i] # "prefetch"
    /\ \A i \in 1 .. Len(queue) : queue[i] = "prefetch" =>
          prefetch.scheduled /\ \A j \in 1 .. Len(queue) : queue[j] = "prefetch" => i = j

Jobs == WorkerShape /\ SyncIsAwaited /\ TodoShape /\ RenderIsLast /\ OneLink

(***************************************************************************)
(* What the renderer has loaded                                            *)
(***************************************************************************)
RendererIsLoaded ==
    /\ subs = None => single_frame = NEW_SUBS_FILE
    /\ cached_source.frame # None => cached_source.colour = colour_space
    /\ outcome # "unloaded" =>
          /\ single_frame \in Frame =>
                loaded = VisibleLines(subs, subtitles_timecodes, single_frame)
          /\ single_frame = SUBS_FILE_ALREADY_LOADED => loaded = subs

(***************************************************************************)
(* Packets: a version is not ahead of the provider's, and what is current  *)
(* is a picture of the worker's subtitles, which nothing pending changes.  *)
(***************************************************************************)
Issued(v) ==
    /\ v.provider <= provider_version
    /\ v.provider = provider_version => v.content <= content_version
Current(v) == v.provider = provider_version /\ v.content = content_version
NothingChanged == ~HasContent /\ pending.colour = None
Fresh(packet) ==
    /\ Issued(packet.version)
    /\ Current(packet.version) /\ outcome # "unloaded" =>
          /\ NothingChanged
          /\ IsPictureOf(packet, subs, colour_space, subtitles_timecodes)
PacketsAreFresh ==
    /\ \A i \in 1 .. Len(messages) : messages[i].kind # "error" => Fresh(messages[i].packet)
    /\ \A p \in recent_render_packets : Fresh(p)
    /\ Issued(worker.packet.version)
    /\ Current(worker.packet.version) => NothingChanged
    /\ worker.at = "deliver" => Fresh(worker.packet)

\* The open batch is the last message but for errors.
BatchIsLast ==
    sink.open =>
        \E i \in 1 .. Len(messages) :
            /\ messages[i].kind = "batch"
            /\ \A j \in i + 1 .. Len(messages) : messages[j].kind = "error"

(***************************************************************************)
(* What the provider was given is the document, but for the calls still to *)
(* make and an interaction that waits for its timer.                       *)
(***************************************************************************)
Names(calling, s) == \E i \in 1 .. Len(s) : s[i].call = calling
Covers(s, l) ==
    \E i \in 1 .. Len(s) : s[i].call = "load" \/ (s[i].call = "update" /\ l \in s[i].lines)
Awaits(u, l) == u.mode = "load" \/ (u.mode = "update" /\ l \in u.lines)
DocumentIsGiven ==
    /\ TakenSubs # None \/ Names("load", todo)
    /\ \A l \in Line : \/ Covers(todo, l)
                       \/ Awaits(visual.pending, l)
                       \/ TakenSubs # None /\ TakenSubs[l] = doc[l]
ColourIsGiven ==
    \/ Names("colour", todo) \/ Names("open", todo)
    \/ color_matrix = IF pending.colour = None THEN colour_space ELSE pending.colour
TimecodesAreGiven ==
    \/ Names("timecodes", todo) \/ Names("open", todo) \/ Outstanding("timecodes")
    \/ subtitles_timecodes = timecodes
FinalCoversPending ==
    \A l \in Line : Awaits(visual.pending, l) => visual.active /\ Awaits(visual.final, l)
Given == DocumentIsGiven /\ ColourIsGiven /\ TimecodesAreGiven /\ FinalCoversPending

Inv == Types /\ Jobs /\ RendererIsLoaded /\ PacketsAreFresh /\ BatchIsLast /\ Given
-----------------------------------------------------------------------------
(***************************************************************************)
(* Data: documents, calls and packets                                      *)
(***************************************************************************)
\* A set of lines with their texts.
LEMMA LinesDef == \A d : d \in Lines <=> DOMAIN d \subseteq Line /\ d \in [DOMAIN d -> Text]
BY DEF Lines

\* What is absent is not a document, nor a part of one.
LEMMA NoneIsNot == None \notin Frame /\ None \notin Colour /\ None \notin Lines
                   /\ None \notin Document
<1>1. Document \subseteq Lines
  BY LinesDef DEF Document
<1> QED
  BY <1>1, VideoAssumption DEF Lines

\* Documents are sets of lines, and so is the empty one.
LEMMA DocumentLines == Document \subseteq Lines /\ NoLines \in Lines /\ DOMAIN NoLines = {}
BY LinesDef DEF Document, NoLines

\* The visible lines of a document, or of a part of it, with their texts.
LEMMA VisibleFacts ==
  ASSUME NEW d \in Lines \cup {None}, NEW tc \in Timecodes, NEW f \in Frame
  PROVE  /\ VisibleLines(d, tc, f) \in Lines
         /\ VisibleLines(VisibleLines(d, tc, f), tc, f) = VisibleLines(d, tc, f)
<1>1. VisibleAt[tc][f] \subseteq Line
  BY VideoAssumption
<1>2. CASE d = None
  <2>1. VisibleLines(d, tc, f) = NoLines
    BY <1>2 DEF VisibleLines
  <2>2. VisibleLines(NoLines, tc, f) = NoLines
    BY NoneIsNot, DocumentLines DEF VisibleLines, Restrict, NoLines
  <2> QED
    BY <2>1, <2>2, DocumentLines
<1>3. CASE d # None
  <2> DEFINE S == VisibleAt[tc][f] \cap DOMAIN d
  <2>1. VisibleLines(d, tc, f) = [x \in S |-> d[x]]
    BY <1>3 DEF VisibleLines, Restrict
  <2>2. [x \in S |-> d[x]] \in Lines
    BY <1>1, <1>3, LinesDef
  <2>3. VisibleLines([x \in S |-> d[x]], tc, f) = [x \in S |-> d[x]]
    BY <2>2, NoneIsNot DEF VisibleLines, Restrict
  <2> QED
    BY <2>1, <2>2, <2>3
<1> QED
  BY <1>2, <1>3

\* A document with some lines changed.
LEMMA OverrideFacts ==
  ASSUME NEW c \in Lines, NEW d \in Document
  PROVE  /\ Override(d, c) \in Document
         /\ \A l \in Line : Override(d, c)[l] = IF l \in DOMAIN c THEN c[l] ELSE d[l]
BY LinesDef DEF Document, Override

\* Changes on top of changes.
LEMMA OverrideLines ==
  ASSUME NEW c \in Lines, NEW d \in Lines
  PROVE  /\ Override(d, c) \in Lines /\ DOMAIN Override(d, c) = DOMAIN c \cup DOMAIN d
         /\ \A l \in DOMAIN c : Override(d, c)[l] = c[l]
         /\ \A l \in DOMAIN d \ DOMAIN c : Override(d, c)[l] = d[l]
BY LinesDef DEF Override

\* Without changes the document stays.
LEMMA OverrideNothing == \A d \in Document : Override(d, NoLines) = d
BY DocumentLines, OverrideFacts DEF Document, NoLines

\* Some lines of a document.
LEMMA RestrictFacts ==
  ASSUME NEW d \in Document, NEW ls \in SUBSET Line
  PROVE  /\ Restrict(d, ls) \in Lines /\ DOMAIN Restrict(d, ls) = ls
         /\ \A l \in ls : Restrict(d, ls)[l] = d[l]
BY LinesDef DEF Document, Restrict

\* The options of an update.
LEMMA OptionsFacts ==
  /\ EveryFrame \in Options
  /\ \A id \in Nat : Intermediate(id) \in Options /\ Final(id) \in Options
  /\ \A old \in Options, new \in Options : MergeSubtitleUpdateOptions(old, new) \in Options
BY DEF Options, EveryFrame, Intermediate, Final, MergeSubtitleUpdateOptions

\* A call with its arguments.
LEMMA CallFacts ==
  /\ \A calling \in CallName : Call(calling) \in CallRecord /\ Call(calling).call = calling
  /\ \A o \in Options : LoadSubtitles(o) \in CallRecord /\ LoadSubtitles(o).call = "load"
  /\ \A ls \in SUBSET Line, o \in Options :
        /\ UpdateSubtitles(ls, o) \in CallRecord /\ UpdateSubtitles(ls, o).call = "update"
        /\ UpdateSubtitles(ls, o).lines = ls
  /\ \A f \in Frame, supersede \in BOOLEAN :
        /\ Request(f, supersede) \in CallRecord /\ Request(f, supersede).call = "request"
        /\ Request(f, supersede).frame = f
  /\ Schedule \in CallRecord /\ Schedule.call = "schedule"
BY OptionsFacts DEF CallRecord, Call, LoadSubtitles, UpdateSubtitles, Request, Schedule, CallName

\* The fields of a packet.
LEMMA PacketFields ==
  ASSUME NEW p \in Packets
  PROVE  /\ p = [frame |-> p.frame, lines |-> p.lines, colour |-> p.colour,
                 version |-> p.version, class |-> p.class, id |-> p.id]
         /\ p.frame \in Frame \cup {None} /\ p.lines \in Lines
         /\ p.colour \in Colour \cup {None}
         /\ p.version \in [provider : Nat, content : Nat, request : Nat]
         /\ p.class \in {"every", "intermediate", "final"} /\ p.id \in Nat
BY DEF Packets

\* A packet, by its fields.
LEMMA PacketOf ==
  ASSUME NEW f \in Frame \cup {None}, NEW ls \in Lines, NEW c \in Colour \cup {None},
         NEW v \in [provider : Nat, content : Nat, request : Nat],
         NEW class \in {"every", "intermediate", "final"}, NEW id \in Nat
  PROVE  [frame |-> f, lines |-> ls, colour |-> c, version |-> v, class |-> class, id |-> id]
            \in Packets
BY DEF Packets

\* No packet is a packet of no frame.
LEMMA NoPacketType == NoPacket \in Packets /\ NoPacket.version.provider = 0
BY DocumentLines DEF NoPacket, Packets, NoVersion
-----------------------------------------------------------------------------
(***************************************************************************)
(* The calls a handler makes                                               *)
(***************************************************************************)
\* Calls none of which ends a provider or waits for a job.
Plain(s) ==
    /\ s \in Seq(CallRecord)
    /\ \A i \in 1 .. Len(s) : /\ s[i].call \notin {"open", "close", "wait", "render"}
                              /\ s[i].call = "request" => s[i].frame \in Frame
\* The calls of a handler when it starts.
Fits(s) ==
    /\ s \in Seq(CallRecord)
    /\ \A i \in 1 .. Len(s) :
          /\ s[i].call = "request" => s[i].frame \in Frame
          /\ s[i].call # "wait"
          /\ s[i].call = "render" => i = Len(s)
          /\ s[i].call = "close" => i = 1 /\ 2 <= Len(s) /\ s[2].call = "open"
          /\ s[i].call = "open" =>
                /\ \E j \in i + 1 .. Len(s) : s[j].call = "load"
                /\ i = 2 /\ s[1].call = "close"

\* Sequences of plain calls may follow each other.
LEMMA PlainConcat ==
  ASSUME NEW s, NEW t, Plain(s), Plain(t)
  PROVE  Plain(s \o t)
<1>1. /\ s \o t \in Seq(CallRecord) /\ Len(s) \in Nat /\ Len(t) \in Nat
      /\ Len(s \o t) = Len(s) + Len(t)
      /\ \A i \in 1 .. Len(s) + Len(t) :
            (s \o t)[i] = IF i <= Len(s) THEN s[i] ELSE t[i - Len(s)]
  BY ConcatProperties, LenProperties DEF Plain
<1> SUFFICES ASSUME NEW i \in 1 .. Len(s \o t)
             PROVE  /\ (s \o t)[i].call \notin {"open", "close", "wait", "render"}
                    /\ (s \o t)[i].call = "request" => (s \o t)[i].frame \in Frame
  BY <1>1 DEF Plain
<1>2. CASE i <= Len(s)
  BY <1>1, <1>2 DEF Plain
<1>3. CASE ~(i <= Len(s))
  <2>1. i - Len(s) \in 1 .. Len(t)
    BY <1>1, <1>3
  <2> QED
    BY <1>1, <1>3, <2>1 DEF Plain
<1> QED
  BY <1>2, <1>3

\* No call, and one call.
LEMMA PlainOne ==
  /\ Plain(<<>>)
  /\ \A x \in CallRecord :
        /\ x.call \notin {"open", "close", "wait", "render"}
        /\ x.call = "request" => x.frame \in Frame
        => Plain(<<x>>)
BY DEF Plain

\* What is covered stays so whatever comes before or after.
LEMMA CoversConcat ==
  ASSUME NEW s \in Seq(CallRecord), NEW t \in Seq(CallRecord), NEW l,
         Covers(s, l) \/ Covers(t, l)
  PROVE  Covers(s \o t, l)
<1>1. /\ Len(s) \in Nat /\ Len(t) \in Nat /\ Len(s \o t) = Len(s) + Len(t)
      /\ \A i \in 1 .. Len(s) + Len(t) :
            (s \o t)[i] = IF i <= Len(s) THEN s[i] ELSE t[i - Len(s)]
  BY ConcatProperties, LenProperties
<1>2. CASE Covers(s, l)
  <2>1. PICK i \in 1 .. Len(s) :
           s[i].call = "load" \/ (s[i].call = "update" /\ l \in s[i].lines)
    BY <1>2 DEF Covers
  <2>2. i \in 1 .. Len(s \o t) /\ (s \o t)[i] = s[i]
    BY <1>1
  <2> QED
    BY <2>1, <2>2 DEF Covers
<1>3. CASE Covers(t, l)
  <2>1. PICK i \in 1 .. Len(t) :
           t[i].call = "load" \/ (t[i].call = "update" /\ l \in t[i].lines)
    BY <1>3 DEF Covers
  <2>2. i + Len(s) \in 1 .. Len(s \o t) /\ (s \o t)[i + Len(s)] = t[i]
    BY <1>1
  <2> QED
    BY <2>1, <2>2 DEF Covers
<1> QED
  BY <1>2, <1>3

\* A subtitle update is submitted in a plain call, which covers what it awaits.
LEMMA SubmitFacts ==
  ASSUME NEW u \in Update, NEW o \in Options
  PROVE  /\ Plain(SubmitSubtitleUpdate(u, o))
         /\ \A l : Awaits(u, l) => Covers(SubmitSubtitleUpdate(u, o), l)
<1>1. u.mode \in {"none", "load", "update"} /\ u.lines \in SUBSET Line
  BY DEF Update
<1>2. CASE u.mode = "none"
  BY <1>2, PlainOne DEF SubmitSubtitleUpdate, Awaits
<1>3. CASE u.mode = "load"
  <2>1. SubmitSubtitleUpdate(u, o) = <<LoadSubtitles(o)>>
    BY <1>3 DEF SubmitSubtitleUpdate
  <2>2. LoadSubtitles(o) \in CallRecord /\ LoadSubtitles(o).call = "load"
    BY CallFacts
  <2>3. \A l : Covers(<<LoadSubtitles(o)>>, l)
    BY <2>2 DEF Covers
  <2> QED
    BY <2>1, <2>2, <2>3, PlainOne
<1>4. CASE u.mode = "update"
  <2> DEFINE x == UpdateSubtitles(u.lines, o)
  <2>1. SubmitSubtitleUpdate(u, o) = <<x>>
    BY <1>4 DEF SubmitSubtitleUpdate
  <2>2. x \in CallRecord /\ x.call = "update" /\ x.lines = u.lines
    BY <1>1, CallFacts
  <2> HIDE DEF x
  <2>3. \A l \in u.lines : Covers(<<x>>, l)
    BY <2>2 DEF Covers
  <2> QED
    BY <1>4, <2>1, <2>2, <2>3, PlainOne DEF Awaits
<1> QED
  BY <1>1, <1>2, <1>3, <1>4

\* Merged updates await what either does.
LEMMA AddFacts ==
  ASSUME NEW u \in Update, NEW mode \in {"load", "update"}, NEW ls \in SUBSET Line
  PROVE  /\ AddSubtitleCommit(u, mode, ls) \in Update
         /\ \A l : Awaits(u, l) \/ Awaits([mode |-> mode, lines |-> ls], l) =>
                      Awaits(AddSubtitleCommit(u, mode, ls), l)
         /\ NoUpdate \in Update /\ \A l : ~Awaits(NoUpdate, l)
BY DEF AddSubtitleCommit, Update, Awaits, NoUpdate

\* Plain calls make a handler.
LEMMA PlainFits == \A s : Plain(s) => Fits(s)
BY DEF Plain, Fits

\* So they do with a synchronous frame at the end.
LEMMA RenderFits ==
  ASSUME NEW s, Plain(s)
  PROVE  Fits(s \o <<Call("cancel"), Call("render")>>)
<1> DEFINE t == <<Call("cancel"), Call("render")>>
<1>1. /\ Call("cancel") \in CallRecord /\ Call("cancel").call = "cancel"
      /\ Call("render") \in CallRecord /\ Call("render").call = "render"
  BY DEF Call, CallRecord, CallName, EveryFrame, Options
<1>2. t \in Seq(CallRecord) /\ Len(t) = 2 /\ t[1].call = "cancel" /\ t[2].call = "render"
  BY <1>1
<1> HIDE DEF t
<1>3. /\ s \o t \in Seq(CallRecord) /\ Len(s) \in Nat /\ Len(s \o t) = Len(s) + 2
      /\ \A i \in 1 .. Len(s) + 2 :
            (s \o t)[i] = IF i <= Len(s) THEN s[i] ELSE t[i - Len(s)]
  <2>1. s \in Seq(CallRecord)
    BY DEF Plain
  <2>2. /\ s \o t \in Seq(CallRecord) /\ Len(s \o t) = Len(s) + Len(t)
        /\ \A i \in 1 .. Len(s) + Len(t) :
              (s \o t)[i] = IF i <= Len(s) THEN s[i] ELSE t[i - Len(s)]
    BY <1>2, <2>1, ConcatProperties
  <2>3. Len(s) \in Nat
    BY <2>1, LenProperties
  <2> QED
    BY <1>2, <2>2, <2>3
<1>4. \A i \in 1 .. Len(s) + 2 : \/ i <= Len(s) /\ (s \o t)[i] = s[i]
                                 \/ i = Len(s) + 1 /\ (s \o t)[i] = t[1]
                                 \/ i = Len(s) + 2 /\ (s \o t)[i] = t[2]
  BY <1>3
<1>5. \A i \in 1 .. Len(s) : s[i].call \notin {"open", "close", "wait", "render"}
  BY DEF Plain
<1>6. \A i \in 1 .. Len(s \o t) :
         /\ (s \o t)[i].call \notin {"open", "close", "wait"}
         /\ (s \o t)[i].call = "render" => i = Len(s \o t)
         /\ (s \o t)[i].call = "request" => (s \o t)[i].frame \in Frame
  BY <1>2, <1>3, <1>4, <1>5 DEF Plain
<1> QED
  BY <1>3, <1>6 DEF Fits, t
-----------------------------------------------------------------------------
(***************************************************************************)
(* The handlers of the user: none touches the provider itself, and what    *)
(* they change is given to it by the calls they make, or awaited by the    *)
(* interaction.                                                            *)
(***************************************************************************)
HandlerStep ==
    /\ todo = <<>> /\ Fits(todo')
    /\ GuiTypes'
    /\ UNCHANGED <<Elsewhere, prefetch, displayed>>
    /\ recent_render_packets' \subseteq recent_render_packets
    /\ \A l \in Line : Awaits(visual.pending, l) \/ doc'[l] # doc[l] =>
                          Covers(todo', l) \/ Awaits(visual'.pending, l)
    /\ \A l \in Line : Awaits(visual'.pending, l) => visual'.active /\ Awaits(visual'.final, l)
    /\ color_matrix' = color_matrix \/ Names("colour", todo')
    /\ timecodes' = timecodes \/ Names("timecodes", todo')

\* The parts of the interaction.
LEMMA VisualFacts ==
  ASSUME GuiTypes
  PROVE  /\ visual.active \in BOOLEAN /\ visual.id \in Nat
         /\ visual.pending \in Update /\ visual.final \in Update
         /\ NoVisual \in [active : BOOLEAN, id : Nat, pending : Update, final : Update]
         /\ NoVisual.pending = NoUpdate /\ NoVisual.final = NoUpdate
         /\ \A u \in Update :
               [visual EXCEPT !.pending = u]
                  = [active |-> visual.active, id |-> visual.id, pending |-> u,
                     final |-> visual.final]
BY DEF GuiTypes, NoVisual, NoUpdate, Update

\* The calls of a request for a frame.
LEMMA RequestCallsFacts ==
  ASSUME GuiTypes, NEW due \in BOOLEAN, NEW supersede \in BOOLEAN, NEW f \in Frame
  PROVE  /\ Plain(RequestCalls(due, supersede, f))
         /\ due => \A l : Awaits(visual.pending, l) => Covers(RequestCalls(due, supersede, f), l)
<1> DEFINE first == SubmitSubtitleUpdate(visual.pending, Intermediate(visual.id))
           r == <<Request(f, supersede)>>
<1>1. Plain(first) /\ \A l : Awaits(visual.pending, l) => Covers(first, l)
  BY VisualFacts, OptionsFacts, SubmitFacts
<1>2. Plain(r)
  BY CallFacts, PlainOne
<1>3. RequestCalls(due, supersede, f) = (IF due THEN first ELSE <<>>) \o r
  BY DEF RequestCalls
<1> HIDE DEF first, r
<1>4. Plain(first \o r) /\ Plain(<<>> \o r)
  BY <1>1, <1>2, PlainConcat, PlainOne
<1>5. \A l : Covers(first, l) => Covers(first \o r, l)
  BY <1>1, <1>2, CoversConcat DEF Plain
<1> QED
  BY <1>1, <1>3, <1>4, <1>5

\* What a commit leads to: it is given to the provider at once, or awaited.
LEMMA AfterCommitFacts ==
  ASSUME GuiTypes, FinalCoversPending, NEW mode \in {"load", "update"}, NEW ls \in SUBSET Line,
         NEW before, Plain(before), NEW due \in BOOLEAN, AfterCommit(mode, ls, before, due)
  PROVE  /\ Plain(todo')
         /\ visual' \in [active : BOOLEAN, id : Nat, pending : Update, final : Update]
         /\ \A l \in Line : \/ Awaits(visual.pending, l)
                            \/ Awaits([mode |-> mode, lines |-> ls], l)
                            => Covers(todo', l) \/ Awaits(visual'.pending, l)
         /\ \A l \in Line : Awaits(visual'.pending, l) => visual'.active /\ Awaits(visual'.final, l)
         /\ \E s : Plain(s) /\ todo' = before \o s
<1> DEFINE new == [mode |-> mode, lines |-> ls]
           added == AddSubtitleCommit(visual.pending, mode, ls)
           final == AddSubtitleCommit(visual.final, mode, ls)
<1>1. /\ added \in Update /\ final \in Update /\ new \in Update /\ NoUpdate \in Update
      /\ \A l : ~Awaits(NoUpdate, l)
      /\ \A l : Awaits(visual.pending, l) \/ Awaits(new, l) => Awaits(added, l)
      /\ \A l : Awaits(visual.final, l) \/ Awaits(new, l) => Awaits(final, l)
  BY VisualFacts, AddFacts DEF Update
<1>2. \A l : Awaits(added, l) => Awaits(visual.pending, l) \/ Awaits(new, l)
  BY VisualFacts DEF AddSubtitleCommit, Awaits, Update
<1>3. CASE visual.active
  <2> DEFINE s == IF due THEN SubmitSubtitleUpdate(added, Intermediate(visual.id)) ELSE <<>>
  <2>1. todo' = before \o s
    BY <1>3 DEF AfterCommit
  <2>2. Plain(s) /\ (due => \A l : Awaits(added, l) => Covers(s, l))
    BY <1>1, VisualFacts, OptionsFacts, SubmitFacts, PlainOne
  <2>3. visual' = [active |-> visual.active, id |-> visual.id,
                   pending |-> IF due THEN NoUpdate ELSE added, final |-> final]
    BY <1>3 DEF AfterCommit, GuiTypes
  <2> HIDE DEF s, added, final
  <2>4. Plain(before \o s) /\ \A l : Covers(s, l) => Covers(before \o s, l)
    BY <2>2, PlainConcat, CoversConcat DEF Plain
  <2>5. \A l \in Line : Awaits(visual.pending, l) => visual.active /\ Awaits(visual.final, l)
    BY DEF FinalCoversPending
  <2>6. visual' \in [active : BOOLEAN, id : Nat, pending : Update, final : Update]
    BY <1>1, <2>3, VisualFacts
  <2>7. /\ visual'.pending = (IF due THEN NoUpdate ELSE added)
        /\ visual'.final = final /\ visual'.active
    BY <1>3, <2>3
  <2> QED
    BY <1>1, <1>2, <2>1, <2>2, <2>4, <2>5, <2>6, <2>7
<1>4. CASE ~visual.active
  <2> DEFINE s == SubmitSubtitleUpdate(new, EveryFrame)
  <2>1. todo' = before \o s /\ visual' = visual
    BY <1>4 DEF AfterCommit
  <2>2. Plain(s) /\ \A l : Awaits(new, l) => Covers(s, l)
    BY <1>1, OptionsFacts, SubmitFacts
  <2> HIDE DEF s, new
  <2>3. Plain(before \o s) /\ \A l : Covers(s, l) => Covers(before \o s, l)
    BY <2>2, PlainConcat, CoversConcat DEF Plain
  <2> QED
    BY <2>1, <2>2, <2>3 DEF GuiTypes, FinalCoversPending, new
<1> QED
  BY <1>3, <1>4

\* A commit of a line's text.
LEMMA EditHandled ==
  ASSUME Types, FinalCoversPending, NEW l \in Line, NEW text \in Text,
         NEW mode \in {"load", "update"}, NEW due \in BOOLEAN,
         OnSubtitlesCommit(l, text, mode, due)
  PROVE  HandlerStep
<1> DEFINE ls == IF mode = "update" THEN {l} ELSE {}
<1>1. ls \in SUBSET Line /\ Plain(<<>>) /\ AfterCommit(mode, ls, <<>>, due)
  BY PlainOne DEF OnSubtitlesCommit
<1>2. Awaits([mode |-> mode, lines |-> ls], l)
  BY DEF Awaits
<1> HIDE DEF ls
<1>3. /\ Plain(todo')
      /\ visual' \in [active : BOOLEAN, id : Nat, pending : Update, final : Update]
      /\ \A k \in Line : \/ Awaits(visual.pending, k)
                         \/ Awaits([mode |-> mode, lines |-> ls], k)
                         => Covers(todo', k) \/ Awaits(visual'.pending, k)
      /\ \A k \in Line : Awaits(visual'.pending, k) => visual'.active /\ Awaits(visual'.final, k)
  BY <1>1, AfterCommitFacts DEF Types
<1>4. Fits(todo')
  BY <1>3, PlainFits
<1>5. doc' \in Document /\ \A k \in Line : doc'[k] # doc[k] => k = l
  BY DEF OnSubtitlesCommit, Types, GuiTypes, Document
<1>6. GuiTypes'
  BY <1>3, <1>5 DEF OnSubtitlesCommit, Types, GuiTypes, Elsewhere, host, previews
<1> QED
  BY <1>2, <1>3, <1>4, <1>5, <1>6 DEF OnSubtitlesCommit, Handler, HandlerStep

\* A commit of the colour matrix.
LEMMA ColourHandled ==
  ASSUME Types, FinalCoversPending, NEW c \in Colour, NEW due \in BOOLEAN,
         OnColourCommit(c, due)
  PROVE  HandlerStep
<1> DEFINE x == Call("colour")
<1>1. x \in CallRecord /\ x.call = "colour"
  BY CallFacts DEF CallName
<1> HIDE DEF x
<1>2. Plain(<<x>>) /\ AfterCommit("load", {}, <<x>>, due)
  BY <1>1, PlainOne DEF OnColourCommit, x
<1>3. /\ Plain(todo')
      /\ visual' \in [active : BOOLEAN, id : Nat, pending : Update, final : Update]
      /\ \A k \in Line : \/ Awaits(visual.pending, k)
                         \/ Awaits([mode |-> "load", lines |-> {}], k)
                         => Covers(todo', k) \/ Awaits(visual'.pending, k)
      /\ \A k \in Line : Awaits(visual'.pending, k) => visual'.active /\ Awaits(visual'.final, k)
      /\ \E s : Plain(s) /\ todo' = <<x>> \o s
  BY <1>2, AfterCommitFacts DEF Types
<1>4. Names("colour", todo')
  <2>1. PICK s : Plain(s) /\ todo' = <<x>> \o s
    BY <1>3
  <2>2. Len(todo') = 1 + Len(s) /\ Len(s) \in Nat /\ todo'[1] = x
    BY <1>1, <2>1, ConcatProperties, LenProperties DEF Plain
  <2> QED
    BY <1>1, <2>2 DEF Names
<1>5. Fits(todo')
  BY <1>3, PlainFits
<1>6. GuiTypes'
  BY <1>3 DEF OnColourCommit, Types, GuiTypes, Elsewhere, host, previews
<1> QED
  BY <1>3, <1>4, <1>5, <1>6 DEF OnColourCommit, Handler, HandlerStep

\* What is due is flushed from the interaction.
LEMMA FlushFacts ==
  ASSUME GuiTypes, FinalCoversPending, NEW due \in BOOLEAN, FlushDue(due)
  PROVE  /\ visual' \in [active : BOOLEAN, id : Nat, pending : Update, final : Update]
         /\ \A l \in Line : Awaits(visual'.pending, l) => visual'.active /\ Awaits(visual'.final, l)
         /\ ~due => visual' = visual
<1>1. NoUpdate \in Update /\ \A l : ~Awaits(NoUpdate, l)
  BY DEF Awaits, NoUpdate, Update
<1>2. CASE due
  <2>1. visual' = [active |-> visual.active, id |-> visual.id, pending |-> NoUpdate,
                   final |-> visual.final]
    BY <1>1, <1>2, VisualFacts DEF FlushDue
  <2>2. visual'.pending = NoUpdate
    BY <2>1
  <2> QED
    BY <1>1, <1>2, <2>1, <2>2, VisualFacts
<1>3. CASE ~due
  BY <1>3 DEF FlushDue, GuiTypes, FinalCoversPending
<1> QED
  BY <1>2, <1>3

\* A seek to a frame.
LEMMA JumpHandled ==
  ASSUME Types, FinalCoversPending, NEW f \in Frame, NEW due \in BOOLEAN, JumpToFrame(f, due)
  PROVE  HandlerStep
<1>1. /\ Plain(todo')
      /\ due => \A l : Awaits(visual.pending, l) => Covers(todo', l)
  BY RequestCallsFacts DEF JumpToFrame, Types
<1>2. /\ visual' \in [active : BOOLEAN, id : Nat, pending : Update, final : Update]
      /\ \A l \in Line : Awaits(visual'.pending, l) => visual'.active /\ Awaits(visual'.final, l)
      /\ ~due => visual' = visual
  BY FlushFacts DEF JumpToFrame, Types
<1>3. GuiTypes'
  BY <1>2 DEF JumpToFrame, ClearLatePreviewFrameAcceptance, Types, GuiTypes, Elsewhere, host
<1> QED
  BY <1>1, <1>2, <1>3, PlainFits DEF JumpToFrame, Handler, HandlerStep

\* A preview, which first cancels the request before the first one of a drag.
LEMMA PreviewHandled ==
  ASSUME Types, FinalCoversPending, NEW f \in Frame, NEW due \in BOOLEAN, PreviewToFrame(f, due)
  PROVE  HandlerStep
<1> DEFINE s == RequestCalls(due, FALSE, f)
           first == IF accept_late_preview_frames THEN <<>> ELSE <<Call("cancel")>>
<1>1. Plain(s) /\ (due => \A l : Awaits(visual.pending, l) => Covers(s, l))
  BY RequestCallsFacts DEF Types
<1>2. Plain(first)
  BY CallFacts, PlainOne DEF CallName
<1>3. todo' = first \o s
  BY DEF PreviewToFrame
<1> HIDE DEF first, s
<1>4. Plain(first \o s) /\ \A l : Covers(s, l) => Covers(first \o s, l)
  BY <1>1, <1>2, PlainConcat, CoversConcat DEF Plain
<1>5. /\ visual' \in [active : BOOLEAN, id : Nat, pending : Update, final : Update]
      /\ \A l \in Line : Awaits(visual'.pending, l) => visual'.active /\ Awaits(visual'.final, l)
      /\ ~due => visual' = visual
  BY FlushFacts DEF PreviewToFrame, Types
<1>6. GuiTypes'
  BY <1>5 DEF PreviewToFrame, Types, GuiTypes, Elsewhere, host, previews
<1> QED
  BY <1>1, <1>3, <1>4, <1>5, <1>6, PlainFits DEF PreviewToFrame, Handler, HandlerStep

\* A frame the GUI thread waits for.
LEMMA ImmediateHandled ==
  ASSUME Types, FinalCoversPending, NEW due \in BOOLEAN, RequestFrameImmediate(due)
  PROVE  HandlerStep
<1> DEFINE s == IF due THEN SubmitSubtitleUpdate(visual.pending, Intermediate(visual.id))
                       ELSE <<>>
           t == <<Call("cancel"), Call("render")>>
<1>1. Plain(s) /\ (due => \A l : Awaits(visual.pending, l) => Covers(s, l))
  BY VisualFacts, OptionsFacts, SubmitFacts, PlainOne DEF Types
<1>2. todo' = s \o t
  BY DEF RequestFrameImmediate
<1>3. t \in Seq(CallRecord)
  BY CallFacts DEF CallName
<1> HIDE DEF s
<1>4. Fits(s \o t)
  BY <1>1, RenderFits
<1>5. due => \A l : Awaits(visual.pending, l) => Covers(s \o t, l)
  BY <1>1, <1>3, CoversConcat DEF Plain
<1>6. /\ visual' \in [active : BOOLEAN, id : Nat, pending : Update, final : Update]
      /\ \A l \in Line : Awaits(visual'.pending, l) => visual'.active /\ Awaits(visual'.final, l)
      /\ ~due => visual' = visual
  BY FlushFacts DEF RequestFrameImmediate, Types
<1>7. GuiTypes'
  BY <1>6 DEF RequestFrameImmediate, ClearLatePreviewFrameAcceptance, Types, GuiTypes, Elsewhere,
     host
<1> QED
  BY <1>2, <1>4, <1>5, <1>6, <1>7 DEF RequestFrameImmediate, Handler, HandlerStep

\* An interaction begins: nothing of an earlier one is awaited.
LEMMA BeginHandled ==
  ASSUME Types, FinalCoversPending, BeginVisualSubtitleInteraction
  PROVE  HandlerStep
<1>1. visual' = [active |-> TRUE, id |-> visual.id + 1, pending |-> NoUpdate, final |-> NoUpdate]
  BY DEF BeginVisualSubtitleInteraction, NoVisual
<1>2. /\ visual' \in [active : BOOLEAN, id : Nat, pending : Update, final : Update]
      /\ visual'.pending = NoUpdate /\ \A l : ~Awaits(NoUpdate, l)
  BY <1>1, VisualFacts DEF Types, Update, NoUpdate, Awaits
<1>3. Fits(todo')
  BY PlainFits, PlainOne DEF BeginVisualSubtitleInteraction, Handler
<1>4. GuiTypes'
  BY <1>2 DEF BeginVisualSubtitleInteraction, Types, GuiTypes, Elsewhere, host, previews
<1> QED
  BY <1>2, <1>3, <1>4 DEF BeginVisualSubtitleInteraction, Handler, HandlerStep,
     FinalCoversPending

\* The timer of an interaction submits what is awaited.
LEMMA TimerHandled ==
  ASSUME Types, FinalCoversPending, OnVisualSubtitleUpdateTimer
  PROVE  HandlerStep
<1>1. Plain(todo') /\ \A l : Awaits(visual.pending, l) => Covers(todo', l)
  BY VisualFacts, OptionsFacts, SubmitFacts DEF Types, OnVisualSubtitleUpdateTimer
<1>2. NoUpdate \in Update /\ \A l : ~Awaits(NoUpdate, l)
  BY DEF Awaits, NoUpdate, Update
<1>3. visual' = [active |-> visual.active, id |-> visual.id, pending |-> NoUpdate,
                 final |-> visual.final]
  BY <1>2, VisualFacts DEF Types, OnVisualSubtitleUpdateTimer
<1>4. /\ visual' \in [active : BOOLEAN, id : Nat, pending : Update, final : Update]
      /\ visual'.pending = NoUpdate
  BY <1>2, <1>3, VisualFacts DEF Types
<1>5. GuiTypes'
  BY <1>4 DEF OnVisualSubtitleUpdateTimer, Types, GuiTypes, Elsewhere, host, previews
<1> QED
  BY <1>1, <1>2, <1>4, <1>5, PlainFits DEF OnVisualSubtitleUpdateTimer, HandlerStep

\* The end of an interaction submits all it has changed.
LEMMA EndHandled ==
  ASSUME Types, FinalCoversPending, EndVisualSubtitleInteraction
  PROVE  HandlerStep
<1>1. Plain(todo') /\ \A l : Awaits(visual.final, l) => Covers(todo', l)
  BY VisualFacts, OptionsFacts, SubmitFacts DEF Types, EndVisualSubtitleInteraction
<1>2. NoUpdate \in Update /\ \A l : ~Awaits(NoUpdate, l)
  BY DEF Awaits, NoUpdate, Update
<1>3. visual' = [active |-> FALSE, id |-> visual.id, pending |-> NoUpdate, final |-> NoUpdate]
  BY DEF EndVisualSubtitleInteraction, NoVisual
<1>4. /\ visual' \in [active : BOOLEAN, id : Nat, pending : Update, final : Update]
      /\ visual'.pending = NoUpdate
  BY <1>2, <1>3, VisualFacts DEF Types
<1>5. GuiTypes'
  BY <1>4 DEF EndVisualSubtitleInteraction, Types, GuiTypes, Elsewhere, host, previews
<1> QED
  BY <1>1, <1>2, <1>4, <1>5, PlainFits DEF EndVisualSubtitleInteraction, HandlerStep,
     FinalCoversPending

\* The calls that name no line.
LEMMA OtherCalls ==
  /\ \A calling \in {"close", "open", "replace", "timecodes"} :
        Call(calling) \in CallRecord /\ Call(calling).call = calling
  /\ LoadSubtitles(EveryFrame) \in CallRecord /\ LoadSubtitles(EveryFrame).call = "load"
  /\ \A f \in Frame : /\ Request(f, TRUE) \in CallRecord
                      /\ Request(f, TRUE).call = "request" /\ Request(f, TRUE).frame = f
<1>1. /\ \A calling \in CallName : Call(calling) \in CallRecord /\ Call(calling).call = calling
      /\ {"close", "open", "replace", "timecodes"} \subseteq CallName
  BY CallFacts DEF CallName
<1>2. LoadSubtitles(EveryFrame) \in CallRecord /\ LoadSubtitles(EveryFrame).call = "load"
  BY CallFacts, OptionsFacts
<1>3. TRUE \in BOOLEAN
  OBVIOUS
<1>4. \A f \in Frame : /\ Request(f, TRUE) \in CallRecord
                        /\ Request(f, TRUE).call = "request" /\ Request(f, TRUE).frame = f
  BY <1>3, CallFacts
<1> QED
  BY <1>1, <1>2, <1>4

\* New timecodes.
LEMMA TimecodesHandled ==
  ASSUME Types, FinalCoversPending, NEW tc \in Timecodes, LoadTimecodes(tc)
  PROVE  HandlerStep
<1> DEFINE x == Call("timecodes")
           r == Request(frame_n, TRUE)
<1>1. /\ x \in CallRecord /\ x.call = "timecodes"
      /\ r \in CallRecord /\ r.call = "request" /\ r.frame \in Frame
  BY OtherCalls DEF Types, GuiTypes
<1>2. todo' = <<x, r>>
  BY DEF LoadTimecodes
<1> HIDE DEF x, r
<1>3. todo' \in Seq(CallRecord) /\ Len(todo') = 2 /\ todo'[1] = x /\ todo'[2] = r
  BY <1>1, <1>2
<1>4. Fits(todo') /\ Names("timecodes", todo')
  BY <1>1, <1>3 DEF Fits, Names
<1>5. GuiTypes'
  BY DEF LoadTimecodes, ClearLatePreviewFrameAcceptance, Types, GuiTypes, Elsewhere, host
<1> QED
  BY <1>4, <1>5 DEF LoadTimecodes, Handler, HandlerStep, FinalCoversPending

\* The subtitle renderer is replaced.
LEMMA ReplaceHandled ==
  ASSUME Types, FinalCoversPending, ReloadSubtitlesProvider
  PROVE  HandlerStep
<1> DEFINE a == Call("replace")
           b == Call("timecodes")
           c == LoadSubtitles(EveryFrame)
           d == Request(frame_n, TRUE)
<1>1. /\ a \in CallRecord /\ b \in CallRecord /\ c \in CallRecord /\ d \in CallRecord
      /\ a.call = "replace" /\ b.call = "timecodes" /\ c.call = "load" /\ d.call = "request"
      /\ d.frame \in Frame
  BY OtherCalls DEF Types, GuiTypes
<1>2. todo' = <<a, b, c, d>>
  BY DEF ReloadSubtitlesProvider
<1> HIDE DEF a, b, c, d
<1>3. /\ todo' \in Seq(CallRecord) /\ Len(todo') = 4
      /\ todo'[1] = a /\ todo'[2] = b /\ todo'[3] = c /\ todo'[4] = d
  BY <1>1, <1>2
<1>4. Fits(todo')
  BY <1>1, <1>3 DEF Fits
<1>5. GuiTypes'
  BY DEF ReloadSubtitlesProvider, ClearLatePreviewFrameAcceptance, Types, GuiTypes, Elsewhere, host
<1>6. \A l \in Line : Awaits(visual'.pending, l) => visual'.active /\ Awaits(visual'.final, l)
  BY DEF ReloadSubtitlesProvider, FinalCoversPending
<1>7. visual' = visual /\ doc' = doc /\ color_matrix' = color_matrix /\ timecodes' = timecodes
  BY DEF ReloadSubtitlesProvider
<1> QED
  BY <1>4, <1>5, <1>6, <1>7 DEF ReloadSubtitlesProvider, Handler, HandlerStep

\* The provider is replaced.
LEMMA ReloadHandled ==
  ASSUME Types, FinalCoversPending, ReloadVideo
  PROVE  HandlerStep
<1> DEFINE a == Call("close")
           b == Call("open")
           c == LoadSubtitles(EveryFrame)
           d == Call("timecodes")
           e == Request(frame_n, TRUE)
<1>1. /\ a \in CallRecord /\ b \in CallRecord /\ c \in CallRecord /\ d \in CallRecord
      /\ e \in CallRecord
      /\ a.call = "close" /\ b.call = "open" /\ c.call = "load" /\ d.call = "timecodes"
      /\ e.call = "request" /\ e.frame \in Frame
  BY OtherCalls DEF Types, GuiTypes
<1>2. todo' = <<a, b, c, d, e>>
  BY DEF ReloadVideo
<1> HIDE DEF a, b, c, d, e
<1>3. /\ todo' \in Seq(CallRecord) /\ Len(todo') = 5
      /\ todo'[1] = a /\ todo'[2] = b /\ todo'[3] = c /\ todo'[4] = d /\ todo'[5] = e
  BY <1>1, <1>2
<1>4. Fits(todo')
  BY <1>1, <1>3 DEF Fits
<1>5. GuiTypes'
  BY DEF ReloadVideo, Types, GuiTypes, Elsewhere, host, previews
<1>6. \A l \in Line : Awaits(visual'.pending, l) => visual'.active /\ Awaits(visual'.final, l)
  BY DEF ReloadVideo, FinalCoversPending
<1>7. visual' = visual /\ doc' = doc /\ color_matrix' = color_matrix /\ timecodes' = timecodes
  BY DEF ReloadVideo
<1> QED
  BY <1>4, <1>5, <1>6, <1>7 DEF ReloadVideo, Handler, HandlerStep

\* Every handler is such a step, but for a seek to a recent packet and the prefetch.
LEMMA UserSteps ==
  ASSUME Types, FinalCoversPending,
         UserCall \/ OnVisualSubtitleUpdateTimer \/ EndVisualSubtitleInteraction
  PROVE  \/ HandlerStep
         \/ \E p \in recent_render_packets : JumpToRecentFrame(p)
         \/ PrefetchFrames \/ CancelFramePrefetch
<1>1. CASE OnVisualSubtitleUpdateTimer \/ EndVisualSubtitleInteraction
  BY <1>1, TimerHandled, EndHandled
<1>2. CASE UserCall
  <2>1. ASSUME NEW due \in BOOLEAN, NEW l \in Line, NEW text \in Text,
               NEW mode \in {"load", "update"}, OnSubtitlesCommit(l, text, mode, due)
        PROVE  HandlerStep
    BY <2>1, EditHandled
  <2>2. ASSUME NEW due \in BOOLEAN, NEW c \in Colour, OnColourCommit(c, due)
        PROVE  HandlerStep
    BY <2>2, ColourHandled
  <2>3. ASSUME NEW due \in BOOLEAN, NEW f \in Frame, JumpToFrame(f, due) \/ PreviewToFrame(f, due)
        PROVE  HandlerStep
    BY <2>3, JumpHandled, PreviewHandled
  <2>4. ASSUME NEW due \in BOOLEAN, RequestFrameImmediate(due)
        PROVE  HandlerStep
    BY <2>4, ImmediateHandled
  <2>5. ASSUME NEW tc \in Timecodes, LoadTimecodes(tc)
        PROVE  HandlerStep
    BY <2>5, TimecodesHandled
  <2>6. BeginVisualSubtitleInteraction \/ ReloadSubtitlesProvider \/ ReloadVideo => HandlerStep
    BY BeginHandled, ReplaceHandled, ReloadHandled
  <2> QED
    BY <1>2, <2>1, <2>2, <2>3, <2>4, <2>5, <2>6 DEF UserCall
<1> QED
  BY <1>1, <1>2
-----------------------------------------------------------------------------
(***************************************************************************)
(* The rest of a handler                                                   *)
(***************************************************************************)
\* The first call is made.
LEMMA HeadFacts ==
  ASSUME TodoTypes, todo # <<>>
  PROVE  /\ Len(todo) \in Nat \ {0} /\ Head(todo) = todo[1] /\ Head(todo) \in CallRecord
         /\ Tail(todo) \in Seq(CallRecord) /\ Len(Tail(todo)) = Len(todo) - 1
         /\ \A i \in 1 .. Len(todo) - 1 : Tail(todo)[i] = todo[i + 1]
         /\ \A i \in 1 .. Len(todo) : todo[i] \in CallRecord
<1>1. todo \in Seq(CallRecord)
  BY DEF TodoTypes
<1>2. Len(todo) \in Nat \ {0}
  BY <1>1, EmptySeq
<1>3. Head(todo) = todo[1]
  BY <1>1
<1> QED
  BY <1>1, <1>2, <1>3, HeadTailProperties, ElementOfSeq

\* The calls after it remain.
LEMMA ReturnFacts ==
  ASSUME TodoTypes, todo # <<>>, Return
  PROVE  /\ TodoTypes' /\ Len(todo') = Len(todo) - 1
         /\ \A i \in 1 .. Len(todo') : i + 1 \in 1 .. Len(todo) /\ todo'[i] = todo[i + 1]
<1>1. todo' = Tail(todo) /\ Len(todo) \in Nat \ {0}
  BY HeadFacts DEF Return
<1> QED
  BY <1>1, HeadFacts DEF TodoTypes

\* Or another call takes its place.
LEMMA ReplaceFacts ==
  ASSUME TodoTypes, todo # <<>>, NEW x \in CallRecord, todo' = <<x>> \o Tail(todo)
  PROVE  /\ TodoTypes' /\ Len(todo') = Len(todo) /\ todo'[1] = x
         /\ \A i \in 2 .. Len(todo) : todo'[i] = todo[i]
<1>1. /\ Len(todo) \in Nat \ {0} /\ Tail(todo) \in Seq(CallRecord)
      /\ Len(Tail(todo)) = Len(todo) - 1
      /\ \A i \in 1 .. Len(todo) - 1 : Tail(todo)[i] = todo[i + 1]
  BY HeadFacts
<1>2. <<x>> \in Seq(CallRecord) /\ Len(<<x>>) = 1 /\ <<x>>[1] = x
  OBVIOUS
<1>3. /\ todo' \in Seq(CallRecord) /\ Len(todo') = 1 + Len(Tail(todo))
      /\ \A i \in 1 .. 1 + Len(Tail(todo)) :
            todo'[i] = IF i <= 1 THEN <<x>>[i] ELSE Tail(todo)[i - 1]
  BY <1>1, <1>2, ConcatProperties
<1>4. todo'[1] = x
  BY <1>1, <1>2, <1>3
<1>5. ASSUME NEW i \in 2 .. Len(todo)
      PROVE  todo'[i] = todo[i]
  <2>1. todo'[i] = Tail(todo)[i - 1] /\ i - 1 \in 1 .. Len(todo) - 1
    BY <1>1, <1>3
  <2>2. Tail(todo)[i - 1] = todo[(i - 1) + 1] /\ (i - 1) + 1 = i
    BY <1>1, <2>1
  <2> QED
    BY <2>1, <2>2
<1> QED
  BY <1>1, <1>3, <1>4, <1>5 DEF TodoTypes

\* A call that schedules processing does that next.
LEMMA ReturnSchedulingFacts ==
  ASSUME TodoTypes, todo # <<>>, ReturnScheduling
  PROVE  /\ TodoTypes' /\ Len(todo') = Len(todo) /\ todo'[1] = Schedule
         /\ \A i \in 2 .. Len(todo) : todo'[i] = todo[i]
         /\ Schedule.call = "schedule"
BY ReplaceFacts, CallFacts DEF ReturnScheduling
-----------------------------------------------------------------------------
(***************************************************************************)
(* Types                                                                   *)
(***************************************************************************)
\* The versions of the packets made now.
LEMMA VersionType ==
  ASSUME ProviderTypes
  PROVE  /\ Version \in [provider : Nat, content : Nat, request : Nat]
         /\ Version.provider = provider_version /\ Version.content = content_version
BY DEF ProviderTypes, Version

\* A packet drawn for a frame.
LEMMA DrawnFacts ==
  ASSUME WorkerTypes, NEW packet \in Packets, NEW f \in Frame
  PROVE  /\ Drawn(packet, f) \in Packets
         /\ Drawn(packet, f).frame = f /\ Drawn(packet, f).version = packet.version
         /\ Drawn(packet, f).colour = SourceFrame(f).colour
         /\ Drawn(packet, f).lines =
               IF subs = None THEN NoLines ELSE VisibleLines(LoadedFor(f), subtitles_timecodes, f)
         /\ LoadedFor(f) \in Lines
         /\ SourceFrame(f) \in SourceType
         /\ SingleFrame(f) \in {NEW_SUBS_FILE, SUBS_FILE_ALREADY_LOADED} \cup Frame
<1>1. subs \in Lines \cup {None} /\ (subs # None => subs \in Lines)
  BY DocumentLines DEF WorkerTypes
<1>2. LoadedFor(f) \in Lines
  BY <1>1, VisibleFacts DEF LoadedFor, WorkerTypes
<1>3. SourceFrame(f) \in SourceType
  BY DEF SourceFrame, WorkerTypes, SourceType
<1>4. SingleFrame(f) \in {NEW_SUBS_FILE, SUBS_FILE_ALREADY_LOADED} \cup Frame
  BY DEF SingleFrame, WorkerTypes
<1> DEFINE ls == IF subs = None THEN NoLines
                 ELSE VisibleLines(LoadedFor(f), subtitles_timecodes, f)
           c == SourceFrame(f).colour
<1>5. ls \in Lines
  BY <1>2, DocumentLines, VisibleFacts DEF WorkerTypes
<1>6. c \in Colour \cup {None}
  BY <1>3 DEF SourceType
<1>7. Drawn(packet, f) = [packet EXCEPT !.frame = f, !.colour = c, !.lines = ls]
  BY DEF Drawn
<1> HIDE DEF ls, c
<1>8. /\ Drawn(packet, f) \in Packets
      /\ Drawn(packet, f).frame = f /\ Drawn(packet, f).version = packet.version
      /\ Drawn(packet, f).colour = c /\ Drawn(packet, f).lines = ls
  <2> DEFINE q == [frame |-> f, lines |-> ls, colour |-> c, version |-> packet.version,
                   class |-> packet.class, id |-> packet.id]
  <2>1. Drawn(packet, f) = q
    BY <1>7, PacketFields
  <2>2. q \in Packets
    BY <1>5, <1>6, PacketFields, PacketOf
  <2> QED
    BY <2>1, <2>2
<1> QED
  BY <1>2, <1>3, <1>4, <1>8 DEF ls, c

\* A recent packet shown again has a version of its own.
Reissued(p, n) == [p EXCEPT !.version.request = n, !.class = "every", !.id = 0]
LEMMA ReissuedFacts ==
  ASSUME NEW p \in Packets, NEW n \in Nat
  PROVE  /\ Reissued(p, n) \in Packets
         /\ Reissued(p, n).frame = p.frame /\ Reissued(p, n).lines = p.lines
         /\ Reissued(p, n).colour = p.colour
         /\ Reissued(p, n).version.provider = p.version.provider
         /\ Reissued(p, n).version.content = p.version.content
<1> DEFINE v == [p.version EXCEPT !.request = n]
<1>1. p.version \in [provider : Nat, content : Nat, request : Nat]
  BY DEF Packets
<1>2. /\ v \in [provider : Nat, content : Nat, request : Nat]
      /\ v.provider = p.version.provider /\ v.content = p.version.content
  BY <1>1
<1>3. Reissued(p, n) = [[p EXCEPT !.version = v] EXCEPT !.class = "every", !.id = 0]
  <2>1. Reissued(p, n) = [[p EXCEPT !.version.request = n] EXCEPT !.class = "every", !.id = 0]
    BY DEF Reissued, Packets
  <2>2. [p EXCEPT !.version.request = n] = [p EXCEPT !.version = v]
    BY DEF Packets
  <2> QED
    BY <2>1, <2>2
<1> DEFINE q == [p EXCEPT !.version = v]
<1> HIDE DEF v
<1>4. /\ q \in Packets /\ q.frame = p.frame /\ q.lines = p.lines /\ q.colour = p.colour
      /\ q.version = v
  BY <1>2 DEF Packets
<1> HIDE DEF q
<1> DEFINE r == [q EXCEPT !.class = "every", !.id = 0]
<1>5. /\ r \in Packets /\ r.frame = q.frame /\ r.lines = q.lines /\ r.colour = q.colour
      /\ r.version = q.version
  BY <1>4 DEF Packets
<1>6. Reissued(p, n) = r
  BY <1>3 DEF q
<1> HIDE DEF r
<1> QED
  BY <1>2, <1>4, <1>5, <1>6

\* What is shown is a packet.
LEMMA ShowTypes ==
  ASSUME NEW packet \in Packets, NEW recent \in SUBSET Packets, Show(packet, recent)
  PROVE  /\ displayed' \in Packets /\ recent_render_packets' \subseteq Packets
         /\ \A p \in recent_render_packets' : p \in recent \/ p = packet
BY DEF Show

\* How the worker's work ended.
LEMMA EndedTypes ==
  ASSUME WorkerTypes, NEW how \in {"drawn", "skipped", "failed", "unloaded"},
         NEW packet \in Packets, Ended(how, packet)
  PROVE  /\ outcome' \in {"none", "drawn", "skipped", "failed", "unloaded"} /\ drawn' \in Packets
         /\ outcome = "unloaded" => outcome' = "unloaded"
BY DEF WorkerTypes, Ended, HasFailed

\* A call of the provider other than the opening of a new one.
CallStep ==
    \/ CallLoad \/ CallRequest \/ CallCancel \/ CallSetColorSpace \/ CallSchedule \/ CallSync
    \/ \E known \in BOOLEAN : CallUpdate(known)
\* The end of a job the GUI thread waits for.
FinishStep == FinishRender \/ FinishTimecodes \/ FinishReplace \/ FinishClose
\* Work that only makes a packet, or decides that there is none to make.
WorkStep ==
    \/ StartJob \/ TakeNothing \/ Take \/ SkipStale \/ Render \/ Deliver \/ DeliverError
    \/ PrefetchOne \/ PrefetchRepost \/ PrefetchFails

\* What each kind of step is.
LEMMA Steps ==
  ASSUME Types, FinalCoversPending, [Next]_vars
  PROVE  \/ CallStep \/ CallOpen \/ HandlerStep
         \/ \E p \in recent_render_packets : JumpToRecentFrame(p)
         \/ PrefetchFrames \/ CancelFramePrefetch
         \/ Receive \/ WorkStep \/ FinishStep
         \/ UNCHANGED vars
BY UserSteps DEF Next, ProviderCall, Work, CallStep, WorkStep, FinishStep, Rest

\* What the GUI thread keeps stays as long as neither it nor its messages change.
LEMMA GuiStill == GuiTypes /\ UNCHANGED <<gui, host>> => GuiTypes'
BY DEF GuiTypes, gui, host, previews

\* What the sink does with a packet.
LEMMA PostTypes ==
  ASSUME GuiTypes, NEW packet \in Packets, Post(packet)
  PROVE  messages' \in Seq(Message) /\ sink' \in [open : BOOLEAN, id : Nat, final : BOOLEAN]
<1> DEFINE m == [kind |-> "batch", packet |-> packet]
           e == [kind |-> "frame", packet |-> packet]
<1>1. /\ m \in Message /\ e \in Message /\ messages \in Seq(Message) /\ packet.id \in Nat
      /\ sink \in [open : BOOLEAN, id : Nat, final : BOOLEAN]
  BY DEF Message, GuiTypes, Packets
<1> HIDE DEF m, e
<1>2. Append(messages, m) \in Seq(Message) /\ Append(messages, e) \in Seq(Message)
  BY <1>1, AppendProperties
<1>3. [messages EXCEPT ![LastBatch] = m] \in Seq(Message)
  <2>1. messages \in [1 .. Len(messages) -> Message] /\ Len(messages) \in Nat
    BY <1>1, LenProperties
  <2>2. [messages EXCEPT ![LastBatch] = m] \in [1 .. Len(messages) -> Message]
    BY <1>1, <2>1
  <2> QED
    BY <2>1, <2>2, SeqDef
<1>4. CASE packet.class = "every"
  <2>1. sink' = [open |-> FALSE, id |-> sink.id, final |-> sink.final]
    BY <1>1, <1>4 DEF Post
  <2> QED
    BY <1>1, <1>2, <1>4, <2>1 DEF Post, e
<1>5. CASE packet.class # "every" /\ Superseded(packet)
  BY <1>1, <1>5 DEF Post, host
<1>6. CASE packet.class # "every" /\ ~Superseded(packet)
  <2> DEFINE final == packet.class = "final" \/ (sink.final /\ packet.id = sink.id)
  <2>1. sink' = [open |-> TRUE, id |-> packet.id, final |-> final]
    BY <1>6 DEF Post
  <2>2. final \in BOOLEAN
    OBVIOUS
  <2> HIDE DEF final
  <2>3. sink' \in [open : BOOLEAN, id : Nat, final : BOOLEAN]
    BY <1>1, <2>1, <2>2
  <2> QED
    BY <1>1, <1>2, <1>3, <1>6, <2>3 DEF Post, m
<1> QED
  BY <1>4, <1>5, <1>6

\* The GUI thread, over every step.
LEMMA GuiTypesKept ==
  ASSUME Types, FinalCoversPending, [Next]_vars
  PROVE  GuiTypes'
<1>1. CASE CallStep
  BY <1>1, GuiStill DEF Types, CallStep, CallLoad, CallRequest, CallCancel, CallSetColorSpace,
     CallSchedule, CallSync, CallUpdate
<1>2. CASE CallOpen
  <2>1. visual' = [active |-> FALSE, id |-> visual.id, pending |-> NoUpdate, final |-> NoUpdate]
    BY <1>2 DEF CallOpen, NoVisual
  <2>2. visual' \in [active : BOOLEAN, id : Nat, pending : Update, final : Update]
    BY <2>1, VisualFacts DEF Types, Update, NoUpdate
  <2>3. sink' \in [open : BOOLEAN, id : Nat, final : BOOLEAN]
    BY <1>2 DEF CallOpen, NoBatch
  <2> QED
    BY <1>2, <2>2, <2>3 DEF Types, GuiTypes, CallOpen, ClearLatePreviewFrameAcceptance
<1>3. CASE HandlerStep
  BY <1>3 DEF HandlerStep
<1>4. ASSUME NEW p \in recent_render_packets, JumpToRecentFrame(p)
      PROVE  GuiTypes'
  <2> DEFINE shown == Reissued(p, request_version')
  <2>1. p \in Packets /\ request_version' \in Nat /\ p.frame \in Frame
    BY <1>4 DEF JumpToRecentFrame, Types, GuiTypes, ProviderTypes
  <2>2. shown \in Packets /\ shown.frame = p.frame
    BY <2>1, ReissuedFacts
  <2>3. Show(shown, recent_render_packets)
    BY <1>4 DEF JumpToRecentFrame, Reissued
  <2>4. recent_render_packets \in SUBSET Packets
    BY DEF Types, GuiTypes
  <2> HIDE DEF shown
  <2>5. /\ displayed' \in Packets /\ recent_render_packets' \subseteq Packets
        /\ \A q \in recent_render_packets' : q \in recent_render_packets \/ q = shown
    BY <2>2, <2>3, <2>4, ShowTypes
  <2> QED
    BY <1>4, <2>1, <2>2, <2>5 DEF JumpToRecentFrame, ClearLatePreviewFrameAcceptance, Types,
       GuiTypes, host
<1>5. CASE PrefetchFrames \/ CancelFramePrefetch
  BY <1>5 DEF PrefetchFrames, CancelFramePrefetch, Types, GuiTypes, Elsewhere, host, previews
<1>6. CASE Receive
  <2> DEFINE m == Head(messages)
  <2>1. m \in Message /\ messages' \in Seq(Message)
    BY <1>6, HeadTailProperties DEF Receive, Types, GuiTypes
  <2>2. m.packet \in Packets
    BY <2>1 DEF Message
  <2> HIDE DEF m
  <2>3. sink' \in [open : BOOLEAN, id : Nat, final : BOOLEAN]
    <3> DEFINE open == sink.open /\ (m.kind = "batch" =>
                             \E i \in 2 .. Len(messages) : messages[i].kind = "batch")
    <3>1. open \in BOOLEAN
      OBVIOUS
    <3>2. sink' = [sink EXCEPT !.open = open]
      BY <1>6 DEF Receive, m
    <3> HIDE DEF open
    <3> QED
      BY <3>1, <3>2 DEF Types, GuiTypes
  <2>4. /\ recent_render_packets' \subseteq Packets /\ displayed' \in Packets
        /\ \A p \in recent_render_packets' : p.frame \in Frame
        /\ frame_n' \in Frame /\ accept_late_preview_frames' \in BOOLEAN
        /\ acceptable_late_preview_frames' \subseteq Frame
    <3>1. CASE m.kind = "error"
      BY <1>6, <3>1 DEF Receive, Types, GuiTypes, previews, m
    <3>2. CASE m.kind # "error" /\ ~Accepts(m.packet)
      BY <1>6, <3>2 DEF Receive, Types, GuiTypes, previews, m
    <3>3. CASE m.kind # "error" /\ Accepts(m.packet)
      <4>1. m.packet.frame \in Frame
        BY <3>3 DEF Accepts, IsAwaited, Types, GuiTypes
      <4>2. Show(m.packet, recent_render_packets)
        BY <1>6, <3>3 DEF Receive, m
      <4>3. /\ displayed' \in Packets /\ recent_render_packets' \subseteq Packets
            /\ \A q \in recent_render_packets' : q \in recent_render_packets \/ q = m.packet
        BY <2>2, <4>2, ShowTypes DEF Types, GuiTypes
      <4> QED
        BY <1>6, <3>3, <4>1, <4>3 DEF Receive, Types, GuiTypes, previews, m
    <3> QED
      BY <3>1, <3>2, <3>3
  <2> QED
    BY <1>6, <2>1, <2>3, <2>4 DEF Receive, Types, GuiTypes
<1>7. CASE WorkStep
  <2>1. CASE StartJob \/ TakeNothing \/ Take \/ SkipStale \/ Render \/ PrefetchOne
             \/ PrefetchRepost \/ PrefetchFails
    BY <2>1, GuiStill DEF Types, StartJob, TakeNothing, Take, SkipStale, Render, PrefetchOne,
       PrefetchRepost, PrefetchFails
  <2>2. CASE Deliver
    <3>1. worker.packet \in Packets
      BY DEF Types, WorkerTypes, WorkerType
    <3>2. messages' \in Seq(Message) /\ sink' \in [open : BOOLEAN, id : Nat, final : BOOLEAN]
      BY <2>2, <3>1, PostTypes DEF Deliver, Types, GuiTypes, host, previews
    <3> QED
      BY <2>2, <3>2 DEF Deliver, Types, GuiTypes, gui, previews
  <2>3. CASE DeliverError
    <3>1. [kind |-> "error", packet |-> NoPacket] \in Message
      BY NoPacketType DEF Message
    <3>2. messages' \in Seq(Message)
      <4>1. Append(messages, [kind |-> "error", packet |-> NoPacket]) \in Seq(Message)
        BY <3>1, AppendProperties DEF Types, GuiTypes
      <4> QED
        BY <2>3, <4>1 DEF DeliverError, Types, GuiTypes
    <3> QED
      BY <2>3, <3>2 DEF DeliverError, Types, GuiTypes, gui, previews
  <2> QED
    BY <1>7, <2>1, <2>2, <2>3 DEF WorkStep
<1>8. CASE FinishStep
  <2>1. CASE FinishTimecodes \/ FinishReplace \/ FinishClose
    BY <2>1, GuiStill DEF Types, FinishTimecodes, FinishReplace, FinishClose
  <2>2. CASE FinishRender
    <3> DEFINE shown == Drawn([NoPacket EXCEPT !.version = Version], frame_n)
    <3>1. frame_n \in Frame
      BY DEF Types, GuiTypes
    <3>2. [NoPacket EXCEPT !.version = Version] \in Packets
      BY NoPacketType, VersionType DEF Types, Packets
    <3>3. shown \in Packets /\ shown.frame = frame_n
      BY <3>1, <3>2, DrawnFacts DEF Types
    <3> HIDE DEF shown
    <3>4. CASE Show(shown, recent_render_packets)
      <4>1. /\ displayed' \in Packets /\ recent_render_packets' \subseteq Packets
            /\ \A q \in recent_render_packets' : q \in recent_render_packets \/ q = shown
        BY <3>3, <3>4, ShowTypes DEF Types, GuiTypes
      <4> QED
        BY <2>2, <3>1, <3>3, <4>1 DEF FinishRender, Types, GuiTypes, host, previews
    <3>5. CASE recent_render_packets' = {} /\ displayed' = displayed
      BY <2>2, <3>5 DEF FinishRender, Types, GuiTypes, host, previews
    <3> QED
      BY <2>2, <3>4, <3>5 DEF FinishRender, shown
  <2> QED
    BY <1>8, <2>1, <2>2 DEF FinishStep
<1> QED
  BY <1>1, <1>2, <1>3, <1>4, <1>5, <1>6, <1>7, <1>8, Steps, GuiStill DEF Types, vars

\* The calls that are left.
LEMMA TodoTypesKept ==
  ASSUME Types, FinalCoversPending, SyncIsAwaited, [Next]_vars
  PROVE  TodoTypes'
<1>1. CASE CallStep
  <2>1. CallSync => TodoTypes'
    <3>1. Call("wait") \in CallRecord
      BY CallFacts DEF CallName
    <3> QED
      BY <3>1, ReplaceFacts DEF CallSync, Types
  <2>2. CallCancel \/ CallSchedule => Return /\ todo # <<>>
    BY DEF CallCancel, CallSchedule, Calling
  <2>3. CallLoad \/ CallRequest \/ CallSetColorSpace \/ (\E known \in BOOLEAN : CallUpdate(known))
           => ReturnScheduling /\ todo # <<>>
    BY DEF CallLoad, CallRequest, CallSetColorSpace, CallUpdate, Calling
  <2> QED
    BY <1>1, <2>1, <2>2, <2>3, ReturnFacts, ReturnSchedulingFacts DEF CallStep, Types
<1>2. CASE CallOpen
  BY <1>2, ReturnFacts DEF CallOpen, Calling, Types
<1>3. CASE HandlerStep
  BY <1>3 DEF HandlerStep, Fits, TodoTypes
<1>4. ASSUME NEW p \in recent_render_packets, JumpToRecentFrame(p)
      PROVE  TodoTypes'
  BY <1>4, CallFacts DEF JumpToRecentFrame, TodoTypes
<1>5. CASE PrefetchFrames \/ CancelFramePrefetch \/ Receive
  BY <1>5 DEF PrefetchFrames, CancelFramePrefetch, Receive, Types, TodoTypes
<1>6. CASE WorkStep
  BY <1>6 DEF WorkStep, StartJob, TakeNothing, Take, SkipStale, Render, Deliver, DeliverError,
     PrefetchOne, PrefetchRepost, PrefetchFails, Types, TodoTypes
<1>7. CASE FinishStep
  <2>1. Return /\ worker.job \in SyncJobs
    BY <1>7 DEF FinishStep, FinishRender, FinishTimecodes, FinishReplace, FinishClose, SyncJobs
  <2> QED
    BY <2>1, ReturnFacts DEF SyncIsAwaited, Calling, Types
<1> QED
  BY <1>1, <1>2, <1>3, <1>4, <1>5, <1>6, <1>7, Steps DEF Types, vars, TodoTypes

\* What is pending has its type, and nothing pending is well typed.
LEMMA PendingFacts ==
  ASSUME ProviderTypes
  PROVE  /\ pending \in PendingType /\ (pending.kind # "none" <=> pending.frame \in Frame)
         /\ NothingPending \in PendingType /\ NothingPending.kind = "none"
         /\ NothingPending.frame = None
BY OptionsFacts, DocumentLines DEF ProviderTypes, PendingType, NothingPending

\* What a load leaves pending.
LEMMA LoadPending ==
  ASSUME Types, CallLoad
  PROVE  /\ pending' \in PendingType /\ pending'.kind = pending.kind
         /\ pending'.frame = pending.frame
         /\ pending'.subs = doc /\ pending'.changed = NoLines
         /\ pending'.colour = pending.colour
<1> DEFINE o == MergeSubtitleUpdateOptions(pending.options, Head(todo).options)
<1>1. pending \in PendingType /\ doc \in Document /\ NoLines \in Lines
  BY PendingFacts, DocumentLines DEF Types, GuiTypes
<1>2. Head(todo) \in CallRecord
  BY HeadFacts DEF CallLoad, Calling, Types
<1>3. o \in Options
  BY <1>1, <1>2, OptionsFacts DEF PendingType, CallRecord
<1>4. pending' = [pending EXCEPT !.subs = doc, !.changed = NoLines, !.check_updated = FALSE,
                                 !.options = o]
  BY DEF CallLoad
<1> HIDE DEF o
<1> QED
  BY <1>1, <1>3, <1>4 DEF PendingType

\* What an update leaves pending.
LEMMA UpdatePending ==
  ASSUME Types, NEW known \in BOOLEAN, CallUpdate(known)
  PROVE  /\ pending' \in PendingType /\ pending'.kind = pending.kind
         /\ pending'.frame = pending.frame
         /\ pending'.subs = (IF known THEN pending.subs ELSE doc)
         /\ pending'.changed = (IF known
                                THEN Override(pending.changed, Restrict(doc, Head(todo).lines))
                                ELSE NoLines)
         /\ pending'.colour = pending.colour
<1> DEFINE o == MergeSubtitleUpdateOptions(pending.options, Head(todo).options)
           s == IF known THEN pending.subs ELSE doc
           c == IF known THEN Override(pending.changed, Restrict(doc, Head(todo).lines))
                         ELSE NoLines
           u == pending.check_updated \/ pending.kind # "request"
<1>1. /\ pending \in PendingType /\ doc \in Document /\ NoLines \in Lines
      /\ pending.changed \in Lines
  BY PendingFacts, DocumentLines DEF Types, GuiTypes, PendingType
<1>2. Head(todo) \in CallRecord
  BY HeadFacts DEF CallUpdate, Calling, Types
<1>3. o \in Options
  BY <1>1, <1>2, OptionsFacts DEF PendingType, CallRecord
<1>4. Restrict(doc, Head(todo).lines) \in Lines
  BY <1>1, <1>2, RestrictFacts DEF CallRecord
<1>5. c \in Lines
  BY <1>1, <1>4, OverrideLines
<1>6. s \in Document \cup {None}
  BY <1>1 DEF PendingType
<1>7. u \in BOOLEAN
  OBVIOUS
<1>8. pending' = [pending EXCEPT !.subs = s, !.changed = c, !.check_updated = u, !.options = o]
  BY DEF CallUpdate
<1> HIDE DEF o, s, c, u
<1>9. /\ pending' \in PendingType /\ pending'.kind = pending.kind
      /\ pending'.frame = pending.frame /\ pending'.subs = s /\ pending'.changed = c
      /\ pending'.colour = pending.colour
  BY <1>1, <1>3, <1>5, <1>6, <1>7, <1>8 DEF PendingType
<1> QED
  BY <1>9 DEF s, c

\* The other calls' pending work.
LEMMA OtherPending ==
  ASSUME Types, TodoShape, CallRequest \/ CallCancel \/ CallSetColorSpace
  PROVE  /\ pending' \in PendingType /\ (pending'.kind # "none" <=> pending'.frame \in Frame)
         /\ pending'.subs = pending.subs /\ pending'.changed = pending.changed
         /\ (CallRequest \/ CallCancel) => pending'.colour = pending.colour
         /\ CallSetColorSpace => pending'.colour = color_matrix
<1>1. /\ pending \in PendingType /\ (pending.kind # "none" <=> pending.frame \in Frame)
      /\ color_matrix \in Colour /\ None \notin Frame
  BY PendingFacts, NoneIsNot DEF Types, GuiTypes
<1>2. CASE CallRequest
  <2>1. Head(todo).frame \in Frame
    <3>1. todo # <<>> /\ Head(todo).call = "request"
      BY <1>2 DEF CallRequest, Calling
    <3>2. 1 \in 1 .. Len(todo) /\ Head(todo) = todo[1]
      BY <3>1, HeadFacts DEF Types
    <3> QED
      BY <3>1, <3>2 DEF TodoShape
  <2>2. pending' = [pending EXCEPT !.kind = "request", !.frame = Head(todo).frame,
                                   !.check_updated = FALSE]
    BY <1>2 DEF CallRequest
  <2>3. ~CallSetColorSpace
    BY <1>2 DEF CallRequest, CallSetColorSpace, Calling
  <2> QED
    BY <1>1, <2>1, <2>2, <2>3 DEF PendingType
<1>3. CASE CallCancel
  <2>1. pending' = [pending EXCEPT !.kind = "none", !.frame = None, !.check_updated = FALSE]
    BY <1>3 DEF CallCancel
  <2>2. ~CallSetColorSpace
    BY <1>3 DEF CallCancel, CallSetColorSpace, Calling
  <2> QED
    BY <1>1, <2>1, <2>2 DEF PendingType
<1>4. CASE CallSetColorSpace
  <2>1. pending' = [pending EXCEPT !.colour = color_matrix]
    BY <1>4 DEF CallSetColorSpace
  <2>2. ~CallRequest /\ ~CallCancel
    BY <1>4 DEF CallRequest, CallCancel, CallSetColorSpace, Calling
  <2> QED
    BY <1>1, <2>1, <2>2 DEF PendingType
<1> QED
  BY <1>2, <1>3, <1>4

\* What a seek to a recent packet leaves pending.
LEMMA ContextPending ==
  ASSUME Types, NEW p \in recent_render_packets, JumpToRecentFrame(p)
  PROVE  /\ pending' \in PendingType /\ pending'.kind = "context" /\ pending'.frame \in Frame
         /\ pending'.subs = pending.subs /\ pending'.changed = pending.changed
         /\ pending'.colour = pending.colour
<1>1. pending \in PendingType /\ p.frame \in Frame
  BY PendingFacts DEF Types, GuiTypes
<1>2. pending' = [pending EXCEPT !.kind = "context", !.frame = p.frame, !.check_updated = FALSE]
  BY DEF JumpToRecentFrame
<1> QED
  BY <1>1, <1>2 DEF PendingType

\* The names of the jobs that GUI calls post.
LEMMA SyncCallsAreJobs ==
  ASSUME Types, CallSync
  PROVE  /\ Head(todo).call \in SyncJobs /\ queue' = Append(queue, Head(todo).call)
         /\ queue' \in Seq(Job) /\ Len(queue') = Len(queue) + 1 /\ Len(queue) \in Nat
         /\ queue'[Len(queue) + 1] = Head(todo).call
         /\ \A i \in 1 .. Len(queue) : queue'[i] = queue[i]
<1>1. Head(todo).call \in SyncJobs /\ queue' = Append(queue, Head(todo).call)
  BY DEF CallSync
<1>2. queue \in Seq(Job) /\ Head(todo).call \in Job
  BY <1>1 DEF Types, ProviderTypes, Job
<1> QED
  BY <1>1, <1>2, AppendProperties, LenProperties

\* A job may be posted or taken.
LEMMA QueueFacts ==
  ASSUME ProviderTypes
  PROVE  /\ Len(queue) \in Nat /\ (queue # <<>> => Len(queue) \in Nat \ {0})
         /\ \A j \in Job : /\ Append(queue, j) \in Seq(Job)
                           /\ Len(Append(queue, j)) = Len(queue) + 1
                           /\ Append(queue, j)[Len(queue) + 1] = j
                           /\ \A i \in 1 .. Len(queue) : Append(queue, j)[i] = queue[i]
         /\ queue # <<>> =>
               /\ Head(queue) \in Job /\ Head(queue) = queue[1]
               /\ Tail(queue) \in Seq(Job) /\ Len(Tail(queue)) = Len(queue) - 1
               /\ \A i \in 1 .. Len(queue) - 1 : Tail(queue)[i] = queue[i + 1]
<1>1. queue \in Seq(Job)
  BY DEF ProviderTypes
<1>2. Len(queue) \in Nat /\ (queue # <<>> => Len(queue) \in Nat \ {0})
  BY <1>1, LenProperties, EmptySeq
<1>3. queue # <<>> => Head(queue) = queue[1]
  BY <1>1
<1> QED
  BY <1>1, <1>2, <1>3, AppendProperties, HeadTailProperties

\* The provider, over every step.
LEMMA ProviderTypesKept ==
  ASSUME Types, FinalCoversPending, TodoShape, [Next]_vars
  PROVE  ProviderTypes'
<1>0. ProviderTypes /\ frame_n \in Frame
  BY DEF Types, GuiTypes
<1>1. CASE CallLoad \/ \E known \in BOOLEAN : CallUpdate(known)
  <2>1. /\ pending' \in PendingType /\ pending'.kind = pending.kind
        /\ pending'.frame = pending.frame
    BY <1>1, LoadPending, UpdatePending
  <2>2. /\ content_version' = content_version + 1
        /\ UNCHANGED <<request_version, provider_version, processing_scheduled, prefetch, queue>>
    <3>1. CASE CallLoad
      BY <3>1 DEF CallLoad
    <3>2. ASSUME NEW known \in BOOLEAN, CallUpdate(known)
          PROVE  /\ content_version' = content_version + 1
                 /\ UNCHANGED <<request_version, provider_version, processing_scheduled,
                                prefetch, queue>>
      BY <3>2 DEF CallUpdate
    <3> QED
      BY <1>1, <3>1, <3>2
  <2> QED
    BY <1>0, <2>1, <2>2 DEF ProviderTypes
<1>2. CASE CallRequest \/ CallCancel \/ CallSetColorSpace
  <2>1. pending' \in PendingType /\ (pending'.kind # "none" <=> pending'.frame \in Frame)
    BY <1>2, OtherPending
  <2>2. content_version' \in Nat /\ request_version' \in Nat
    BY <1>0, <1>2 DEF CallRequest, CallCancel, CallSetColorSpace, ProviderTypes
  <2> QED
    BY <1>0, <1>2, <2>1, <2>2
       DEF CallRequest, CallCancel, CallSetColorSpace, ProviderTypes
<1>3. CASE CallSchedule
  <2>1. "process" \in Job
    BY DEF Job
  <2>2. queue' \in Seq(Job)
    BY <1>0, <1>3, <2>1, QueueFacts DEF CallSchedule, ProviderTypes
  <2> QED
    BY <1>0, <1>3, <2>2 DEF CallSchedule, ProviderTypes, versions
<1>4. CASE CallSync
  <2>1. queue' \in Seq(Job)
    BY <1>4, SyncCallsAreJobs
  <2> DEFINE b == prefetch.shutdown \/ Head(todo).call = "close"
  <2>2. b \in BOOLEAN /\ prefetch' = [prefetch EXCEPT !.shutdown = b]
    BY <1>4 DEF CallSync
  <2> HIDE DEF b
  <2>3. prefetch' \in PrefetchType
    BY <1>0, <2>2 DEF ProviderTypes, PrefetchType
  <2> QED
    BY <1>0, <1>4, <2>1, <2>3 DEF CallSync, ProviderTypes, versions
<1>5. CASE CallOpen
  <2>1. NoPrefetch \in PrefetchType
    BY DEF NoPrefetch, PrefetchType
  <2>2. /\ NothingPending \in PendingType
        /\ (NothingPending.kind # "none" <=> NothingPending.frame \in Frame)
    BY <1>0, PendingFacts, NoneIsNot
  <2>3. provider_version' \in Nat \ {0}
    BY <1>0, <1>5 DEF CallOpen, ProviderTypes
  <2>4. processing_scheduled' \in BOOLEAN
    BY <1>5 DEF CallOpen
  <2>5. /\ content_version' = 0 /\ request_version' = 0 /\ pending' = NothingPending
        /\ prefetch' = NoPrefetch /\ queue' = <<>>
    BY <1>5 DEF CallOpen
  <2> QED
    BY <2>1, <2>2, <2>3, <2>4, <2>5 DEF ProviderTypes
<1>6. CASE HandlerStep
  BY <1>0, <1>6 DEF HandlerStep, Elsewhere, versions, ProviderTypes
<1>7. ASSUME NEW p \in recent_render_packets, JumpToRecentFrame(p)
      PROVE  ProviderTypes'
  <2>1. pending' \in PendingType /\ pending'.kind = "context" /\ pending'.frame \in Frame
    BY <1>7, ContextPending
  <2>2. request_version' \in Nat
    BY <1>0, <1>7 DEF JumpToRecentFrame, ProviderTypes
  <2> QED
    BY <1>0, <1>7, <2>1, <2>2 DEF JumpToRecentFrame, ProviderTypes
<1>8. CASE PrefetchFrames
  <2>1. "prefetch" \in Job
    BY DEF Job
  <2>2. queue' \in Seq(Job)
    BY <1>0, <1>8, <2>1, QueueFacts DEF PrefetchFrames, ProviderTypes
  <2>3. frame_n + 1 \in Nat /\ FrameCount + 1 \in Nat
    BY <1>0, VideoAssumption DEF Frame
  <2>4. prefetch' = [prefetch EXCEPT !.next = frame_n + 1, !.end = FrameCount + 1,
           !.request = request_version, !.content = content_version, !.scheduled = TRUE]
    BY <1>8 DEF PrefetchFrames
  <2>5. prefetch' \in PrefetchType
    BY <1>0, <2>3, <2>4 DEF ProviderTypes, PrefetchType
  <2> QED
    BY <1>0, <1>8, <2>2, <2>5 DEF PrefetchFrames, ProviderTypes, versions
<1>9. CASE CancelFramePrefetch
  BY <1>0, <1>9 DEF CancelFramePrefetch, ProviderTypes, PrefetchType, Elsewhere, versions
<1>10. CASE Receive
  BY <1>0, <1>10 DEF Receive, ProviderTypes, versions
<1>11. CASE WorkStep
  <2>1. CASE StartJob
    BY <1>0, <2>1, QueueFacts DEF StartJob, ProviderTypes, versions
  <2>2. CASE TakeNothing \/ SkipStale \/ Render \/ Deliver \/ DeliverError
    BY <1>0, <2>2 DEF TakeNothing, SkipStale, Render, Deliver, DeliverError, ProviderTypes, versions
  <2>3. CASE Take
    <3>1. /\ NothingPending \in PendingType
          /\ (NothingPending.kind # "none" <=> NothingPending.frame \in Frame)
      BY <1>0, PendingFacts, NoneIsNot
    <3> QED
      BY <1>0, <2>3, <3>1 DEF Take, ProviderTypes, versions
  <2>4. CASE PrefetchOne
    <3>1. /\ [prefetch EXCEPT !.scheduled = FALSE] \in PrefetchType
          /\ [prefetch EXCEPT !.next = @ + 1] \in PrefetchType
      <4> DEFINE b == FALSE
      <4>1. b \in BOOLEAN
        OBVIOUS
      <4> HIDE DEF b
      <4>2. /\ [prefetch EXCEPT !.scheduled = b] \in PrefetchType
            /\ [prefetch EXCEPT !.next = @ + 1] \in PrefetchType
        BY <1>0, <4>1 DEF ProviderTypes, PrefetchType
      <4> QED
        BY <4>2 DEF b
    <3>2. /\ \/ prefetch' = [prefetch EXCEPT !.scheduled = FALSE]
             \/ prefetch' = [prefetch EXCEPT !.next = @ + 1]
          /\ UNCHANGED <<versions, pending, processing_scheduled, queue>>
      BY <2>4 DEF PrefetchOne
    <3> QED
      BY <1>0, <3>1, <3>2 DEF ProviderTypes, versions
  <2>5. CASE PrefetchRepost
    <3> DEFINE b == CanContinuePrefetchLocked
    <3>1. b \in BOOLEAN
      BY DEF CanContinuePrefetchLocked
    <3>2. prefetch' = [prefetch EXCEPT !.scheduled = b]
      BY <2>5 DEF PrefetchRepost
    <3>3. "prefetch" \in Job
      BY DEF Job
    <3>4. queue' \in Seq(Job)
      BY <1>0, <2>5, <3>3, QueueFacts DEF PrefetchRepost, ProviderTypes
    <3> HIDE DEF b
    <3>5. prefetch' \in PrefetchType
      BY <1>0, <3>1, <3>2 DEF ProviderTypes, PrefetchType
    <3> QED
      BY <1>0, <2>5, <3>4, <3>5 DEF PrefetchRepost, ProviderTypes, versions
  <2>6. CASE PrefetchFails
    BY <1>0, <2>6 DEF PrefetchFails, ProviderTypes, PrefetchType, versions
  <2> QED
    BY <1>11, <2>1, <2>2, <2>3, <2>4, <2>5, <2>6 DEF WorkStep
<1>12. CASE FinishStep
  <2>1. content_version' \in Nat
    BY <1>0, <1>12 DEF FinishStep, FinishRender, FinishTimecodes, FinishReplace, FinishClose,
       ForgetRendered, ProviderTypes, versions
  <2> QED
    BY <1>0, <1>12, <2>1 DEF FinishStep, FinishRender, FinishTimecodes, FinishReplace,
       FinishClose, ProviderTypes, versions
<1>13. UNCHANGED vars => ProviderTypes'
  BY <1>0 DEF vars, versions, ProviderTypes
<1> QED
  BY <1>1, <1>2, <1>3, <1>4, <1>5, <1>6, <1>7, <1>8, <1>9, <1>10, <1>11, <1>12, <1>13, Steps
     DEF CallStep

\* What the worker may be doing.
LEMMA IdleFacts ==
  Idle \in WorkerType /\ Idle.job = "none" /\ Idle.at = "idle" /\ Idle.packet = NoPacket
BY NoPacketType DEF WorkerType, Idle, Stage

\* The worker goes on to another stage of its job,
LEMMA StageFacts ==
  ASSUME NEW w \in WorkerType, NEW a \in Stage
  PROVE  LET v == [w EXCEPT !.at = a]
         IN  v \in WorkerType /\ v.at = a /\ v.job = w.job /\ v.packet = w.packet
BY DEF WorkerType

\* with a packet,
LEMMA PacketFacts ==
  ASSUME NEW w \in WorkerType, NEW a \in Stage, NEW p \in Packets
  PROVE  LET v == [w EXCEPT !.at = a, !.packet = p]
         IN  v \in WorkerType /\ v.at = a /\ v.job = w.job /\ v.packet = p
BY DEF WorkerType

\* or starts one.
LEMMA JobFacts ==
  ASSUME NEW j \in Job, NEW a \in Stage
  PROVE  LET v == [Idle EXCEPT !.job = j, !.at = a]
         IN  v \in WorkerType /\ v.at = a /\ v.job = j /\ v.packet = NoPacket
BY IdleFacts DEF WorkerType

\* The subtitles that the pending changes make of those the worker has.
LEMMA TakenSubsFacts ==
  ASSUME Types
  PROVE  /\ TakenSubs \in Document \cup {None}
         /\ TakenSubs = None <=> pending.subs = None /\ subs = None
         /\ pending.subs = None /\ subs # None => TakenSubs = Override(subs, pending.changed)
         /\ pending.subs # None => TakenSubs = Override(pending.subs, pending.changed)
         /\ ~HasContent => TakenSubs = subs
<1>1. /\ pending.subs \in Document \cup {None} /\ pending.changed \in Lines
      /\ subs \in Document \cup {None}
  BY PendingFacts DEF Types, PendingType, WorkerTypes
<1>2. \A d \in Document : Override(d, pending.changed) \in Document
  BY <1>1, OverrideFacts
<1> QED
  BY <1>1, <1>2, NoneIsNot, OverrideNothing DEF TakenSubs, HasContent

\* What the worker takes: a frame to render, a pass that it skips, or changes alone.
LEMMA TakeFacts ==
  ASSUME Types, Take
  PROVE  /\ subs' = TakenSubs /\ frame_number' \in Frame \cup {None}
         /\ \/ /\ worker' \in WorkerType
               /\ worker'.at = "render" /\ worker'.job = worker.job
               /\ worker'.packet.frame = frame_number' /\ worker'.packet.version = Version
               /\ frame_number' \in Frame
               /\ UNCHANGED history
            \/ worker' = worker /\ (Ended("skipped", drawn) \/ UNCHANGED history)
<1>1. /\ pending.kind # "none" => pending.frame \in Frame
      /\ pending.frame \in Frame \cup {None} /\ pending.options \in Options
      /\ frame_number \in Frame \cup {None} /\ worker \in WorkerType
  BY PendingFacts DEF Types, PendingType, WorkerTypes
<1>2. TakenFrame \in Frame \cup {None}
  BY <1>1 DEF TakenFrame
<1>3. HasFrame => TakenFrame \in Frame
  BY <1>1, <1>2 DEF HasFrame, TakenFrame
<1>4. /\ frame_number' = IF pending.kind = "context" \/ HasFrame THEN TakenFrame ELSE frame_number
      /\ subs' = TakenSubs
  BY DEF Take
<1>5. frame_number' \in Frame \cup {None}
  BY <1>1, <1>2, <1>4
<1> DEFINE skip == /\ pending.check_updated /\ ~pending.options.force
                   /\ ~NeedUpdate(single_frame', subs', frame_number')
           class == IF pending.kind = "request" THEN "every" ELSE pending.options.class
           id == IF pending.kind = "request" THEN 0 ELSE pending.options.id
           packet == [NoPacket EXCEPT !.frame = frame_number', !.version = Version,
                                      !.class = class, !.id = id]
<1>6. CASE HasFrame /\ ~skip
  <2>1. worker' = [worker EXCEPT !.at = "render", !.packet = packet] /\ UNCHANGED history
    BY <1>6 DEF Take
  <2>2. class \in {"every", "intermediate", "final"} /\ id \in Nat
    BY <1>1 DEF Options
  <2>3. Version \in [provider : Nat, content : Nat, request : Nat]
    BY VersionType DEF Types
  <2> HIDE DEF class, id
  <2>4. packet \in Packets /\ packet.frame = frame_number' /\ packet.version = Version
    BY ZenonT(60), <1>5, <2>2, <2>3, NoPacketType DEF Packets
  <2> HIDE DEF packet
  <2>5. frame_number' \in Frame
    BY <1>3, <1>4, <1>6
  <2>6. /\ worker' \in WorkerType /\ worker'.at = "render" /\ worker'.job = worker.job
        /\ worker'.packet = packet
    BY ZenonT(60), <1>1, <2>1, <2>4, PacketFacts DEF Stage
  <2> QED
    BY <1>4, <2>1, <2>4, <2>5, <2>6
<1>7. CASE ~(HasFrame /\ ~skip)
  <2>1. worker' = worker /\ (Ended("skipped", drawn) \/ UNCHANGED history)
    BY <1>7 DEF Take
  <2> QED
    BY <1>4, <1>5, <2>1
<1> QED
  BY <1>6, <1>7

\* What the worker has stays as long as it does nothing.
LEMMA WorkerStill == WorkerTypes /\ UNCHANGED <<worker, renderer, history>> => WorkerTypes'
BY DEF WorkerTypes, renderer, history

\* Rendering: the renderer's part, whether it succeeds or throws.
LEMMA RenderTypes ==
  ASSUME WorkerTypes, NEW f \in Frame, ProcRenderPacket(f) \/ VideoFails(f) \/ SubtitlesFail(f)
  PROVE  /\ cached_source' \in SourceType /\ loaded' \in Lines
         /\ single_frame' \in {NEW_SUBS_FILE, SUBS_FILE_ALREADY_LOADED} \cup Frame
<1>1. /\ LoadedFor(f) \in Lines /\ SourceFrame(f) \in SourceType
      /\ SingleFrame(f) \in {NEW_SUBS_FILE, SUBS_FILE_ALREADY_LOADED} \cup Frame
  BY DrawnFacts, NoPacketType
<1>2. CASE ProcRenderPacket(f)
  BY <1>1, <1>2 DEF ProcRenderPacket, WorkerTypes
<1>3. CASE VideoFails(f)
  BY <1>3 DEF VideoFails, WorkerTypes
<1>4. CASE SubtitlesFail(f)
  <2>1. single_frame' = IF single_frame = NEW_SUBS_FILE THEN f ELSE single_frame
    BY <1>4 DEF SubtitlesFail
  <2>2. cached_source' = SourceFrame(f) /\ loaded' = NoLines
    BY <1>4 DEF SubtitlesFail
  <2> QED
    BY <1>1, <2>1, <2>2, DocumentLines DEF WorkerTypes
<1> QED
  BY <1>2, <1>3, <1>4

\* The worker, over every step of its own.
LEMMA WorkTypes ==
  ASSUME Types, WorkerShape, WorkStep
  PROVE  WorkerTypes'
<1>0. WorkerTypes /\ worker \in WorkerType /\ worker.packet \in Packets
  BY DEF Types, WorkerTypes, WorkerType
<1>1. CASE StartJob
  <2>1. Head(queue) \in Job
    BY <1>1, QueueFacts DEF StartJob, Types
  <2>2. worker' \in WorkerType
    BY <1>1, <2>1, JobFacts DEF StartJob, Stage
  <2> QED
    BY <1>0, <1>1, <2>2 DEF StartJob, WorkerTypes, renderer, history
<1>2. CASE TakeNothing
  <2>1. worker' \in WorkerType
    BY <1>0, <1>2, IdleFacts, StageFacts DEF TakeNothing, Stage
  <2> QED
    BY <1>0, <1>2, <2>1 DEF TakeNothing, WorkerTypes, renderer, history
<1>3. CASE Take
  <2>1. subs' \in Document \cup {None} /\ frame_number' \in Frame \cup {None}
    BY <1>3, TakeFacts, TakenSubsFacts
  <2>2. worker' \in WorkerType
    BY <1>0, <1>3, TakeFacts
  <2>3. outcome' \in {"none", "drawn", "skipped", "failed", "unloaded"} /\ drawn' \in Packets
    <3>1. Ended("skipped", drawn) \/ UNCHANGED history
      BY <1>3, TakeFacts
    <3> QED
      BY <1>0, <3>1, EndedTypes DEF WorkerTypes, history
  <2>4. colour_space' \in Colour
    <3>1. pending.colour \in Colour \cup {None}
      BY PendingFacts DEF Types, PendingType
    <3> QED
      BY <1>0, <1>3, <3>1 DEF Take, WorkerTypes
  <2>5. cached_source' \in SourceType
    BY <1>0, <1>3 DEF Take, WorkerTypes, NoSource, SourceType
  <2>6. single_frame' \in {NEW_SUBS_FILE, SUBS_FILE_ALREADY_LOADED} \cup Frame
    BY <1>0, <1>3 DEF Take, WorkerTypes, NewSingleFrame
  <2>7. UNCHANGED <<subtitles_timecodes, loaded, last_rendered, last_lines>>
    BY <1>3 DEF Take
  <2> QED
    BY <1>0, <2>1, <2>2, <2>3, <2>4, <2>5, <2>6, <2>7 DEF WorkerTypes
<1>4. CASE SkipStale
  <2>1. worker' \in WorkerType
    BY <1>0, <1>4, PacketFacts, NoPacketType DEF SkipStale, Stage
  <2> QED
    BY <1>0, <1>4, <2>1 DEF SkipStale, WorkerTypes, renderer, history
<1>5. CASE Render
  <2> DEFINE f == worker.packet.frame
  <2>1. f \in Frame
    BY <1>5 DEF Render, WorkerShape
  <2>2. ProcRenderPacket(f) \/ VideoFails(f) \/ SubtitlesFail(f)
    BY <1>5 DEF Render
  <2>3. /\ cached_source' \in SourceType /\ loaded' \in Lines
        /\ single_frame' \in {NEW_SUBS_FILE, SUBS_FILE_ALREADY_LOADED} \cup Frame
    BY <1>0, <2>1, <2>2, RenderTypes
  <2>4. worker' \in WorkerType
    <3>1. Drawn(worker.packet, f) \in Packets
      BY <1>0, <2>1, DrawnFacts
    <3>2. \/ worker' = [worker EXCEPT !.at = "deliver", !.packet = Drawn(worker.packet, f)]
          \/ worker' = [worker EXCEPT !.at = "error"]
      BY <1>5 DEF Render
    <3>3. "deliver" \in Stage /\ "error" \in Stage
      BY DEF Stage
    <3>4. [worker EXCEPT !.at = "deliver", !.packet = Drawn(worker.packet, f)] \in WorkerType
      <4> DEFINE p == Drawn(worker.packet, f)
      <4>1. p \in Packets
        BY <3>1
      <4> HIDE DEF p
      <4>2. [worker EXCEPT !.at = "deliver", !.packet = p] \in WorkerType
        BY <1>0, <3>3, <4>1, PacketFacts
      <4> QED
        BY <4>2 DEF p
    <3>5. [worker EXCEPT !.at = "error"] \in WorkerType
      BY <1>0, <3>3, StageFacts
    <3> QED
      BY <3>2, <3>4, <3>5
  <2>5. outcome' \in {"none", "drawn", "skipped", "failed", "unloaded"} /\ drawn' \in Packets
    <3>1. Ended("unloaded", drawn) \/ UNCHANGED history
      BY <1>5 DEF Render
    <3> QED
      BY <1>0, <3>1, EndedTypes DEF WorkerTypes, history
  <2>6. UNCHANGED <<subs, colour_space, subtitles_timecodes, frame_number, last_rendered,
                    last_lines>>
    BY <1>5 DEF Render
  <2> QED
    BY <1>0, <2>3, <2>4, <2>5, <2>6 DEF WorkerTypes
<1>6. CASE Deliver
  <2>1. worker' \in WorkerType
    BY <1>0, <1>6, PacketFacts, NoPacketType DEF Deliver, Stage
  <2>2. frame_number \in Frame
    BY <1>6 DEF Deliver, WorkerShape
  <2>3. last_rendered' \in Frame \cup {None} /\ last_lines' \in Lines
    <3>1. VisibleLines(subs, subtitles_timecodes, frame_number) \in Lines
      BY <1>0, <2>2, VisibleFacts, DocumentLines DEF WorkerTypes
    <3> QED
      BY <1>0, <1>6, <2>2, <3>1 DEF Deliver, WorkerTypes
  <2>4. outcome' \in {"none", "drawn", "skipped", "failed", "unloaded"} /\ drawn' \in Packets
    <3>1. Ended("drawn", worker.packet) \/ UNCHANGED history
      BY <1>6 DEF Deliver
    <3> QED
      BY <1>0, <3>1, EndedTypes DEF WorkerTypes, history
  <2>5. UNCHANGED <<subs, colour_space, subtitles_timecodes, frame_number, single_frame, loaded,
                    cached_source>>
    BY <1>6 DEF Deliver
  <2> QED
    BY <1>0, <2>1, <2>3, <2>4, <2>5 DEF WorkerTypes
<1>7. CASE DeliverError
  <2>1. worker' \in WorkerType
    BY <1>0, <1>7, PacketFacts, NoPacketType DEF DeliverError, Stage
  <2>2. outcome' \in {"none", "drawn", "skipped", "failed", "unloaded"} /\ drawn' \in Packets
    <3>1. Ended("failed", drawn) \/ UNCHANGED history
      BY <1>7 DEF DeliverError
    <3> QED
      BY <1>0, <3>1, EndedTypes DEF WorkerTypes, history
  <2>3. UNCHANGED renderer
    BY <1>7 DEF DeliverError
  <2> QED
    BY <1>0, <2>1, <2>2, <2>3 DEF WorkerTypes, renderer
<1>8. CASE PrefetchOne \/ PrefetchRepost \/ PrefetchFails
  <2>1. /\ worker' = Idle \/ worker' = [worker EXCEPT !.at = "repost"]
        /\ UNCHANGED <<renderer, history>>
    BY <1>8 DEF PrefetchOne, PrefetchRepost, PrefetchFails
  <2>2. "repost" \in Stage
    BY DEF Stage
  <2>3. worker' \in WorkerType
    BY <1>0, <2>1, <2>2, IdleFacts, StageFacts
  <2> QED
    BY <1>0, <2>1, <2>3 DEF WorkerTypes, renderer, history
<1> QED
  BY <1>1, <1>2, <1>3, <1>4, <1>5, <1>6, <1>7, <1>8 DEF WorkStep

\* The worker, over the end of a job that the GUI thread waits for.
LEMMA FinishTypes ==
  ASSUME Types, FinishStep
  PROVE  WorkerTypes'
<1>0. WorkerTypes /\ frame_n \in Frame /\ timecodes \in Timecodes
  BY DEF Types, GuiTypes
<1>1. worker' = Idle /\ worker' \in WorkerType
  BY IdleFacts DEF FinishStep, FinishRender, FinishTimecodes, FinishReplace, FinishClose
<1>2. CASE FinishRender
  <2>1. ProcRenderPacket(frame_n) \/ VideoFails(frame_n) \/ SubtitlesFail(frame_n)
    BY <1>2 DEF FinishRender
  <2>2. /\ cached_source' \in SourceType /\ loaded' \in Lines
        /\ single_frame' \in {NEW_SUBS_FILE, SUBS_FILE_ALREADY_LOADED} \cup Frame
    BY <1>0, <2>1, RenderTypes
  <2>3. outcome' \in {"none", "drawn", "skipped", "failed", "unloaded"} /\ drawn' \in Packets
    <3>1. Ended("drawn", drawn) \/ Ended("failed", drawn) \/ Ended("unloaded", drawn)
      BY <1>2 DEF FinishRender
    <3>2. drawn \in Packets
      BY <1>0 DEF WorkerTypes
    <3> QED
      BY <1>0, <3>1, <3>2, EndedTypes
  <2>4. frame_number' \in Frame \cup {None}
    BY <1>0, <1>2 DEF FinishRender, WorkerTypes
  <2>5. UNCHANGED <<subs, colour_space, subtitles_timecodes, last_rendered, last_lines>>
    BY <1>2 DEF FinishRender
  <2> QED
    BY <1>0, <1>1, <2>2, <2>3, <2>4, <2>5 DEF WorkerTypes
<1>3. CASE FinishTimecodes \/ FinishReplace
  <2>1. /\ single_frame' = NEW_SUBS_FILE /\ last_rendered' = None /\ last_lines' = NoLines
        /\ cached_source' = NoSource
        /\ UNCHANGED <<subs, colour_space, frame_number, history>>
        /\ loaded' \in {NoLines, loaded}
        /\ subtitles_timecodes' \in {timecodes, subtitles_timecodes}
    BY <1>3 DEF FinishTimecodes, FinishReplace, ForgetRendered
  <2>2. NoSource \in SourceType /\ NoLines \in Lines
    BY DocumentLines DEF NoSource, SourceType
  <2> QED
    BY <1>0, <1>1, <2>1, <2>2 DEF WorkerTypes, history
<1>4. CASE FinishClose
  BY <1>0, <1>1, <1>4 DEF FinishClose, WorkerTypes, renderer, history
<1> QED
  BY <1>2, <1>3, <1>4 DEF FinishStep

\* The worker, over every step.
LEMMA WorkerTypesKept ==
  ASSUME Types, FinalCoversPending, WorkerShape, [Next]_vars
  PROVE  WorkerTypes'
<1>0. WorkerTypes /\ color_matrix \in Colour /\ timecodes \in Timecodes
  BY DEF Types, GuiTypes
<1>1. CASE CallStep
  <2>1. UNCHANGED <<worker, renderer, history>>
    BY <1>1 DEF CallStep, CallLoad, CallRequest, CallCancel, CallSetColorSpace, CallSchedule,
       CallSync, CallUpdate
  <2> QED
    BY <1>0, <2>1, WorkerStill
<1>2. CASE CallOpen
  <2>1. /\ worker' = Idle /\ subs' = None /\ colour_space' = color_matrix
        /\ subtitles_timecodes' = timecodes /\ frame_number' = None
        /\ single_frame' = NEW_SUBS_FILE /\ loaded' = NoLines /\ last_rendered' = None
        /\ last_lines' = NoLines /\ cached_source' = NoSource /\ UNCHANGED history
    BY <1>2 DEF CallOpen
  <2>2. NoSource \in SourceType /\ NoLines \in Lines
    BY DocumentLines DEF NoSource, SourceType
  <2> QED
    BY <1>0, <2>1, <2>2, IdleFacts DEF WorkerTypes, history
<1>3. CASE HandlerStep
  BY <1>0, <1>3, WorkerStill DEF HandlerStep, Elsewhere
<1>4. ASSUME NEW p \in recent_render_packets, JumpToRecentFrame(p)
      PROVE  WorkerTypes'
  BY <1>0, <1>4, WorkerStill DEF JumpToRecentFrame
<1>5. CASE PrefetchFrames \/ CancelFramePrefetch \/ Receive
  BY <1>0, <1>5, WorkerStill DEF PrefetchFrames, CancelFramePrefetch, Receive, Elsewhere
<1>6. UNCHANGED vars => WorkerTypes'
  BY <1>0, WorkerStill DEF vars
<1> QED
  BY <1>1, <1>2, <1>3, <1>4, <1>5, <1>6, WorkTypes, FinishTypes, Steps

\* All types, over every step.
LEMMA TypesKept ==
  ASSUME Types, Jobs, FinalCoversPending, [Next]_vars
  PROVE  Types'
BY GuiTypesKept, TodoTypesKept, ProviderTypesKept, WorkerTypesKept DEF Types, Jobs
-----------------------------------------------------------------------------
(***************************************************************************)
(* The jobs                                                                *)
(***************************************************************************)
\* What a call leaves alone; it is not a wait.
LEMMA CallEffects ==
  ASSUME CallStep
  PROVE  /\ todo # <<>> /\ ~Calling("wait")
         /\ UNCHANGED <<gui, provider_version, worker, renderer, host, history>>
<1>1. ASSUME NEW known \in BOOLEAN, CallUpdate(known)
      PROVE  todo # <<>> /\ Head(todo).call = "update"
             /\ UNCHANGED <<gui, provider_version, worker, renderer, host, history>>
  BY <1>1 DEF CallUpdate, Calling
<1>2. CallLoad => todo # <<>> /\ Head(todo).call = "load"
                  /\ UNCHANGED <<gui, provider_version, worker, renderer, host, history>>
  BY DEF CallLoad, Calling
<1>3. CallRequest => todo # <<>> /\ Head(todo).call = "request"
                  /\ UNCHANGED <<gui, provider_version, worker, renderer, host, history>>
  BY DEF CallRequest, Calling
<1>4. CallCancel => todo # <<>> /\ Head(todo).call = "cancel"
                  /\ UNCHANGED <<gui, provider_version, worker, renderer, host, history>>
  BY DEF CallCancel, Calling
<1>5. CallSetColorSpace => todo # <<>> /\ Head(todo).call = "colour"
                  /\ UNCHANGED <<gui, provider_version, worker, renderer, host, history>>
  BY DEF CallSetColorSpace, Calling
<1>6. CallSchedule => todo # <<>> /\ Head(todo).call = "schedule"
                  /\ UNCHANGED <<gui, provider_version, worker, renderer, host, history>>
  BY DEF CallSchedule, Calling, versions
<1>7. CallSync => todo # <<>> /\ Head(todo).call \in SyncJobs
                  /\ UNCHANGED <<gui, provider_version, worker, renderer, host, history>>
  BY DEF CallSync, versions
<1> QED
  BY <1>1, <1>2, <1>3, <1>4, <1>5, <1>6, <1>7 DEF CallStep, Calling, SyncJobs

\* Unless the GUI thread waits there is no job to wait for.
LEMMA NotWaiting ==
  ASSUME SyncIsAwaited, ~Calling("wait")
  PROVE  worker.job \notin SyncJobs /\ \A i \in 1 .. Len(queue) : queue[i] \notin SyncJobs
BY DEF SyncIsAwaited

\* A step of the worker starts a job, goes on with it, or ends one nobody waits for.
LEMMA WorkJobs ==
  ASSUME Types, WorkerShape, WorkStep
  PROVE  /\ todo' = todo /\ prefetch'.shutdown = prefetch.shutdown
         /\ \/ /\ worker = Idle /\ queue # <<>> /\ worker'.job = Head(queue)
               /\ queue' = Tail(queue) /\ prefetch' = prefetch
            \/ /\ worker # Idle /\ worker'.job = worker.job /\ queue' = queue
               /\ prefetch'.scheduled = prefetch.scheduled
            \/ worker.job = "process" /\ worker' = Idle /\ queue' = queue /\ prefetch' = prefetch
            \/ worker.job = "prefetch" /\ worker' = Idle /\ queue' = queue
            \/ /\ worker.job = "prefetch" /\ worker' = Idle /\ queue' = Append(queue, "prefetch")
               /\ prefetch'.scheduled /\ ~prefetch.shutdown
<1>0. worker \in WorkerType /\ prefetch \in PrefetchType
  BY DEF Types, WorkerTypes, ProviderTypes
<1>1. CASE StartJob
  <2>1. Head(queue) \in Job /\ "prefetch" \in Stage /\ "take" \in Stage
    BY <1>1, QueueFacts DEF StartJob, Types, Stage
  <2>2. worker'.job = Head(queue)
    BY <1>1, <2>1, JobFacts DEF StartJob
  <2> QED
    BY <1>1, <2>2 DEF StartJob
<1>2. CASE TakeNothing
  <2>1. worker # Idle
    BY <1>2, IdleFacts DEF TakeNothing
  <2>2. CASE worker.job = "process"
    BY <1>2, <2>2 DEF TakeNothing
  <2>3. CASE worker.job # "process"
    <3>1. worker'.job = worker.job
      BY <1>0, <1>2, <2>3, StageFacts DEF TakeNothing, Stage
    <3> QED
      BY <1>2, <2>1, <3>1 DEF TakeNothing
  <2> QED
    BY <2>2, <2>3
<1>3. CASE Take
  <2>1. worker'.job = worker.job
    BY <1>3, TakeFacts
  <2> QED
    BY <1>3, <2>1, IdleFacts DEF Take
<1>4. CASE SkipStale \/ Deliver \/ DeliverError
  <2>0. worker' = [worker EXCEPT !.at = "take", !.packet = NoPacket]
    BY <1>4 DEF SkipStale, Deliver, DeliverError
  <2>1. worker'.job = worker.job
    BY <1>0, <2>0 DEF WorkerType
  <2> QED
    BY <1>4, <2>1, IdleFacts DEF SkipStale, Deliver, DeliverError
<1>5. CASE Render
  <2>1. \/ worker' = [worker EXCEPT !.at = "deliver",
                                     !.packet = Drawn(worker.packet, worker.packet.frame)]
        \/ worker' = [worker EXCEPT !.at = "error"]
    BY <1>5 DEF Render
  <2>2. worker'.job = worker.job
    BY <1>0, <2>1 DEF WorkerType
  <2> QED
    BY <1>5, <2>2, IdleFacts DEF Render
<1>6. CASE PrefetchOne
  <2>1. worker.job = "prefetch" /\ worker # Idle /\ "repost" \in Stage
    BY <1>6, IdleFacts DEF PrefetchOne, WorkerShape, Stage
  <2>2. CASE CanContinuePrefetchLocked
    <3>0. worker' = [worker EXCEPT !.at = "repost"]
      BY <1>6, <2>2 DEF PrefetchOne
    <3>1. worker'.job = worker.job
      BY <1>0, <3>0 DEF WorkerType
    <3>2. prefetch'.scheduled = prefetch.scheduled /\ prefetch'.shutdown = prefetch.shutdown
      BY <1>0, <1>6, <2>2 DEF PrefetchOne, PrefetchType
    <3> QED
      BY <1>6, <2>1, <3>1, <3>2 DEF PrefetchOne
  <2>3. CASE ~CanContinuePrefetchLocked
    <3>1. prefetch'.shutdown = prefetch.shutdown
      BY <1>0, <1>6, <2>3 DEF PrefetchOne, PrefetchType
    <3> QED
      BY <1>6, <2>1, <2>3, <3>1 DEF PrefetchOne
  <2> QED
    BY <2>2, <2>3
<1>7. CASE PrefetchRepost
  <2>1. worker.job = "prefetch"
    BY <1>7 DEF PrefetchRepost, WorkerShape
  <2>2. prefetch'.shutdown = prefetch.shutdown /\ prefetch'.scheduled = CanContinuePrefetchLocked
    BY <1>0, <1>7 DEF PrefetchRepost, PrefetchType
  <2>3. CASE CanContinuePrefetchLocked
    <3>1. ~prefetch.shutdown
      BY <2>3 DEF CanContinuePrefetchLocked
    <3> QED
      BY <1>7, <2>1, <2>2, <2>3, <3>1 DEF PrefetchRepost
  <2>4. CASE ~CanContinuePrefetchLocked
    BY <1>7, <2>1, <2>2, <2>4 DEF PrefetchRepost
  <2> QED
    BY <2>3, <2>4
<1>8. CASE PrefetchFails
  <2>1. worker.job = "prefetch"
    BY <1>8 DEF PrefetchFails, WorkerShape
  <2>2. prefetch'.shutdown = prefetch.shutdown
    BY <1>0, <1>8 DEF PrefetchFails, PrefetchType
  <2> QED
    BY <1>8, <2>1, <2>2 DEF PrefetchFails
<1> QED
  BY <1>1, <1>2, <1>3, <1>4, <1>5, <1>6, <1>7, <1>8 DEF WorkStep

\* The end of a job that the GUI thread waited for.
LEMMA FinishEffects ==
  ASSUME FinishStep
  PROVE  /\ worker.job \in SyncJobs /\ worker.at = "finish" /\ worker' = Idle /\ Return
         /\ UNCHANGED <<request_version, provider_version, pending, prefetch, queue, host>>
BY DEF FinishStep, FinishRender, FinishTimecodes, FinishReplace, FinishClose, SyncJobs, versions

\* The kinds of step of the GUI thread that leave the worker and its queue alone.
Aside == HandlerStep \/ CancelFramePrefetch \/ Receive
         \/ \E p \in recent_render_packets : JumpToRecentFrame(p)
LEMMA AsideEffects ==
  ASSUME Types, Aside
  PROVE  /\ UNCHANGED <<provider_version, content_version, processing_scheduled, queue, worker,
                        renderer, history>>
         /\ prefetch'.scheduled = prefetch.scheduled /\ prefetch'.shutdown = prefetch.shutdown
         /\ todo = <<>> \/ todo' = todo
         /\ todo = <<>> \/ pending' = pending
<1>0. prefetch \in PrefetchType
  BY DEF Types, ProviderTypes
<1>1. CASE HandlerStep
  BY <1>1 DEF HandlerStep, Elsewhere, versions
<1>2. CASE CancelFramePrefetch
  <2>1. prefetch'.scheduled = prefetch.scheduled /\ prefetch'.shutdown = prefetch.shutdown
    BY <1>0, <1>2 DEF CancelFramePrefetch, PrefetchType
  <2> QED
    BY <1>2, <2>1 DEF CancelFramePrefetch, Handler, Elsewhere, versions
<1>3. CASE Receive
  BY <1>3 DEF Receive, versions
<1>4. CASE \E p \in recent_render_packets : JumpToRecentFrame(p)
  BY <1>4 DEF JumpToRecentFrame, Handler
<1> QED
  BY <1>1, <1>2, <1>3, <1>4 DEF Aside

\* The steps, by what they do to the worker and its queue.
LEMMA StepKinds ==
  ASSUME Types, FinalCoversPending, [Next]_vars
  PROVE  \/ CallStep \/ CallOpen \/ Aside \/ PrefetchFrames \/ WorkStep \/ FinishStep
         \/ UNCHANGED vars
BY Steps DEF Aside

\* Who waits for whom, over every step.
LEMMA SyncIsAwaitedKept ==
  ASSUME Types, WorkerShape, SyncIsAwaited, FinalCoversPending, [Next]_vars
  PROVE  SyncIsAwaited'
<1>0. TodoTypes /\ ProviderTypes
  BY DEF Types
<1>1. CASE CallStep
  <2>1. /\ worker' = worker /\ worker.job \notin SyncJobs
        /\ \A i \in 1 .. Len(queue) : queue[i] \notin SyncJobs
    BY <1>1, CallEffects, NotWaiting
  <2>2. CASE CallSync
    <3>1. /\ Len(queue') = Len(queue) + 1 /\ Len(queue) \in Nat
          /\ \A i \in 1 .. Len(queue) : queue'[i] = queue[i]
      BY <2>2, SyncCallsAreJobs
    <3>2. todo # <<>> /\ todo' = <<Call("wait")>> \o Tail(todo)
      BY <2>2 DEF CallSync
    <3>3. Call("wait") \in CallRecord /\ Call("wait").call = "wait"
      BY CallFacts DEF CallName
    <3>4. todo' \in Seq(CallRecord) /\ Len(todo') > 0 /\ todo'[1].call = "wait"
      BY <1>0, <3>2, <3>3, ReplaceFacts, HeadFacts DEF TodoTypes
    <3>5. Calling("wait")'
      BY <3>4 DEF Calling
    <3> QED
      BY <2>1, <3>1, <3>5 DEF SyncIsAwaited
  <2>3. CASE CallSchedule
    <3>1. queue' = queue \/ queue' = Append(queue, "process")
      BY <2>3 DEF CallSchedule
    <3>2. "process" \in Job /\ "process" \notin SyncJobs
      BY DEF Job, SyncJobs
    <3>3. \A i \in 1 .. Len(queue') : queue'[i] \notin SyncJobs
      BY <1>0, <2>1, <3>1, <3>2, QueueFacts
    <3> QED
      BY <2>1, <3>3 DEF SyncIsAwaited
  <2>4. CASE ~CallSync /\ ~CallSchedule
    <3>1. queue' = queue
      BY <1>1, <2>4 DEF CallStep, CallLoad, CallRequest, CallCancel, CallSetColorSpace, CallUpdate
    <3> QED
      BY <2>1, <3>1 DEF SyncIsAwaited
  <2> QED
    BY <2>2, <2>3, <2>4
<1>2. CASE CallOpen
  <2>1. worker' = Idle /\ queue' = <<>>
    BY <1>2 DEF CallOpen
  <2> QED
    BY <2>1, IdleFacts DEF SyncIsAwaited, SyncJobs
<1>3. CASE Aside
  <2>1. worker' = worker /\ queue' = queue /\ (todo = <<>> \/ todo' = todo)
    BY <1>3, AsideEffects
  <2>2. CASE todo = <<>>
    BY <2>1, <2>2, NotWaiting DEF SyncIsAwaited, Calling
  <2>3. CASE todo' = todo
    BY <2>1, <2>3 DEF SyncIsAwaited, Calling
  <2> QED
    BY <2>1, <2>2, <2>3
<1>4. CASE PrefetchFrames
  <2>1. ~Calling("wait") /\ worker' = worker
        /\ (queue' = queue \/ queue' = Append(queue, "prefetch"))
    BY <1>4 DEF PrefetchFrames, Handler, Calling
  <2>2. "prefetch" \in Job /\ "prefetch" \notin SyncJobs
    BY DEF Job, SyncJobs
  <2>3. \A i \in 1 .. Len(queue') : queue'[i] \notin SyncJobs
    BY <1>0, <2>1, <2>2, NotWaiting, QueueFacts
  <2> QED
    BY <2>1, <2>3, NotWaiting DEF SyncIsAwaited
<1>5. CASE WorkStep
  <2>1. todo' = todo
    BY <1>5, WorkJobs
  <2>2. CASE worker = Idle /\ queue # <<>> /\ worker'.job = Head(queue) /\ queue' = Tail(queue)
    <3>1. /\ Len(queue) \in Nat \ {0} /\ Head(queue) = queue[1] /\ Len(queue') = Len(queue) - 1
          /\ \A i \in 1 .. Len(queue) - 1 : queue'[i] = queue[i + 1]
      BY <1>0, <2>2, QueueFacts
    <3>2. \A i, j \in 1 .. Len(queue) : queue[i] \in SyncJobs /\ queue[j] \in SyncJobs =>
             i = j /\ Calling("wait")
      BY DEF SyncIsAwaited
    <3>3. ASSUME worker'.job \in SyncJobs
          PROVE  Calling("wait") /\ \A i \in 1 .. Len(queue') : queue'[i] \notin SyncJobs
      BY <2>2, <3>1, <3>2, <3>3
    <3>4. ASSUME NEW i \in 1 .. Len(queue'), queue'[i] \in SyncJobs
          PROVE  Calling("wait") /\ \A j \in 1 .. Len(queue') : queue'[j] \in SyncJobs => i = j
      <4>1. i + 1 \in 1 .. Len(queue) /\ queue[i + 1] \in SyncJobs
        BY <3>1, <3>4
      <4>2. ASSUME NEW j \in 1 .. Len(queue'), queue'[j] \in SyncJobs
            PROVE  i = j
        <5>1. j + 1 \in 1 .. Len(queue) /\ queue[j + 1] \in SyncJobs
          BY <3>1, <4>2
        <5>2. i + 1 = j + 1
          BY <3>2, <4>1, <5>1
        <5> QED
          BY <3>1, <5>2
      <4>3. Calling("wait")
        BY <3>2, <4>1
      <4> QED
        BY <4>2, <4>3
    <3> QED
      BY <2>1, <3>3, <3>4 DEF SyncIsAwaited, Calling
  <2>3. CASE worker'.job = worker.job /\ queue' = queue
    BY <2>1, <2>3 DEF SyncIsAwaited, Calling
  <2>4. CASE worker' = Idle /\ queue' = queue
    <3>1. worker'.job \notin SyncJobs
      BY <2>4, IdleFacts DEF SyncJobs
    <3> QED
      BY <2>1, <2>4, <3>1 DEF SyncIsAwaited, Calling
  <2>5. CASE worker' = Idle /\ queue' = Append(queue, "prefetch")
    <3>1. worker'.job \notin SyncJobs /\ "prefetch" \notin SyncJobs /\ "prefetch" \in Job
      BY <2>5, IdleFacts DEF SyncJobs, Job
    <3>2. /\ Len(queue') = Len(queue) + 1 /\ Len(queue) \in Nat
          /\ queue'[Len(queue) + 1] \notin SyncJobs
          /\ \A i \in 1 .. Len(queue) : queue'[i] = queue[i]
      BY <1>0, <2>5, <3>1, QueueFacts
    <3>3. \A i \in 1 .. Len(queue') : queue'[i] \in SyncJobs =>
             i \in 1 .. Len(queue) /\ queue[i] \in SyncJobs
      BY <3>2
    <3> QED
      BY <2>1, <3>1, <3>3 DEF SyncIsAwaited, Calling
  <2> QED
    BY <1>5, <2>2, <2>3, <2>4, <2>5, WorkJobs
<1>6. CASE FinishStep
  <2>1. worker.job \in SyncJobs /\ worker' = Idle /\ queue' = queue
    BY <1>6, FinishEffects
  <2>2. \A i \in 1 .. Len(queue) : queue[i] \notin SyncJobs
    BY <2>1 DEF SyncIsAwaited
  <2> QED
    BY <2>1, <2>2, IdleFacts DEF SyncIsAwaited, SyncJobs
<1>7. CASE UNCHANGED vars
  BY <1>7 DEF vars, SyncIsAwaited, Calling
<1> QED
  BY <1>1, <1>2, <1>3, <1>4, <1>5, <1>6, <1>7, StepKinds

\* The prefetch chain, over every step.
LEMMA OneLinkKept ==
  ASSUME Types, WorkerShape, OneLink, FinalCoversPending, [Next]_vars
  PROVE  OneLink'
<1>0. ProviderTypes /\ prefetch \in PrefetchType
  BY DEF Types, ProviderTypes
<1>1. CASE CallStep
  <2>1. worker' = worker
    BY <1>1, CallEffects
  <2>2. CASE CallSync
    <3>1. /\ Len(queue') = Len(queue) + 1 /\ Len(queue) \in Nat
          /\ queue'[Len(queue) + 1] # "prefetch"
          /\ \A i \in 1 .. Len(queue) : queue'[i] = queue[i]
      BY <2>2, SyncCallsAreJobs DEF SyncJobs
    <3>2. \A i \in 1 .. Len(queue') : queue'[i] = "prefetch" =>
             i \in 1 .. Len(queue) /\ queue[i] = "prefetch"
      BY <3>1
    <3>3. prefetch'.scheduled = prefetch.scheduled
      BY <1>0, <2>2 DEF CallSync, PrefetchType
    <3> QED
      BY <2>1, <3>2, <3>3 DEF OneLink
  <2>3. CASE CallSchedule
    <3>1. queue' = queue \/ queue' = Append(queue, "process")
      BY <2>3 DEF CallSchedule
    <3>2. "process" \in Job
      BY DEF Job
    <3>3. \A i \in 1 .. Len(queue') : queue'[i] = "prefetch" =>
             i \in 1 .. Len(queue) /\ queue[i] = "prefetch"
      BY <1>0, <3>1, <3>2, QueueFacts
    <3>4. prefetch' = prefetch
      BY <2>3 DEF CallSchedule
    <3> QED
      BY <2>1, <3>3, <3>4 DEF OneLink
  <2>4. CASE ~CallSync /\ ~CallSchedule
    <3>1. queue' = queue /\ prefetch' = prefetch
      BY <1>1, <2>4 DEF CallStep, CallLoad, CallRequest, CallCancel, CallSetColorSpace, CallUpdate
    <3> QED
      BY <2>1, <3>1 DEF OneLink
  <2> QED
    BY <2>2, <2>3, <2>4
<1>2. CASE CallOpen
  <2>1. worker' = Idle /\ queue' = <<>>
    BY <1>2 DEF CallOpen
  <2> QED
    BY <2>1, IdleFacts DEF OneLink
<1>3. CASE Aside
  BY <1>3, AsideEffects DEF OneLink
<1>4. CASE PrefetchFrames
  <2>1. worker' = worker /\ prefetch'.scheduled
    BY <1>0, <1>4 DEF PrefetchFrames, PrefetchType
  <2>2. CASE prefetch.scheduled
    <3>1. queue' = queue
      BY <1>4, <2>2 DEF PrefetchFrames
    <3> QED
      BY <2>1, <3>1 DEF OneLink
  <2>3. CASE ~prefetch.scheduled
    <3>1. queue' = Append(queue, "prefetch") /\ "prefetch" \in Job
      BY <1>4, <2>3 DEF PrefetchFrames, Job
    <3>2. worker.job # "prefetch" /\ \A i \in 1 .. Len(queue) : queue[i] # "prefetch"
      BY <2>3 DEF OneLink
    <3>3. /\ Len(queue') = Len(queue) + 1 /\ Len(queue) \in Nat
          /\ \A i \in 1 .. Len(queue) : queue'[i] = queue[i]
      BY <1>0, <3>1, QueueFacts
    <3>4. \A i \in 1 .. Len(queue') : queue'[i] = "prefetch" => i = Len(queue) + 1
      BY <3>2, <3>3
    <3> QED
      BY <2>1, <3>2, <3>4 DEF OneLink
  <2> QED
    BY <2>2, <2>3
<1>5. CASE WorkStep
  <2>2. CASE /\ worker = Idle /\ queue # <<>> /\ worker'.job = Head(queue)
             /\ queue' = Tail(queue) /\ prefetch' = prefetch
    <3>1. /\ Len(queue) \in Nat \ {0} /\ Head(queue) = queue[1] /\ Len(queue') = Len(queue) - 1
          /\ \A i \in 1 .. Len(queue) - 1 : queue'[i] = queue[i + 1]
      BY <1>0, <2>2, QueueFacts
    <3>2. \A i, j \in 1 .. Len(queue) : queue[i] = "prefetch" /\ queue[j] = "prefetch" =>
             i = j /\ prefetch.scheduled
      BY DEF OneLink
    <3>3. ASSUME worker'.job = "prefetch"
          PROVE  prefetch.scheduled /\ \A i \in 1 .. Len(queue') : queue'[i] # "prefetch"
      BY <2>2, <3>1, <3>2, <3>3
    <3>4. ASSUME NEW i \in 1 .. Len(queue'), queue'[i] = "prefetch"
          PROVE  prefetch.scheduled /\ \A j \in 1 .. Len(queue') : queue'[j] = "prefetch" => i = j
      <4>1. i + 1 \in 1 .. Len(queue) /\ queue[i + 1] = "prefetch"
        BY <3>1, <3>4
      <4>2. ASSUME NEW j \in 1 .. Len(queue'), queue'[j] = "prefetch"
            PROVE  i = j
        <5>1. j + 1 \in 1 .. Len(queue) /\ queue[j + 1] = "prefetch"
          BY <3>1, <4>2
        <5>2. i + 1 = j + 1
          BY <3>2, <4>1, <5>1
        <5> QED
          BY <3>1, <5>2
      <4>3. prefetch.scheduled
        BY <3>2, <4>1
      <4> QED
        BY <4>2, <4>3
    <3> QED
      BY <2>2, <3>3, <3>4 DEF OneLink
  <2>3. CASE worker'.job = worker.job /\ queue' = queue /\ prefetch'.scheduled = prefetch.scheduled
    BY <2>3 DEF OneLink
  <2>4. CASE worker' = Idle /\ queue' = queue /\ prefetch' = prefetch
    BY <2>4, IdleFacts DEF OneLink
  <2>5. CASE worker.job = "prefetch" /\ worker' = Idle /\ queue' = queue
    BY <2>5, IdleFacts DEF OneLink
  <2>6. CASE /\ worker.job = "prefetch" /\ worker' = Idle /\ queue' = Append(queue, "prefetch")
             /\ prefetch'.scheduled
    <3>1. worker'.job # "prefetch" /\ "prefetch" \in Job
      BY <2>6, IdleFacts DEF Job
    <3>2. /\ Len(queue') = Len(queue) + 1 /\ Len(queue) \in Nat
          /\ \A i \in 1 .. Len(queue) : queue'[i] = queue[i]
      BY <1>0, <2>6, <3>1, QueueFacts
    <3>3. \A i \in 1 .. Len(queue) : queue[i] # "prefetch"
      BY <2>6 DEF OneLink
    <3>4. \A i \in 1 .. Len(queue') : queue'[i] = "prefetch" => i = Len(queue) + 1
      BY <3>2, <3>3
    <3> QED
      BY <2>6, <3>1, <3>4 DEF OneLink
  <2> QED
    BY <1>5, <2>2, <2>3, <2>4, <2>5, <2>6, WorkJobs
<1>6. CASE FinishStep
  BY <1>6, FinishEffects, IdleFacts DEF OneLink
<1>7. CASE UNCHANGED vars
  BY <1>7 DEF vars, OneLink
<1> QED
  BY <1>1, <1>2, <1>3, <1>4, <1>5, <1>6, <1>7, StepKinds

\* The calls of a handler, over every step.
LEMMA TodoShapeKept ==
  ASSUME Types, WorkerShape, SyncIsAwaited, TodoShape, FinalCoversPending, [Next]_vars
  PROVE  TodoShape'
<1>0. TodoTypes /\ ProviderTypes /\ prefetch \in PrefetchType
  BY DEF Types, ProviderTypes
<1>1. CASE CallStep /\ ~CallSync
  <2>1. todo # <<>> /\ (ReturnScheduling \/ Return)
    BY <1>1 DEF CallStep, CallLoad, CallRequest, CallCancel, CallSetColorSpace, CallSchedule,
       CallUpdate, Calling
  <2>2. todo[1].call \notin {"open", "close", "wait"}
    <3>1. Head(todo) = todo[1]
      BY <1>0, <2>1, HeadFacts
    <3> QED
      BY <1>1, <3>1 DEF CallStep, CallLoad, CallRequest, CallCancel, CallSetColorSpace,
         CallSchedule, CallUpdate, Calling
  <2>3. ASSUME NEW i \in 1 .. Len(todo)
        PROVE  todo[i].call \notin {"open", "close", "wait"}
    <3>1. i = 1 \/ i # 1
      OBVIOUS
    <3> QED
      BY <2>2, <3>1 DEF TodoShape
  <2>4. CASE ReturnScheduling
    <3>1. /\ Len(todo') = Len(todo) /\ todo'[1].call = "schedule"
          /\ \A i \in 2 .. Len(todo) : todo'[i] = todo[i]
      BY <1>0, <2>1, <2>4, ReturnSchedulingFacts
    <3>2. ASSUME NEW i \in 1 .. Len(todo')
          PROVE  i = 1 \/ (i \in 2 .. Len(todo) /\ todo'[i] = todo[i])
      BY <3>1
    <3>3. ASSUME NEW i \in 1 .. Len(todo')
          PROVE  /\ todo'[i].call \notin {"open", "close", "wait"}
                 /\ todo'[i].call = "request" => todo'[i].frame \in Frame
                 /\ todo'[i].call = "render" => i = Len(todo')
      <4>1. CASE i = 1
        BY <3>1, <4>1
      <4>2. CASE i \in 2 .. Len(todo) /\ todo'[i] = todo[i]
        BY <2>3, <3>1, <4>2 DEF TodoShape
      <4> QED
        BY <3>2, <4>1, <4>2
    <3> QED
      BY <3>3 DEF TodoShape
  <2>5. CASE Return
    <3>1. /\ Len(todo') = Len(todo) - 1 /\ Len(todo) \in Nat
          /\ \A i \in 1 .. Len(todo') : i + 1 \in 1 .. Len(todo) /\ todo'[i] = todo[i + 1]
      BY <1>0, <2>1, <2>5, ReturnFacts, HeadFacts
    <3>2. ASSUME NEW i \in 1 .. Len(todo')
          PROVE  /\ todo'[i].call \notin {"open", "close", "wait"}
                 /\ todo'[i].call = "request" => todo'[i].frame \in Frame
                 /\ todo'[i].call = "render" => i = Len(todo')
      <4>1. i + 1 \in 1 .. Len(todo) /\ todo'[i] = todo[i + 1]
        BY <3>1
      <4>2. todo[i + 1].call = "render" => i + 1 = Len(todo)
        BY <4>1 DEF TodoShape
      <4>3. todo[i + 1].call = "request" => todo[i + 1].frame \in Frame
        BY <4>1 DEF TodoShape
      <4> QED
        BY <2>3, <3>1, <4>1, <4>2, <4>3
    <3> QED
      BY <3>2 DEF TodoShape
  <2> QED
    BY <2>1, <2>4, <2>5
<1>2. CASE CallSync
  <2>1. todo # <<>> /\ Head(todo).call \in SyncJobs /\ todo' = <<Call("wait")>> \o Tail(todo)
    BY <1>2 DEF CallSync
  <2>2. Call("wait") \in CallRecord /\ Call("wait").call = "wait"
    BY CallFacts DEF CallName
  <2>3. /\ Len(todo') = Len(todo) /\ todo'[1].call = "wait" /\ Head(todo) = todo[1]
        /\ Len(todo) \in Nat \ {0} /\ \A i \in 2 .. Len(todo) : todo'[i] = todo[i]
    BY <1>0, <2>1, <2>2, ReplaceFacts, HeadFacts
  <2>4. ASSUME todo[1].call = "close"
        PROVE  Closing'
    <3>1. /\ queue' \in Seq(Job) /\ Len(queue') = Len(queue) + 1 /\ Len(queue) \in Nat
          /\ queue'[Len(queue) + 1] = "close"
      BY <1>2, <2>3, <2>4, SyncCallsAreJobs
    <3>2. prefetch'.shutdown
      BY <1>0, <1>2, <2>3, <2>4 DEF CallSync, PrefetchType
    <3> QED
      BY <3>1, <3>2 DEF Closing
  <2>5. ASSUME NEW i \in 2 .. Len(todo)
        PROVE  /\ todo'[i] = todo[i] /\ todo'[i].call # "wait" /\ todo'[i].call # "close"
               /\ todo'[i].call = "request" => todo'[i].frame \in Frame
               /\ todo'[i].call = "render" => i = Len(todo')
               /\ todo'[i].call = "open" => i = 2 /\ todo[1].call = "close"
                                            /\ \E j \in i + 1 .. Len(todo) : todo[j].call = "load"
    <3>1. todo'[i] = todo[i] /\ i \in 1 .. Len(todo) /\ i # 1
      BY <2>3
    <3>2. todo[1].call # "wait"
      BY <2>1, <2>3 DEF SyncJobs
    <3> QED
      BY <2>3, <3>1, <3>2 DEF TodoShape
  <2>6. ASSUME NEW i \in 2 .. Len(todo), todo'[i].call = "open"
        PROVE  /\ i = 2 /\ todo'[1].call = "wait" /\ Closing'
               /\ \E j \in i + 1 .. Len(todo') : todo'[j].call = "load"
    <3>1. i = 2 /\ todo[1].call = "close"
      BY <2>5, <2>6
    <3>2. PICK j \in i + 1 .. Len(todo) : todo[j].call = "load"
      BY <2>5, <2>6
    <3>3. todo'[j] = todo[j] /\ j \in i + 1 .. Len(todo')
      BY <2>3, <3>1, <3>2
    <3> QED
      BY <2>3, <2>4, <3>1, <3>2, <3>3
  <2>7. \A i \in 1 .. Len(todo') : i = 1 \/ i \in 2 .. Len(todo)
    BY <2>3
  <2> QED
    BY <2>3, <2>5, <2>6, <2>7 DEF TodoShape
<1>3. CASE CallOpen
  <2>1. todo # <<>> /\ Return /\ Head(todo).call = "open"
    BY <1>3 DEF CallOpen, Calling
  <2>2. /\ Len(todo') = Len(todo) - 1 /\ Len(todo) \in Nat /\ todo[1].call = "open"
        /\ \A i \in 1 .. Len(todo') : i + 1 \in 1 .. Len(todo) /\ todo'[i] = todo[i + 1]
    BY <1>0, <2>1, ReturnFacts, HeadFacts
  <2>3. ASSUME NEW i \in 1 .. Len(todo')
        PROVE  /\ todo'[i].call \notin {"open", "close", "wait"}
               /\ todo'[i].call = "request" => todo'[i].frame \in Frame
               /\ todo'[i].call = "render" => i = Len(todo')
    <3>1. i + 1 \in 1 .. Len(todo) /\ todo'[i] = todo[i + 1] /\ i + 1 # 1
      BY <2>2
    <3>2. todo[i + 1].call \notin {"open", "close", "wait"}
      BY <2>2, <3>1 DEF TodoShape
    <3>3. /\ todo[i + 1].call = "render" => i + 1 = Len(todo)
          /\ todo[i + 1].call = "request" => todo[i + 1].frame \in Frame
      BY <3>1 DEF TodoShape
    <3> QED
      BY <2>2, <3>1, <3>2, <3>3
  <2> QED
    BY <2>3 DEF TodoShape
<1>4. CASE HandlerStep
  BY <1>4 DEF HandlerStep, Fits, TodoShape
<1>5. CASE \E p \in recent_render_packets : JumpToRecentFrame(p)
  <2>1. todo' = <<Schedule>> /\ Schedule.call = "schedule"
    BY <1>5, CallFacts DEF JumpToRecentFrame
  <2> QED
    BY <2>1 DEF TodoShape
<1>6. CASE PrefetchFrames \/ CancelFramePrefetch
  <2>1. todo' = <<>>
    BY <1>6 DEF PrefetchFrames, CancelFramePrefetch, Handler
  <2> QED
    BY <2>1 DEF TodoShape
<1>7. CASE Receive
  BY <1>7 DEF Receive, TodoShape, Closing
<1>8. CASE WorkStep
  <2>1. todo' = todo /\ prefetch'.shutdown = prefetch.shutdown
    BY <1>8, WorkJobs
  <2>2. ~(queue = <<>> /\ worker = Idle)
    BY <1>8, WorkJobs, IdleFacts
  <2>3. ASSUME Closing
        PROVE  Closing'
    <3>1. CASE worker.job = "close" /\ queue = <<>>
      BY <1>8, <2>1, <2>3, <3>1, WorkJobs, IdleFacts DEF Closing
    <3>2. CASE queue # <<>> /\ queue[Len(queue)] = "close"
      <4>1. CASE worker'.job = Head(queue) /\ queue' = Tail(queue)
        <5>1. /\ Len(queue) \in Nat \ {0} /\ Head(queue) = queue[1]
              /\ queue' \in Seq(Job) /\ Len(queue') = Len(queue) - 1
              /\ \A i \in 1 .. Len(queue) - 1 : queue'[i] = queue[i + 1]
          BY <1>0, <3>2, <4>1, QueueFacts
        <5>2. CASE Len(queue) = 1
          BY <2>1, <2>3, <3>2, <4>1, <5>1, <5>2 DEF Closing
        <5>3. CASE Len(queue) # 1
          <6>1. Len(queue') \in 1 .. Len(queue) - 1 /\ Len(queue') + 1 = Len(queue)
            BY <5>1, <5>3
          <6>2. queue'[Len(queue')] = "close" /\ queue' # <<>>
            BY <3>2, <5>1, <6>1
          <6> QED
            BY <2>1, <2>3, <6>2 DEF Closing
        <5> QED
          BY <5>2, <5>3
      <4>2. CASE queue' = queue
        BY <2>1, <2>3, <3>2, <4>2 DEF Closing
      <4> QED
        BY <1>8, <2>3, <4>1, <4>2, WorkJobs DEF Closing
    <3> QED
      BY <2>3, <3>1, <3>2 DEF Closing
  <2>4. ASSUME NEW i \in 1 .. Len(todo), todo[i].call = "open"
        PROVE  \/ i = 2 /\ todo[1].call = "close"
               \/ i = 2 /\ todo[1].call = "wait" /\ Closing'
    BY <2>2, <2>3, <2>4 DEF TodoShape
  <2> QED
    BY <2>1, <2>4 DEF TodoShape
<1>9. CASE FinishStep
  <2>1. /\ worker.job \in SyncJobs /\ worker' = Idle /\ Return /\ queue' = queue
        /\ \A i \in 1 .. Len(queue) : queue[i] \notin SyncJobs
        /\ todo # <<>> /\ Head(todo).call = "wait"
    BY <1>9, FinishEffects DEF SyncIsAwaited, Calling
  <2>2. /\ Len(todo') = Len(todo) - 1 /\ Len(todo) \in Nat /\ todo[1].call = "wait"
        /\ \A i \in 1 .. Len(todo') : i + 1 \in 1 .. Len(todo) /\ todo'[i] = todo[i + 1]
    BY <1>0, <2>1, ReturnFacts, HeadFacts
  <2>3. Closing => queue = <<>>
    <3>1. queue # <<>> => Len(queue) \in 1 .. Len(queue)
      BY <1>0, QueueFacts
    <3> QED
      BY <2>1, <3>1 DEF Closing, SyncJobs
  <2>4. ASSUME NEW i \in 1 .. Len(todo')
        PROVE  /\ todo'[i].call \notin {"close", "wait"}
               /\ todo'[i].call = "request" => todo'[i].frame \in Frame
               /\ todo'[i].call = "render" => i = Len(todo')
    <3>1. i + 1 \in 1 .. Len(todo) /\ todo'[i] = todo[i + 1] /\ i + 1 # 1
      BY <2>2
    <3>2. todo[i + 1].call \notin {"close", "wait"}
      BY <3>1 DEF TodoShape
    <3>3. /\ todo[i + 1].call = "render" => i + 1 = Len(todo)
          /\ todo[i + 1].call = "request" => todo[i + 1].frame \in Frame
      BY <3>1 DEF TodoShape
    <3> QED
      BY <2>2, <3>1, <3>2, <3>3
  <2>5. ASSUME NEW i \in 1 .. Len(todo'), todo'[i].call = "open"
        PROVE  /\ i = 1 /\ queue' = <<>> /\ worker' = Idle
               /\ \E j \in i + 1 .. Len(todo') : todo'[j].call = "load"
    <3>1. i + 1 \in 1 .. Len(todo) /\ todo[i + 1].call = "open" /\ i + 1 # 1
      BY <2>2, <2>5
    <3>2. i + 1 = 2 /\ Closing
      BY <2>2, <3>1 DEF TodoShape
    <3>3. PICK j \in (i + 1) + 1 .. Len(todo) : todo[j].call = "load"
      BY <3>1 DEF TodoShape
    <3>4. i = 1
      BY <3>2
    <3>5. j - 1 \in i + 1 .. Len(todo') /\ j - 1 \in 1 .. Len(todo') /\ (j - 1) + 1 = j
      BY <2>2, <3>3, <3>4
    <3>6. todo'[j - 1] = todo[j]
      BY <2>2, <3>5
    <3> QED
      BY <2>1, <2>3, <3>2, <3>3, <3>4, <3>5, <3>6
  <2> QED
    BY <2>4, <2>5 DEF TodoShape
<1>10. CASE UNCHANGED vars
  BY <1>10 DEF vars, TodoShape, Closing
<1> QED
  BY <1>1, <1>2, <1>3, <1>4, <1>5, <1>6, <1>7, <1>8, <1>9, <1>10, StepKinds DEF Aside

\* A job that is outstanding after a step was so before, or the GUI thread has just posted it.
LEMMA OutstandingFacts ==
  ASSUME Types, WorkerShape, SyncIsAwaited, FinalCoversPending, [Next]_vars,
         NEW job \in SyncJobs, Outstanding(job)'
  PROVE  \/ CallSync /\ Head(todo).call = job
         \/ Outstanding(job) /\ (Aside \/ PrefetchFrames \/ WorkStep \/ UNCHANGED vars)
<1>0. ProviderTypes /\ job \notin {"process", "prefetch", "none"} /\ job \in Job
  BY DEF Types, SyncJobs, Job
<1>1. CASE CallStep
  <2>1. /\ worker' = worker /\ worker.job \notin SyncJobs
        /\ \A i \in 1 .. Len(queue) : queue[i] \notin SyncJobs
    BY <1>1, CallEffects, NotWaiting
  <2>2. PICK i \in 1 .. Len(queue') : queue'[i] = job
    BY <2>1 DEF Outstanding
  <2>3. CASE CallSync
    <3>1. /\ Len(queue') = Len(queue) + 1 /\ Len(queue) \in Nat
          /\ queue'[Len(queue) + 1] = Head(todo).call
          /\ \A k \in 1 .. Len(queue) : queue'[k] = queue[k]
      BY <2>3, SyncCallsAreJobs
    <3>2. i = Len(queue) + 1
      BY <2>1, <2>2, <3>1
    <3> QED
      BY <2>2, <2>3, <3>1, <3>2
  <2>4. CASE CallSchedule
    <3>1. (queue' = queue \/ queue' = Append(queue, "process")) /\ "process" \in Job
      BY <2>4 DEF CallSchedule, Job
    <3>2. \A k \in 1 .. Len(queue') : queue'[k] # job
      <4>1. CASE queue' = queue
        BY <1>0, <2>1, <4>1
      <4>2. CASE queue' = Append(queue, "process")
        <5>1. /\ Len(queue) \in Nat /\ Len(queue') = Len(queue) + 1
              /\ queue'[Len(queue) + 1] = "process"
              /\ \A k \in 1 .. Len(queue) : queue'[k] = queue[k]
          BY <1>0, <3>1, <4>2, QueueFacts
        <5> QED
          BY <1>0, <2>1, <5>1
      <4> QED
        BY <3>1, <4>1, <4>2
    <3> QED
      BY <2>2, <3>2
  <2>5. CASE ~CallSync /\ ~CallSchedule
    <3>1. queue' = queue
      BY <1>1, <2>5 DEF CallStep, CallLoad, CallRequest, CallCancel, CallSetColorSpace, CallUpdate
    <3> QED
      BY <2>1, <2>2, <3>1
  <2> QED
    BY <2>3, <2>4, <2>5
<1>2. ~CallOpen
  <2>1. CallOpen => worker' = Idle /\ queue' = <<>>
    BY DEF CallOpen
  <2> QED
    BY <1>0, <2>1, IdleFacts DEF Outstanding
<1>3. Aside \/ UNCHANGED vars => Outstanding(job)
  BY AsideEffects DEF Outstanding, vars
<1>4. CASE PrefetchFrames
  <2>1. /\ worker' = worker /\ (queue' = queue \/ queue' = Append(queue, "prefetch"))
        /\ "prefetch" \in Job
    BY <1>4 DEF PrefetchFrames, Job
  <2>2. \A k \in 1 .. Len(queue') : queue'[k] = job => k \in 1 .. Len(queue) /\ queue[k] = job
    BY <1>0, <2>1, QueueFacts
  <2> QED
    BY <1>4, <2>1, <2>2 DEF Outstanding
<1>5. CASE WorkStep
  <2>1. CASE worker'.job = Head(queue) /\ queue' = Tail(queue) /\ queue # <<>>
    <3>1. /\ Len(queue) \in Nat \ {0} /\ Head(queue) = queue[1] /\ Len(queue') = Len(queue) - 1
          /\ \A k \in 1 .. Len(queue) - 1 : queue'[k] = queue[k + 1]
      BY <1>0, <2>1, QueueFacts
    <3>2. worker'.job = job \/ \E k \in 1 .. Len(queue') : queue'[k] = job
      BY DEF Outstanding
    <3>3. 1 \in 1 .. Len(queue) /\ \A k \in 1 .. Len(queue') : k + 1 \in 1 .. Len(queue)
      BY <3>1
    <3> QED
      BY <1>5, <2>1, <3>1, <3>2, <3>3 DEF Outstanding
  <2>2. CASE worker'.job = worker.job /\ queue' = queue
    BY <1>5, <2>2 DEF Outstanding
  <2>3. CASE worker' = Idle /\ queue' = queue
    BY <1>0, <1>5, <2>3, IdleFacts DEF Outstanding
  <2>4. CASE worker' = Idle /\ queue' = Append(queue, "prefetch")
    <3>1. "prefetch" \in Job
      BY DEF Job
    <3>2. \A k \in 1 .. Len(queue') : queue'[k] = job => k \in 1 .. Len(queue) /\ queue[k] = job
      BY <1>0, <2>4, <3>1, QueueFacts
    <3> QED
      BY <1>0, <1>5, <2>4, <3>2, IdleFacts DEF Outstanding
  <2> QED
    BY <1>5, <2>1, <2>2, <2>3, <2>4, WorkJobs
<1>6. ~FinishStep
  <2>1. ASSUME FinishStep
        PROVE  /\ worker.job \in SyncJobs /\ worker' = Idle /\ queue' = queue
               /\ \A i \in 1 .. Len(queue) : queue[i] \notin SyncJobs
    BY <2>1, FinishEffects DEF SyncIsAwaited
  <2> QED
    BY <1>0, <2>1, IdleFacts DEF Outstanding
<1> QED
  BY <1>1, <1>2, <1>3, <1>4, <1>5, <1>6, StepKinds

\* The frame that the GUI thread waits for, over every step.
LEMMA RenderIsLastKept ==
  ASSUME Types, WorkerShape, SyncIsAwaited, TodoShape, RenderIsLast, FinalCoversPending,
         [Next]_vars
  PROVE  RenderIsLast'
<1> SUFFICES ASSUME Outstanding("render")'
             PROVE  Len(todo') = 1
  BY DEF RenderIsLast
<1>1. "render" \in SyncJobs
  BY DEF SyncJobs
<1>2. CASE CallSync /\ Head(todo).call = "render"
  <2>1. todo # <<>> /\ todo' = <<Call("wait")>> \o Tail(todo) /\ Call("wait") \in CallRecord
    BY <1>2, CallFacts DEF CallSync, CallName
  <2>2. Len(todo') = Len(todo) /\ Head(todo) = todo[1] /\ 1 \in 1 .. Len(todo)
    BY <2>1, ReplaceFacts, HeadFacts DEF Types
  <2> QED
    BY <1>2, <2>2 DEF TodoShape
<1>3. CASE Outstanding("render") /\ (Aside \/ PrefetchFrames \/ WorkStep \/ UNCHANGED vars)
  <2>1. Calling("wait")
    BY <1>1, <1>3 DEF Outstanding, SyncIsAwaited
  <2>2. todo' = todo
    BY <1>3, <2>1, AsideEffects, WorkJobs DEF Calling, PrefetchFrames, vars
  <2> QED
    BY <1>3, <2>2 DEF RenderIsLast
<1> QED
  BY <1>1, <1>2, <1>3, OutstandingFacts

\* What the worker does, over every step.
LEMMA WorkerShapeKept ==
  ASSUME Types, WorkerShape, SyncIsAwaited, FinalCoversPending, [Next]_vars
  PROVE  WorkerShape'
<1>0. worker \in WorkerType /\ worker.packet \in Packets /\ WorkerTypes
  BY DEF Types, WorkerTypes, WorkerType
<1>1. ASSUME UNCHANGED <<worker, frame_number>>, worker.at = "finish" => pending' = pending
      PROVE  WorkerShape'
  BY <1>1 DEF WorkerShape, NothingToTake, HasContent
<1>2. CASE CallStep
  <2>1. worker.at # "finish"
    BY <1>2, CallEffects, NotWaiting DEF WorkerShape
  <2> QED
    BY <1>1, <1>2, <2>1, CallEffects DEF renderer
<1>3. ASSUME worker' = Idle
      PROVE  WorkerShape'
  BY <1>3, IdleFacts DEF WorkerShape
<1>4. CASE Aside
  <2>1. UNCHANGED <<worker, frame_number>> /\ (todo = <<>> \/ pending' = pending)
    BY <1>4, AsideEffects DEF renderer
  <2>2. todo = <<>> => worker.at # "finish"
    BY NotWaiting DEF WorkerShape, Calling
  <2> QED
    BY <1>1, <2>1, <2>2
<1>5. CASE PrefetchFrames
  BY <1>1, <1>5 DEF PrefetchFrames, renderer
<1>6. CASE UNCHANGED vars
  BY <1>1, <1>6 DEF vars, renderer
<1>7. CASE WorkStep
  <2>1. CASE StartJob
    <3>1. Head(queue) \in Job /\ "prefetch" \in Stage /\ "take" \in Stage
      BY <2>1, QueueFacts DEF StartJob, Types, Stage
    <3>2. /\ worker'.job = Head(queue) /\ worker'.packet = NoPacket
          /\ worker'.at = IF Head(queue) = "prefetch" THEN "prefetch" ELSE "take"
      <4> DEFINE a == IF Head(queue) = "prefetch" THEN "prefetch" ELSE "take"
                 j == Head(queue)
      <4>1. a \in Stage /\ j \in Job
        BY <3>1
      <4>2. worker' = [Idle EXCEPT !.job = j, !.at = a]
        BY <2>1 DEF StartJob
      <4> HIDE DEF a, j
      <4>3. worker'.job = j /\ worker'.packet = NoPacket /\ worker'.at = a
        BY <4>1, <4>2, JobFacts
      <4> QED
        BY <4>3 DEF a, j
    <3> QED
      BY <3>1, <3>2 DEF WorkerShape, Job, SyncJobs
  <2>2. CASE TakeNothing
    <3>1. CASE worker.job = "process"
      BY <1>3, <2>2, <3>1 DEF TakeNothing
    <3>2. CASE worker.job # "process"
      <4>1. /\ worker' = [worker EXCEPT !.at = "finish"] /\ worker.at = "take" /\ NothingToTake
            /\ pending' = pending
        BY <2>2, <3>2 DEF TakeNothing
      <4>2. worker'.at = "finish" /\ worker'.job = worker.job /\ worker'.packet = worker.packet
        BY <1>0, <4>1 DEF WorkerType
      <4>3. worker.job \in SyncJobs /\ worker.packet = NoPacket
        <5>1. worker.job \in Job \cup {"none"}
          BY <1>0 DEF WorkerType
        <5> QED
          BY <3>2, <4>1, <5>1 DEF WorkerShape, Job
      <4>4. NothingToTake'
        BY <4>1 DEF NothingToTake, HasContent
      <4> QED
        BY <4>2, <4>3, <4>4 DEF WorkerShape, SyncJobs
    <3> QED
      BY <3>1, <3>2
  <2>3. CASE Take
    <3>1. worker.at = "take" /\ worker.packet = NoPacket
          /\ worker.job \notin {"none", "prefetch"}
      BY <2>3 DEF Take, WorkerShape
    <3>2. CASE /\ worker'.at = "render" /\ worker'.job = worker.job
               /\ worker'.packet.frame = frame_number' /\ frame_number' \in Frame
      BY <3>1, <3>2 DEF WorkerShape
    <3>3. CASE worker' = worker
      BY <3>1, <3>3 DEF WorkerShape
    <3> QED
      BY <2>3, <3>2, <3>3, TakeFacts
  <2>4. CASE SkipStale \/ Deliver \/ DeliverError
    <3>1. /\ worker' = [worker EXCEPT !.at = "take", !.packet = NoPacket]
          /\ worker.at \in {"render", "deliver", "error"}
      BY <2>4 DEF SkipStale, Deliver, DeliverError
    <3>2. worker'.at = "take" /\ worker'.job = worker.job /\ worker'.packet = NoPacket
      BY <1>0, <3>1 DEF WorkerType
    <3> QED
      BY <3>1, <3>2 DEF WorkerShape
  <2>5. CASE Render
    <3> DEFINE f == worker.packet.frame
               p == Drawn(worker.packet, f)
    <3>1. /\ \/ worker' = [worker EXCEPT !.at = "deliver", !.packet = p]
             \/ worker' = [worker EXCEPT !.at = "error"]
          /\ worker.at = "render" /\ frame_number' = frame_number
      BY <2>5 DEF Render
    <3>2. f \in Frame /\ f = frame_number
      BY <3>1 DEF WorkerShape
    <3>3. p.frame = f
      BY <1>0, <3>2, DrawnFacts
    <3> HIDE DEF p
    <3>4. /\ worker'.at \in {"deliver", "error"} /\ worker'.job = worker.job
          /\ worker'.packet.frame = f
      BY <1>0, <3>1, <3>3 DEF WorkerType
    <3> QED
      BY <3>1, <3>2, <3>4 DEF WorkerShape
  <2>6. CASE PrefetchOne \/ PrefetchRepost \/ PrefetchFails
    <3>1. /\ worker' = Idle \/ worker' = [worker EXCEPT !.at = "repost"]
          /\ worker.at \in {"prefetch", "repost"}
      BY <2>6 DEF PrefetchOne, PrefetchRepost, PrefetchFails
    <3>2. CASE worker' = [worker EXCEPT !.at = "repost"]
      <4>1. worker'.at = "repost" /\ worker'.job = worker.job /\ worker'.packet = worker.packet
        BY <1>0, <3>2 DEF WorkerType
      <4> QED
        BY <3>1, <4>1 DEF WorkerShape
    <3> QED
      BY <1>3, <3>1, <3>2
  <2> QED
    BY <1>7, <2>1, <2>2, <2>3, <2>4, <2>5, <2>6 DEF WorkStep
<1>8. CASE FinishStep
  BY <1>3, <1>8, FinishEffects
<1>9. CASE CallOpen
  BY <1>3, <1>9 DEF CallOpen
<1> QED
  BY <1>2, <1>4, <1>5, <1>6, <1>7, <1>8, <1>9, StepKinds

\* The jobs, over every step.
LEMMA JobsKept ==
  ASSUME Types, Jobs, FinalCoversPending, [Next]_vars
  PROVE  Jobs'
BY WorkerShapeKept, SyncIsAwaitedKept, TodoShapeKept, RenderIsLastKept, OneLinkKept DEF Jobs
-----------------------------------------------------------------------------
(***************************************************************************)
(* What the renderer has loaded, and the packets drawn from it             *)
(***************************************************************************)
\* The marks of single_frame are not frames.
LEMMA Marks == NEW_SUBS_FILE \notin Frame /\ SUBS_FILE_ALREADY_LOADED \notin Frame
               /\ NEW_SUBS_FILE # SUBS_FILE_ALREADY_LOADED
BY VideoAssumption DEF Frame, NEW_SUBS_FILE, SUBS_FILE_ALREADY_LOADED

\* A packet is a picture of the worker's subtitles, whatever the renderer had before.
LEMMA DrawnIsPicture ==
  ASSUME WorkerTypes, RendererIsLoaded, outcome # "unloaded", NEW packet \in Packets,
         NEW f \in Frame
  PROVE  IsPictureOf(Drawn(packet, f), subs, colour_space, subtitles_timecodes)
<1> DEFINE V(d) == VisibleLines(d, subtitles_timecodes, f)
<1>1. /\ subs \in Lines \cup {None} /\ loaded \in Lines /\ f # None
      /\ single_frame \in {NEW_SUBS_FILE, SUBS_FILE_ALREADY_LOADED} \cup Frame
      /\ subtitles_timecodes \in Timecodes
  BY DocumentLines, NoneIsNot DEF WorkerTypes
<1>2. Drawn(packet, f).colour = colour_space
  <2>1. SourceFrame(f).colour = colour_space
    BY <1>1 DEF SourceFrame, RendererIsLoaded
  <2> QED
    BY <2>1, DrawnFacts
<1>3. Drawn(packet, f).frame = f
      /\ Drawn(packet, f).lines = IF subs = None THEN NoLines ELSE V(LoadedFor(f))
  BY DrawnFacts
<1>4. V(subs) \in Lines /\ V(V(subs)) = V(subs)
  BY <1>1, VisibleFacts
<1>5. subs = None => V(subs) = NoLines
  BY DEF VisibleLines
<1>6. ASSUME subs # None
      PROVE  V(LoadedFor(f)) = V(subs)
  <2>1. LoadedFor(f) \in {subs, V(subs)}
    <3>1. CASE Loads(f)
      BY <1>6, <3>1 DEF LoadedFor
    <3>2. CASE ~Loads(f)
      <4>1. LoadedFor(f) = loaded /\ (single_frame = f \/ single_frame = SUBS_FILE_ALREADY_LOADED)
        BY <3>2 DEF LoadedFor, Loads
      <4> QED
        BY <4>1 DEF RendererIsLoaded
    <3> QED
      BY <3>1, <3>2
  <2> QED
    BY <1>4, <2>1
<1> HIDE DEF V
<1>7. Drawn(packet, f).lines = V(subs)
  BY <1>3, <1>5, <1>6
<1> QED
  BY <1>2, <1>3, <1>7 DEF IsPictureOf, V

\* Rendering keeps what is known of the renderer; a load that throws is remembered.
LEMMA RenderLoads ==
  ASSUME WorkerTypes, RendererIsLoaded, NEW f \in Frame,
         UNCHANGED <<subs, colour_space, subtitles_timecodes>>,
         \/ ProcRenderPacket(f) /\ (outcome = "unloaded" => outcome' = "unloaded")
         \/ VideoFails(f) /\ (outcome = "unloaded" => outcome' = "unloaded")
         \/ SubtitlesFail(f) /\ Ended("unloaded", drawn)
  PROVE  RendererIsLoaded'
<1>1. /\ f # None /\ single_frame \in {NEW_SUBS_FILE, SUBS_FILE_ALREADY_LOADED} \cup Frame
  BY NoneIsNot DEF WorkerTypes
<1>2. SourceFrame(f).colour = colour_space
  BY <1>1 DEF SourceFrame, RendererIsLoaded
<1>3. CASE VideoFails(f) /\ (outcome = "unloaded" => outcome' = "unloaded")
  BY <1>3 DEF VideoFails, RendererIsLoaded
<1>4. CASE SubtitlesFail(f) /\ Ended("unloaded", drawn)
  <2>1. outcome' = "unloaded"
    BY <1>4 DEF SubtitlesFail, Ended
  <2> QED
    BY <1>2, <1>4, <2>1 DEF SubtitlesFail, RendererIsLoaded
<1>5. CASE ProcRenderPacket(f) /\ (outcome = "unloaded" => outcome' = "unloaded")
  <2>1. loaded' = LoadedFor(f) /\ single_frame' = SingleFrame(f)
        /\ cached_source' = IF subs = None THEN cached_source ELSE SourceFrame(f)
    BY <1>5 DEF ProcRenderPacket
  <2>2. CASE subs = None \/ ~Loads(f)
    <3>1. loaded' = loaded /\ single_frame' = single_frame
      BY <2>1, <2>2 DEF LoadedFor, SingleFrame
    <3> QED
      BY <1>2, <1>5, <2>1, <3>1 DEF RendererIsLoaded
  <2>3. CASE subs # None /\ Loads(f) /\ single_frame = NEW_SUBS_FILE
    <3>1. single_frame' = f /\ loaded' = VisibleLines(subs, subtitles_timecodes, f)
      BY <2>1, <2>3 DEF LoadedFor, SingleFrame
    <3> QED
      BY <1>2, <1>5, <2>1, <2>3, <3>1, Marks DEF RendererIsLoaded
  <2>4. CASE subs # None /\ Loads(f) /\ single_frame # NEW_SUBS_FILE
    <3>1. single_frame' = SUBS_FILE_ALREADY_LOADED /\ loaded' = subs
      BY <2>1, <2>4 DEF LoadedFor, SingleFrame
    <3> QED
      BY <1>2, <1>5, <2>1, <2>4, <3>1, Marks DEF RendererIsLoaded
  <2> QED
    BY <2>2, <2>3, <2>4
<1> QED
  BY <1>3, <1>4, <1>5

\* What the renderer has loaded, over every step.
LEMMA RendererIsLoadedKept ==
  ASSUME Types, WorkerShape, RendererIsLoaded, FinalCoversPending, [Next]_vars
  PROVE  RendererIsLoaded'
<1>0. WorkerTypes /\ frame_n \in Frame
  BY DEF Types, GuiTypes
<1>1. UNCHANGED <<renderer, history>> => RendererIsLoaded'
  BY DEF renderer, history, RendererIsLoaded
<1>2. CASE CallStep \/ Aside \/ PrefetchFrames \/ UNCHANGED vars
  BY <1>1, <1>2, CallEffects, AsideEffects DEF PrefetchFrames, vars
<1>3. CASE CallOpen
  BY <1>3, Marks DEF CallOpen, RendererIsLoaded, NoSource
<1>4. CASE WorkStep
  <2>1. CASE StartJob \/ TakeNothing \/ SkipStale \/ PrefetchOne \/ PrefetchRepost
             \/ PrefetchFails
    BY <1>1, <2>1 DEF StartJob, TakeNothing, SkipStale, PrefetchOne, PrefetchRepost, PrefetchFails
  <2>2. CASE Take
    <3>1. /\ subs' = TakenSubs /\ single_frame' = NewSingleFrame
          /\ colour_space' = IF pending.colour = None THEN colour_space ELSE pending.colour
          /\ cached_source' = IF pending.colour = None THEN cached_source ELSE NoSource
          /\ UNCHANGED <<subtitles_timecodes, loaded>>
      BY <2>2 DEF Take
    <3>2. outcome = "unloaded" => outcome' = "unloaded"
      <4>1. Ended("skipped", drawn) \/ UNCHANGED history
        BY <2>2, TakeFacts
      <4> QED
        BY <4>1 DEF Ended, HasFailed, history
    <3>3. cached_source'.frame # None => cached_source'.colour = colour_space'
      BY <3>1 DEF RendererIsLoaded, NoSource
    <3>4. TakenSubs = None => subs = None /\ (~HasContent => TakenSubs = subs)
      BY TakenSubsFacts
    <3>5. CASE HasContent /\ TakenSubs # None
      BY <3>1, <3>3, <3>5, Marks DEF RendererIsLoaded, NewSingleFrame
    <3>6. CASE ~(HasContent /\ TakenSubs # None)
      <4>1. subs' = subs /\ single_frame' = single_frame
        BY <3>1, <3>6, TakenSubsFacts DEF NewSingleFrame
      <4> QED
        BY <3>1, <3>2, <3>3, <4>1 DEF RendererIsLoaded
    <3> QED
      BY <3>5, <3>6
  <2>3. CASE Render
    <3> DEFINE f == worker.packet.frame
    <3>1. f \in Frame
      BY <2>3 DEF Render, WorkerShape
    <3>2. /\ \/ ProcRenderPacket(f) /\ UNCHANGED history
             \/ VideoFails(f) /\ UNCHANGED history
             \/ SubtitlesFail(f) /\ Ended("unloaded", drawn)
          /\ UNCHANGED <<subs, colour_space, subtitles_timecodes>>
      BY <2>3 DEF Render
    <3> QED
      BY <1>0, <3>1, <3>2, RenderLoads DEF history
  <2>4. CASE Deliver
    <3>1. outcome = "unloaded" => outcome' = "unloaded"
      BY <2>4 DEF Deliver, Ended, HasFailed, history
    <3> QED
      BY <2>4, <3>1 DEF Deliver, RendererIsLoaded
  <2>5. CASE DeliverError
    <3>1. outcome = "unloaded" => outcome' = "unloaded"
      BY <2>5 DEF DeliverError, Ended, HasFailed, history
    <3> QED
      BY <2>5, <3>1 DEF DeliverError, RendererIsLoaded, renderer
  <2> QED
    BY <1>4, <2>1, <2>2, <2>3, <2>4, <2>5 DEF WorkStep
<1>5. CASE FinishStep
  <2>1. CASE FinishRender
    <3>1. /\ \/ ProcRenderPacket(frame_n) /\ Ended("drawn", drawn)
             \/ VideoFails(frame_n) /\ Ended("failed", drawn)
             \/ SubtitlesFail(frame_n) /\ Ended("unloaded", drawn)
          /\ UNCHANGED <<subs, colour_space, subtitles_timecodes>>
      BY <2>1 DEF FinishRender
    <3>2. Ended("drawn", drawn) \/ Ended("failed", drawn) =>
             (outcome = "unloaded" => outcome' = "unloaded")
      BY DEF Ended, HasFailed
    <3> QED
      BY <1>0, <3>1, <3>2, RenderLoads
  <2>2. CASE FinishTimecodes \/ FinishReplace
    <3>1. single_frame' = NEW_SUBS_FILE /\ cached_source' = NoSource
      BY <2>2 DEF FinishTimecodes, FinishReplace, ForgetRendered
    <3> QED
      BY <3>1, Marks DEF RendererIsLoaded, NoSource
  <2>3. CASE FinishClose
    BY <1>1, <2>3 DEF FinishClose
  <2> QED
    BY <1>5, <2>1, <2>2, <2>3 DEF FinishStep
<1> QED
  BY <1>2, <1>3, <1>4, <1>5, StepKinds
-----------------------------------------------------------------------------
(***************************************************************************)
(* Packets on their way, over every step                                   *)
(***************************************************************************)
\* A step makes every packet before it old, or leaves what they were made of alone.
Outdates ==
    \/ provider_version' > provider_version
    \/ provider_version' = provider_version /\ content_version' > content_version
Keeps ==
    /\ UNCHANGED <<provider_version, content_version>>
    /\ NothingChanged =>
          NothingChanged' /\ UNCHANGED <<subs, colour_space, subtitles_timecodes>>
    /\ outcome = "unloaded" => outcome' = "unloaded"

LEMMA OutdatesOrKeeps ==
  ASSUME Types, FinalCoversPending, TodoShape, [Next]_vars
  PROVE  Outdates \/ Keeps
<1>0. provider_version \in Nat /\ content_version \in Nat /\ ProviderTypes
  BY DEF Types, ProviderTypes
<1>1. CASE CallStep
  <2>0. UNCHANGED <<provider_version, renderer, history>>
    BY <1>1, CallEffects
  <2>1. CASE CallLoad \/ CallSetColorSpace \/ \E known \in BOOLEAN : CallUpdate(known)
    <3>1. content_version' = content_version + 1
      <4>1. ASSUME NEW known \in BOOLEAN, CallUpdate(known)
            PROVE  content_version' = content_version + 1
        BY <4>1 DEF CallUpdate
      <4>2. CallLoad => content_version' = content_version + 1
        BY DEF CallLoad
      <4>3. CallSetColorSpace => content_version' = content_version + 1
        BY DEF CallSetColorSpace
      <4> QED
        BY <2>1, <4>1, <4>2, <4>3
    <3> QED
      BY <1>0, <2>0, <3>1 DEF Outdates
  <2>2. CASE CallRequest \/ CallCancel
    <3>1. pending'.subs = pending.subs /\ pending'.changed = pending.changed
          /\ pending'.colour = pending.colour
      BY <2>2, OtherPending
    <3>2. content_version' = content_version
      BY <2>2 DEF CallRequest, CallCancel
    <3> QED
      BY <2>0, <3>1, <3>2 DEF Keeps, NothingChanged, HasContent, renderer, history
  <2>3. CASE CallSchedule \/ CallSync
    <3>1. pending' = pending /\ content_version' = content_version
      BY <2>3 DEF CallSchedule, CallSync, versions
    <3> QED
      BY <2>0, <3>1 DEF Keeps, NothingChanged, HasContent, renderer, history
  <2> QED
    BY <1>1, <2>1, <2>2, <2>3 DEF CallStep
<1>2. CASE CallOpen
  <2>1. provider_version' = provider_version + 1
    BY <1>2 DEF CallOpen
  <2> QED
    BY <1>0, <2>1 DEF Outdates
<1>3. CASE Aside
  <2>1. UNCHANGED <<provider_version, content_version, renderer, history>>
    BY <1>3, AsideEffects
  <2>2. pending'.subs = pending.subs /\ pending'.changed = pending.changed
        /\ pending'.colour = pending.colour
    BY <1>3, ContextPending DEF Aside, HandlerStep, CancelFramePrefetch, Receive, Elsewhere
  <2> QED
    BY <2>1, <2>2 DEF Keeps, NothingChanged, HasContent, renderer, history
<1>4. CASE PrefetchFrames \/ UNCHANGED vars
  <2>1. UNCHANGED <<provider_version, content_version, renderer, history, pending>>
    BY <1>4 DEF PrefetchFrames, vars, versions
  <2> QED
    BY <2>1 DEF Keeps, NothingChanged, HasContent, renderer, history
<1>5. CASE WorkStep
  <2>1. CASE StartJob \/ TakeNothing \/ SkipStale \/ PrefetchOne \/ PrefetchRepost
             \/ PrefetchFails
    <3>1. UNCHANGED <<provider_version, content_version, renderer, history, pending>>
      BY <2>1 DEF StartJob, TakeNothing, SkipStale, PrefetchOne, PrefetchRepost, PrefetchFails,
         versions
    <3> QED
      BY <3>1 DEF Keeps, NothingChanged, HasContent, renderer, history
  <2>2. CASE Take
    <3>1. /\ subs' = TakenSubs /\ pending' = NothingPending
          /\ colour_space' = IF pending.colour = None THEN colour_space ELSE pending.colour
          /\ UNCHANGED <<subtitles_timecodes, provider_version, content_version>>
      BY <2>2 DEF Take, versions
    <3>2. outcome = "unloaded" => outcome' = "unloaded"
      <4>1. Ended("skipped", drawn) \/ UNCHANGED history
        BY <2>2, TakeFacts
      <4> QED
        BY <4>1 DEF Ended, HasFailed, history
    <3>3. NothingChanged'
      BY <3>1 DEF NothingChanged, HasContent, NothingPending
    <3>4. NothingChanged => subs' = subs /\ colour_space' = colour_space
      BY <3>1, TakenSubsFacts DEF NothingChanged
    <3> QED
      BY <3>1, <3>2, <3>3, <3>4 DEF Keeps
  <2>3. CASE Render \/ Deliver \/ DeliverError
    <3>1. UNCHANGED <<provider_version, content_version, pending, subs, colour_space,
                      subtitles_timecodes>>
      BY <2>3 DEF Render, Deliver, DeliverError, versions, renderer
    <3>2. outcome = "unloaded" => outcome' = "unloaded"
      <4>1. \/ UNCHANGED history \/ Ended("unloaded", drawn) \/ Ended("failed", drawn)
            \/ Ended("drawn", worker.packet)
        BY <2>3 DEF Render, Deliver, DeliverError
      <4> QED
        BY <4>1 DEF Ended, HasFailed, history
    <3> QED
      BY <3>1, <3>2 DEF Keeps, NothingChanged, HasContent
  <2> QED
    BY <1>5, <2>1, <2>2, <2>3 DEF WorkStep
<1>6. CASE FinishStep
  <2>1. CASE FinishTimecodes \/ FinishReplace
    <3>1. content_version' = content_version + 1 /\ provider_version' = provider_version
      BY <2>1 DEF FinishTimecodes, FinishReplace, ForgetRendered
    <3> QED
      BY <1>0, <3>1 DEF Outdates
  <2>2. CASE FinishClose
    <3>1. UNCHANGED <<provider_version, content_version, renderer, history, pending>>
      BY <2>2 DEF FinishClose, versions
    <3> QED
      BY <3>1 DEF Keeps, NothingChanged, HasContent, renderer, history
  <2>3. CASE FinishRender
    <3>1. UNCHANGED <<provider_version, content_version, pending, subs, colour_space,
                      subtitles_timecodes>>
      BY <2>3 DEF FinishRender, versions
    <3>2. outcome = "unloaded" => outcome' = "unloaded"
      <4>1. Ended("drawn", drawn) \/ Ended("failed", drawn) \/ Ended("unloaded", drawn)
        BY <2>3 DEF FinishRender
      <4> QED
        BY <4>1 DEF Ended, HasFailed
    <3> QED
      BY <3>1, <3>2 DEF Keeps, NothingChanged, HasContent
  <2> QED
    BY <1>6, <2>1, <2>2, <2>3 DEF FinishStep
<1> QED
  BY <1>1, <1>2, <1>3, <1>4, <1>5, <1>6, StepKinds

\* What was issued stays issued, and a packet that was fresh stays so.
LEMMA FreshStays ==
  ASSUME Types, Types', Outdates \/ Keeps, NEW p \in Packets
  PROVE  /\ Issued(p.version) => Issued(p.version)'
         /\ Issued(p.version) /\ Current(p.version)' => Current(p.version) /\ Keeps
         /\ Fresh(p) => Fresh(p)'
<1>0. /\ provider_version \in Nat /\ content_version \in Nat
      /\ provider_version' \in Nat /\ content_version' \in Nat
      /\ p.version.provider \in Nat /\ p.version.content \in Nat
  BY DEF Types, ProviderTypes, Packets
<1>1. Issued(p.version) => Issued(p.version)'
  BY <1>0 DEF Issued, Outdates, Keeps
<1>2. Issued(p.version) /\ Current(p.version)' => Current(p.version) /\ Keeps
  BY <1>0 DEF Issued, Current, Outdates, Keeps
<1>3. ASSUME Fresh(p), Current(p.version)', outcome' # "unloaded"
      PROVE  NothingChanged' /\ IsPictureOf(p, subs, colour_space, subtitles_timecodes)'
  <2>1. Current(p.version) /\ Keeps
    BY <1>2, <1>3 DEF Fresh
  <2>2. /\ NothingChanged /\ IsPictureOf(p, subs, colour_space, subtitles_timecodes)
        /\ outcome # "unloaded"
    BY <1>3, <2>1 DEF Fresh, Keeps
  <2>3. NothingChanged' /\ UNCHANGED <<subs, colour_space, subtitles_timecodes>>
    BY <2>1, <2>2 DEF Keeps
  <2> QED
    BY <2>2, <2>3 DEF IsPictureOf
<1> QED
  BY <1>1, <1>2, <1>3 DEF Fresh

\* The last batch, when a batch is followed by errors alone.
LEMMA LastBatchIs ==
  ASSUME GuiTypes, NEW i \in 1 .. Len(messages), messages[i].kind = "batch",
         \A j \in i + 1 .. Len(messages) : messages[j].kind = "error"
  PROVE  LastBatch = i
<1> DEFINE S == {k \in 1 .. Len(messages) : messages[k].kind = "batch"}
<1>1. Len(messages) \in Nat
  BY LenProperties DEF GuiTypes
<1>2. i \in S /\ \A k \in S : k \in Int /\ i >= k
  <2>1. ASSUME NEW k \in S, ~(i >= k)
        PROVE  FALSE
    <3>1. k \in i + 1 .. Len(messages)
      BY <1>1, <2>1
    <3> QED
      BY <3>1
  <2> QED
    BY <1>1, <2>1
<1> HIDE DEF S
<1>3. \A x : x \in S /\ (\A y \in S : x >= y) => x = i
  <2> SUFFICES ASSUME NEW x \in S, \A y \in S : x >= y
               PROVE  x = i
    OBVIOUS
  <2>1. x \in Int /\ i \in Int /\ i >= x /\ x >= i
    BY <1>2
  <2> QED
    BY <2>1
<1>4. Max(S) = i
  <2>1. Max(S) = CHOOSE x \in S : \A y \in S : x >= y
    BY DEF Max
  <2>2. \E x \in S : \A y \in S : x >= y
    BY <1>2
  <2> QED
    BY <1>3, <2>1, <2>2
<1> QED
  BY <1>4 DEF LastBatch, S

\* What the sink does with a packet, to a message at a time.
LEMMA PostFacts ==
  ASSUME GuiTypes, BatchIsLast, NEW packet \in Packets, Post(packet)
  PROVE  /\ Len(messages) \in Nat
         /\ BatchIsLast'
         /\ \/ messages' = messages
            \/ /\ Len(messages') = Len(messages) + 1
               /\ \A j \in 1 .. Len(messages) : messages'[j] = messages[j]
               /\ messages'[Len(messages) + 1].packet = packet
               /\ messages'[Len(messages) + 1].kind # "error"
            \/ \E i \in 1 .. Len(messages) :
                  /\ Len(messages') = Len(messages)
                  /\ messages'[i].packet = packet
                  /\ \A j \in 1 .. Len(messages) : j # i => messages'[j] = messages[j]
                  /\ \A j \in i + 1 .. Len(messages) : messages'[j].kind = "error"
<1> DEFINE m == [kind |-> "batch", packet |-> packet]
           e == [kind |-> "frame", packet |-> packet]
<1>1. /\ m \in Message /\ e \in Message /\ messages \in Seq(Message)
      /\ m.kind = "batch" /\ m.packet = packet /\ e.kind = "frame" /\ e.packet = packet
      /\ Len(messages) \in Nat /\ sink \in [open : BOOLEAN, id : Nat, final : BOOLEAN]
  BY LenProperties DEF Message, GuiTypes
<1>2. \A x \in Message : /\ Len(Append(messages, x)) = Len(messages) + 1
                         /\ Append(messages, x)[Len(messages) + 1] = x
                         /\ \A j \in 1 .. Len(messages) : Append(messages, x)[j] = messages[j]
  BY <1>1, AppendProperties
<1>3. CASE packet.class = "every"
  <2>1. messages' = Append(messages, e) /\ sink' = [sink EXCEPT !.open = FALSE]
    BY <1>3 DEF Post
  <2>2. ~sink'.open
    BY <1>1, <2>1
  <2> HIDE DEF e
  <2> QED
    BY <1>1, <1>2, <2>1, <2>2 DEF BatchIsLast
<1>4. CASE packet.class # "every" /\ Superseded(packet)
  BY <1>1, <1>4 DEF Post, host, BatchIsLast
<1>5. CASE packet.class # "every" /\ ~Superseded(packet) /\ ~sink.open
  <2>1. messages' = Append(messages, m)
    BY <1>5 DEF Post
  <2> HIDE DEF m
  <2>2. /\ Len(messages') = Len(messages) + 1 /\ messages'[Len(messages) + 1] = m
        /\ \A j \in 1 .. Len(messages) : messages'[j] = messages[j]
    BY <1>1, <1>2, <2>1
  <2>3. /\ Len(messages) + 1 \in 1 .. Len(messages')
        /\ messages'[Len(messages) + 1].kind = "batch"
        /\ \A j \in (Len(messages) + 1) + 1 .. Len(messages') : messages'[j].kind = "error"
    BY <1>1, <2>2
  <2> QED
    BY <1>1, <2>2, <2>3 DEF BatchIsLast
<1>6. CASE packet.class # "every" /\ ~Superseded(packet) /\ sink.open
  <2>1. PICK i \in 1 .. Len(messages) :
           /\ messages[i].kind = "batch"
           /\ \A j \in i + 1 .. Len(messages) : messages[j].kind = "error"
    BY <1>6 DEF BatchIsLast
  <2>2. LastBatch = i
    BY <2>1, LastBatchIs
  <2>3. messages' = [messages EXCEPT ![i] = m]
    BY <1>6, <2>2 DEF Post
  <2> HIDE DEF m
  <2>4. /\ Len(messages') = Len(messages) /\ messages'[i] = m
        /\ \A j \in 1 .. Len(messages) : j # i => messages'[j] = messages[j]
    BY <1>1, <2>3
  <2>5. \A j \in i + 1 .. Len(messages) : j \in 1 .. Len(messages) /\ j # i
    BY <1>1
  <2>6. \A j \in i + 1 .. Len(messages') : messages'[j].kind = "error"
    BY <2>1, <2>4, <2>5
  <2> QED
    BY <1>1, <2>4, <2>6 DEF BatchIsLast
<1> QED
  BY <1>3, <1>4, <1>5, <1>6

\* The messages after a step were there before, or the worker has just delivered one.
LEMMA MessagesFrom ==
  ASSUME Types, BatchIsLast, FinalCoversPending, [Next]_vars
  PROVE  \/ messages' = messages
         \/ /\ Receive /\ messages # <<>> /\ Len(messages) \in Nat \ {0}
            /\ Head(messages) = messages[1] /\ Len(messages') = Len(messages) - 1
            /\ \A j \in 1 .. Len(messages) - 1 : messages'[j] = messages[j + 1]
         \/ Deliver /\ Post(worker.packet) /\ worker.packet.version = Version
         \/ /\ DeliverError /\ Len(messages) \in Nat /\ Len(messages') = Len(messages) + 1
            /\ \A j \in 1 .. Len(messages) : messages'[j] = messages[j]
            /\ messages'[Len(messages) + 1].kind = "error" /\ sink' = sink
<1>0. messages \in Seq(Message)
  BY DEF Types, GuiTypes
<1>1. CASE CallStep
  BY <1>1, CallEffects DEF host
<1>2. CASE CallOpen
  BY <1>2 DEF CallOpen
<1>3. CASE Aside
  <2>1. CASE Receive
    <3>1. messages # <<>> /\ messages' = Tail(messages)
      BY <2>1 DEF Receive
    <3>2. Len(messages) \in Nat \ {0} /\ Head(messages) = messages[1]
      BY <1>0, <3>1, EmptySeq
    <3> QED
      BY <1>0, <2>1, <3>1, <3>2, HeadTailProperties
  <2>2. CASE ~Receive
    BY <1>3, <2>2 DEF Aside, HandlerStep, CancelFramePrefetch, JumpToRecentFrame, Elsewhere, host
  <2> QED
    BY <2>1, <2>2
<1>4. CASE PrefetchFrames \/ UNCHANGED vars
  BY <1>4 DEF PrefetchFrames, vars, host
<1>5. CASE WorkStep
  <2>1. CASE StartJob \/ TakeNothing \/ Take \/ SkipStale \/ Render \/ PrefetchOne
             \/ PrefetchRepost \/ PrefetchFails
    BY <2>1 DEF StartJob, TakeNothing, Take, SkipStale, Render, PrefetchOne, PrefetchRepost,
       PrefetchFails, host
  <2>2. CASE Deliver
    BY <2>2 DEF Deliver, host
  <2>3. CASE DeliverError
    <3> DEFINE e == [kind |-> "error", packet |-> NoPacket]
    <3>1. e \in Message /\ e.kind = "error"
      BY NoPacketType DEF Message
    <3>2. messages' = messages \/ messages' = Append(messages, e)
      BY <2>3 DEF DeliverError
    <3>3. sink' = sink
      BY <2>3 DEF DeliverError
    <3> HIDE DEF e
    <3> QED
      BY <1>0, <2>3, <3>1, <3>2, <3>3, AppendProperties, LenProperties
  <2> QED
    BY <1>5, <2>1, <2>2, <2>3 DEF WorkStep
<1>6. CASE FinishStep
  BY <1>6, FinishEffects DEF host
<1> QED
  BY <1>1, <1>2, <1>3, <1>4, <1>5, <1>6, StepKinds

\* The open batch, over every step.
LEMMA BatchIsLastKept ==
  ASSUME Types, BatchIsLast, FinalCoversPending, [Next]_vars
  PROVE  BatchIsLast'
<1>1. CASE Receive
  <2>1. /\ messages # <<>> /\ Len(messages) \in Nat \ {0}
        /\ Head(messages) = messages[1] /\ Len(messages') = Len(messages) - 1
        /\ \A j \in 1 .. Len(messages) - 1 : messages'[j] = messages[j + 1]
    <3>1. messages \in Seq(Message) /\ messages # <<>> /\ messages' = Tail(messages)
      BY <1>1 DEF Receive, Types, GuiTypes
    <3>2. Len(messages) \in Nat \ {0} /\ Head(messages) = messages[1]
      BY <3>1, EmptySeq
    <3> QED
      BY <3>1, <3>2, HeadTailProperties
  <2>2. ASSUME sink'.open
        PROVE  /\ sink.open
               /\ messages[1].kind = "batch" =>
                     \E i \in 2 .. Len(messages) : messages[i].kind = "batch"
    <3> DEFINE open == sink.open /\ (messages[1].kind = "batch" =>
                             \E i \in 2 .. Len(messages) : messages[i].kind = "batch")
    <3>1. sink' = [sink EXCEPT !.open = open]
      BY <1>1, <2>1 DEF Receive
    <3> HIDE DEF open
    <3>2. sink'.open = open
      BY <3>1 DEF Types, GuiTypes
    <3> QED
      BY <2>2, <3>2 DEF open
  <2> SUFFICES ASSUME sink'.open
               PROVE  \E i \in 1 .. Len(messages') :
                         /\ messages'[i].kind = "batch"
                         /\ \A j \in i + 1 .. Len(messages') : messages'[j].kind = "error"
    BY DEF BatchIsLast
  <2>3. PICK i \in 1 .. Len(messages) :
           /\ messages[i].kind = "batch"
           /\ \A j \in i + 1 .. Len(messages) : messages[j].kind = "error"
    BY <2>2 DEF BatchIsLast
  <2>4. i # 1
    BY <2>1, <2>2, <2>3
  <2>5. i - 1 \in 1 .. Len(messages') /\ messages'[i - 1] = messages[i]
    BY <2>1, <2>3, <2>4
  <2>6. ASSUME NEW j \in (i - 1) + 1 .. Len(messages')
        PROVE  messages'[j].kind = "error"
    <3>1. j + 1 \in i + 1 .. Len(messages) /\ j \in 1 .. Len(messages) - 1
      BY <2>1, <2>3
    <3> QED
      BY <2>1, <2>3, <3>1
  <2> QED
    BY <2>3, <2>5, <2>6
<1>2. CASE Deliver
  <2>1. worker.packet \in Packets
    BY DEF Types, WorkerTypes, WorkerType
  <2>2. Post(worker.packet) \/ UNCHANGED host
    BY <1>2 DEF Deliver
  <2> QED
    BY <2>1, <2>2, PostFacts DEF Types, host, BatchIsLast
<1>3. CASE DeliverError /\ messages' # messages
  <2>1. /\ Len(messages) \in Nat /\ Len(messages') = Len(messages) + 1
        /\ \A j \in 1 .. Len(messages) : messages'[j] = messages[j]
        /\ messages'[Len(messages) + 1].kind = "error" /\ sink' = sink
    BY <1>3, MessagesFrom DEF DeliverError, Deliver, Receive
  <2> SUFFICES ASSUME sink.open
               PROVE  \E i \in 1 .. Len(messages') :
                         /\ messages'[i].kind = "batch"
                         /\ \A j \in i + 1 .. Len(messages') : messages'[j].kind = "error"
    BY <2>1 DEF BatchIsLast
  <2>2. PICK i \in 1 .. Len(messages) :
           /\ messages[i].kind = "batch"
           /\ \A j \in i + 1 .. Len(messages) : messages[j].kind = "error"
    BY DEF BatchIsLast
  <2>3. i \in 1 .. Len(messages') /\ messages'[i].kind = "batch"
    BY <2>1, <2>2
  <2>4. ASSUME NEW j \in i + 1 .. Len(messages')
        PROVE  messages'[j].kind = "error"
    <3>1. j = Len(messages) + 1 \/ (j \in i + 1 .. Len(messages) /\ j \in 1 .. Len(messages))
      BY <2>1
    <3> QED
      BY <2>1, <2>2, <3>1
  <2> QED
    BY <2>3, <2>4
<1>4. CASE messages' = messages /\ (sink'.open => sink.open)
  BY <1>4 DEF BatchIsLast
<1>5. messages' = messages /\ ~Receive /\ ~Deliver => (sink'.open => sink.open)
  <2>1. CASE CallStep \/ PrefetchFrames \/ UNCHANGED vars \/ FinishStep
    BY <2>1, CallEffects, FinishEffects DEF PrefetchFrames, vars, host
  <2>2. CASE CallOpen
    BY <2>2 DEF CallOpen, NoBatch
  <2>3. CASE Aside /\ ~Receive
    BY <2>3 DEF Aside, HandlerStep, CancelFramePrefetch, JumpToRecentFrame, Elsewhere, host
  <2>4. CASE WorkStep /\ ~Deliver
    BY <2>4 DEF WorkStep, StartJob, TakeNothing, Take, SkipStale, Render, DeliverError,
       PrefetchOne, PrefetchRepost, PrefetchFails, host
  <2> QED
    BY <2>1, <2>2, <2>3, <2>4, StepKinds
<1> QED
  BY <1>1, <1>2, <1>3, <1>4, <1>5, MessagesFrom

\* What is packed for a frame was issued, and is fresh when it is a picture.
LEMMA VersionFresh ==
  ASSUME Types
  PROVE  /\ Issued(Version) /\ Current(Version)
         /\ Issued(NoPacket.version) /\ ~Current(NoPacket.version)
<1>1. provider_version \in Nat \ {0} /\ content_version \in Nat
  BY DEF Types, ProviderTypes
<1>2. Version.provider = provider_version /\ Version.content = content_version
  BY VersionType DEF Types
<1>3. NoPacket.version.provider = 0
  BY NoPacketType
<1> QED
  BY <1>1, <1>2, <1>3 DEF Issued, Current

\* The messages, over every step.
LEMMA MessagesFreshKept ==
  ASSUME Types, Types', BatchIsLast, TodoShape, PacketsAreFresh, FinalCoversPending, [Next]_vars,
         NEW i \in 1 .. Len(messages'), messages'[i].kind # "error"
  PROVE  Fresh(messages[i].packet)'
<1>1. Outdates \/ Keeps
  BY OutdatesOrKeeps
<1>2. \A p \in Packets : Fresh(p) => Fresh(p)'
  BY <1>1, FreshStays
<1>3. messages \in Seq(Message) /\ Len(messages) \in Nat
  BY LenProperties DEF Types, GuiTypes
<1>4. \A j \in 1 .. Len(messages) : messages[j] \in Message /\ messages[j].packet \in Packets
  <2>1. \A j \in 1 .. Len(messages) : messages[j] \in Message
    BY <1>3, ElementOfSeq
  <2> QED
    BY <2>1 DEF Message
<1>5. \A j \in 1 .. Len(messages) : messages[j].kind # "error" => Fresh(messages[j].packet)
  BY DEF PacketsAreFresh
<1>6. ASSUME NEW j \in 1 .. Len(messages), messages'[i] = messages[j]
      PROVE  Fresh(messages[i].packet)'
  <2>1. messages[j].kind # "error" /\ messages[j].packet \in Packets
    BY <1>4, <1>6
  <2> DEFINE p == messages[j].packet
  <2>2. PICK q \in Packets : q = p
    BY <2>1
  <2>3. Fresh(q)
    BY <1>5, <2>1, <2>2
  <2>4. Fresh(q)' /\ messages'[i].packet = q
    BY <1>2, <1>6, <2>2, <2>3
  <2> QED
    BY <2>4
<1>7. ASSUME Deliver, Post(worker.packet), worker.packet.version = Version
      PROVE  Fresh(messages[i].packet)'
  <2>1. worker.packet \in Packets /\ worker.at = "deliver"
    BY <1>7 DEF Types, WorkerTypes, WorkerType, Deliver
  <2>2. PICK q \in Packets : q = worker.packet
    BY <2>1
  <2>3. Fresh(q)'
    BY <1>2, <2>1, <2>2 DEF PacketsAreFresh
  <2>4. messages'[i].packet = q \/ \E j \in 1 .. Len(messages) : messages'[i] = messages[j]
    <3>1. Post(q)
      BY <1>7, <2>2
    <3>2. \/ messages' = messages
          \/ /\ Len(messages') = Len(messages) + 1
             /\ \A j \in 1 .. Len(messages) : messages'[j] = messages[j]
             /\ messages'[Len(messages) + 1].packet = q
          \/ \E k \in 1 .. Len(messages) :
                /\ Len(messages') = Len(messages)
                /\ messages'[k].packet = q
                /\ \A j \in 1 .. Len(messages) : j # k => messages'[j] = messages[j]
      BY <3>1, PostFacts DEF Types
    <3> QED
      BY <1>3, <3>2
  <2> QED
    BY <1>6, <2>3, <2>4
<1>8. CASE messages' = messages
  BY <1>6, <1>8
<1>9. CASE /\ Len(messages') = Len(messages) - 1
           /\ \A j \in 1 .. Len(messages) - 1 : messages'[j] = messages[j + 1]
  <2>1. i + 1 \in 1 .. Len(messages) /\ messages'[i] = messages[i + 1]
    BY <1>3, <1>9
  <2> QED
    BY <1>6, <2>1
<1>10. CASE /\ Len(messages') = Len(messages) + 1
            /\ \A j \in 1 .. Len(messages) : messages'[j] = messages[j]
            /\ messages'[Len(messages) + 1].kind = "error"
  <2>1. i \in 1 .. Len(messages) /\ messages'[i] = messages[i]
    BY <1>3, <1>10
  <2> QED
    BY <1>6, <2>1
<1> QED
  BY <1>7, <1>8, <1>9, <1>10, MessagesFrom

\* The recent packets, over every step.
LEMMA RecentFreshKept ==
  ASSUME Types, Types', WorkerShape, TodoShape, RendererIsLoaded, PacketsAreFresh,
         FinalCoversPending, [Next]_vars, NEW p \in recent_render_packets'
  PROVE  Fresh(p)'
<1>1. Outdates \/ Keeps
  BY OutdatesOrKeeps
<1>2. \A q \in Packets : Fresh(q) => Fresh(q)'
  BY <1>1, FreshStays
<1>3. recent_render_packets \subseteq Packets /\ p \in Packets
      /\ \A q \in recent_render_packets : Fresh(q)
  BY DEF Types, GuiTypes, PacketsAreFresh
<1>4. p \in recent_render_packets => Fresh(p)'
  BY <1>2, <1>3
<1>5. CASE CallStep \/ PrefetchFrames \/ CancelFramePrefetch \/ UNCHANGED vars
  BY <1>4, <1>5, CallEffects DEF PrefetchFrames, CancelFramePrefetch, vars, gui
<1>6. CASE CallOpen
  BY <1>6 DEF CallOpen
<1>7. CASE HandlerStep
  BY <1>4, <1>7 DEF HandlerStep
<1>8. ASSUME NEW q \in recent_render_packets, JumpToRecentFrame(q)
      PROVE  Fresh(p)'
  <2> DEFINE shown == Reissued(q, request_version')
  <2>1. q \in Packets /\ request_version' \in Nat
    BY <1>3 DEF Types, ProviderTypes
  <2>2. p \in recent_render_packets \/ p = shown
    BY <1>8 DEF JumpToRecentFrame, Show, Reissued
  <2>3. /\ shown \in Packets /\ shown.frame = q.frame /\ shown.lines = q.lines
        /\ shown.colour = q.colour /\ shown.version.provider = q.version.provider
        /\ shown.version.content = q.version.content
    BY <2>1, ReissuedFacts
  <2> HIDE DEF shown
  <2>4. CASE p = shown
    <3>1. Fresh(q)
      BY <1>3
    <3>2. Fresh(p)
      BY <2>3, <2>4, <3>1 DEF Fresh, Issued, Current, IsPictureOf
    <3> QED
      BY <1>2, <1>3, <3>2
  <2> QED
    BY <1>4, <2>2, <2>4
<1>9. CASE Receive
  <2> DEFINE m == Head(messages)
  <2>1. \/ recent_render_packets' \subseteq recent_render_packets
        \/ m.kind # "error" /\ Show(m.packet, recent_render_packets)
    BY <1>9 DEF Receive
  <2>2. /\ messages # <<>> /\ messages \in Seq(Message) /\ Len(messages) \in Nat \ {0}
        /\ m = messages[1]
    BY <1>9, EmptySeq DEF Receive, Types, GuiTypes
  <2>3. m.packet \in Packets /\ (m.kind # "error" => Fresh(m.packet))
    <3>1. 1 \in 1 .. Len(messages) /\ m \in Message
      BY <2>2, ElementOfSeq
    <3>2. m.kind # "error" => Fresh(m.packet)
      BY <2>2, <3>1 DEF PacketsAreFresh
    <3> QED
      BY <3>1, <3>2 DEF Message
  <2> HIDE DEF m
  <2>4. CASE m.kind # "error" /\ p = m.packet
    <3>1. Fresh(p)
      BY <2>3, <2>4
    <3> QED
      BY <1>2, <1>3, <3>1
  <2> QED
    BY <1>4, <2>1, <2>4 DEF Show
<1>10. CASE WorkStep
  <2>1. UNCHANGED gui
    BY <1>10 DEF WorkStep, StartJob, TakeNothing, Take, SkipStale, Render, Deliver, DeliverError,
       PrefetchOne, PrefetchRepost, PrefetchFails
  <2> QED
    BY <1>4, <2>1 DEF gui
<1>11. CASE FinishTimecodes \/ FinishReplace \/ FinishClose
  BY <1>4, <1>11 DEF FinishTimecodes, FinishReplace, FinishClose, gui
<1>12. CASE FinishRender
  <2> DEFINE base == [NoPacket EXCEPT !.version = Version]
             shown == Drawn(base, frame_n)
  <2>1. /\ frame_n \in Frame /\ WorkerTypes
        /\ Version \in [provider : Nat, content : Nat, request : Nat]
    BY VersionType DEF Types, GuiTypes
  <2>2. base \in Packets /\ base.version = Version
    BY <2>1, NoPacketType DEF Packets
  <2> HIDE DEF base
  <2>3. shown.version = Version /\ shown \in Packets
    BY <2>1, <2>2, DrawnFacts
  <2>4. outcome # "unloaded" => IsPictureOf(shown, subs, colour_space, subtitles_timecodes)
    BY <2>1, <2>2, DrawnIsPicture
  <2> HIDE DEF shown
  <2>5. NothingChanged
    BY <1>12 DEF FinishRender, WorkerShape, NothingToTake, NothingChanged
  <2>6. Fresh(shown)
    BY <2>3, <2>4, <2>5, VersionFresh DEF Fresh
  <2>7. p \in recent_render_packets \/ p = shown
    BY <1>12 DEF FinishRender, Show, shown, base
  <2> QED
    BY <1>2, <1>3, <1>4, <2>6, <2>7
<1> QED
  BY <1>5, <1>6, <1>7, <1>8, <1>9, <1>10, <1>11, <1>12, StepKinds DEF Aside, FinishStep

\* The worker's packet, over every step.
LEMMA WorkerFreshKept ==
  ASSUME Types, Types', WorkerShape, TodoShape, RendererIsLoaded, PacketsAreFresh,
         FinalCoversPending, [Next]_vars
  PROVE  /\ Issued(worker.packet.version)'
         /\ Current(worker.packet.version)' => NothingChanged'
         /\ worker'.at = "deliver" => Fresh(worker.packet)'
<1>0. worker \in WorkerType /\ worker.packet \in Packets
  BY DEF Types, WorkerTypes, WorkerType
<1>1. Outdates \/ Keeps
  BY OutdatesOrKeeps
<1>2. PICK q \in Packets : q = worker.packet
  BY <1>0
<1>3. /\ Issued(q.version) /\ (Current(q.version) => NothingChanged)
      /\ worker.at = "deliver" => Fresh(q)
  BY <1>2 DEF PacketsAreFresh
<1>4. /\ Issued(q.version)' /\ (Current(q.version)' => Current(q.version) /\ Keeps)
      /\ (Fresh(q) => Fresh(q)')
  BY <1>1, <1>3, FreshStays
<1>5. Current(q.version)' => NothingChanged'
  BY <1>3, <1>4 DEF Keeps
<1>6. CASE worker' = worker
  <2>1. worker'.packet = q /\ worker'.at = worker.at
    BY <1>2, <1>6
  <2> QED
    BY <1>3, <1>4, <1>5, <2>1
<1>7. ASSUME worker'.packet = NoPacket, worker'.at # "deliver"
      PROVE  /\ Issued(worker.packet.version)'
             /\ Current(worker.packet.version)' => NothingChanged'
             /\ worker'.at = "deliver" => Fresh(worker.packet)'
  <2>1. NoPacket.version.provider = 0 /\ provider_version' \in Nat \ {0}
    BY NoPacketType DEF Types, ProviderTypes
  <2> QED
    BY <1>7, <2>1 DEF Issued, Current
<1>8. CASE WorkStep
  <2>1. CASE StartJob
    <3>1. Head(queue) \in Job /\ "prefetch" \in Stage /\ "take" \in Stage
      BY <2>1, QueueFacts DEF StartJob, Types, Stage
    <3>2. worker'.packet = NoPacket /\ worker'.at # "deliver"
      <4> DEFINE a == IF Head(queue) = "prefetch" THEN "prefetch" ELSE "take"
                 j == Head(queue)
      <4>1. a \in Stage /\ j \in Job /\ a # "deliver"
        BY <3>1
      <4>2. worker' = [Idle EXCEPT !.job = j, !.at = a]
        BY <2>1 DEF StartJob
      <4> HIDE DEF a, j
      <4> QED
        BY <4>1, <4>2, JobFacts
    <3> QED
      BY <1>7, <3>2
  <2>2. CASE TakeNothing
    <3>1. worker' = Idle \/ worker' = [worker EXCEPT !.at = "finish"]
      BY <2>2 DEF TakeNothing
    <3>2. worker'.packet = NoPacket /\ worker'.at # "deliver"
      <4>1. worker.packet = NoPacket
        BY <2>2 DEF TakeNothing, WorkerShape
      <4> QED
        BY <1>0, <3>1, <4>1, IdleFacts DEF WorkerType
    <3> QED
      BY <1>7, <3>2
  <2>3. CASE Take
    <3>1. CASE worker'.at = "render" /\ worker'.packet.version = Version
      <4>1. PICK v : v = Version
        OBVIOUS
      <4>2. UNCHANGED <<provider_version, content_version>> /\ pending' = NothingPending
        BY <2>3 DEF Take, versions
      <4>3. Issued(v) /\ worker'.packet.version = v
        BY <3>1, <4>1, VersionFresh
      <4>4. Issued(v)'
        BY <4>2, <4>3 DEF Issued
      <4>5. NothingChanged'
        BY <4>2 DEF NothingChanged, HasContent, NothingPending
      <4> QED
        BY <3>1, <4>3, <4>4, <4>5
    <3> QED
      BY <1>6, <2>3, <3>1, TakeFacts
  <2>4. CASE SkipStale \/ Deliver \/ DeliverError
    <3>1. worker' = [worker EXCEPT !.at = "take", !.packet = NoPacket]
      BY <2>4 DEF SkipStale, Deliver, DeliverError
    <3>2. worker'.packet = NoPacket /\ worker'.at # "deliver"
      BY <1>0, <3>1 DEF WorkerType
    <3> QED
      BY <1>7, <3>2
  <2>5. CASE Render
    <3> DEFINE f == worker.packet.frame
               p == Drawn(worker.packet, f)
    <3>1. /\ \/ worker' = [worker EXCEPT !.at = "deliver", !.packet = p]
             \/ worker' = [worker EXCEPT !.at = "error"]
          /\ worker.packet.version = Version
      BY <2>5 DEF Render
    <3>2. f \in Frame /\ WorkerTypes
      BY <2>5 DEF Render, WorkerShape, Types
    <3>3. p \in Packets /\ p.version = worker.packet.version
      BY <1>0, <3>2, DrawnFacts
    <3>4. outcome # "unloaded" => IsPictureOf(p, subs, colour_space, subtitles_timecodes)
      BY <1>0, <3>2, DrawnIsPicture
    <3> HIDE DEF p
    <3>5. Fresh(p)
      BY <1>2, <1>3, <3>1, <3>3, <3>4, VersionFresh DEF Fresh
    <3>6. CASE worker' = [worker EXCEPT !.at = "deliver", !.packet = p]
      <4>1. worker'.packet = p
        BY <1>0, <3>6 DEF WorkerType
      <4>2. PICK r \in Packets : r = p
        BY <3>3
      <4>3. Fresh(r)'
        BY <1>1, <3>5, <4>2, FreshStays
      <4>4. r.version = q.version
        BY <1>2, <3>3, <4>2
      <4> QED
        BY <1>4, <1>5, <4>1, <4>2, <4>3, <4>4
    <3>7. CASE worker' = [worker EXCEPT !.at = "error"]
      <4>1. worker'.packet = q /\ worker'.at # "deliver"
        BY <1>0, <1>2, <3>7 DEF WorkerType
      <4> QED
        BY <1>4, <1>5, <4>1
    <3> QED
      BY <3>1, <3>6, <3>7
  <2>6. CASE PrefetchOne \/ PrefetchRepost \/ PrefetchFails
    <3>1. /\ worker' = Idle \/ worker' = [worker EXCEPT !.at = "repost"]
          /\ worker.at \in {"prefetch", "repost"}
      BY <2>6 DEF PrefetchOne, PrefetchRepost, PrefetchFails
    <3>2. worker'.packet = NoPacket /\ worker'.at # "deliver"
      <4>1. worker.packet = NoPacket
        BY <3>1 DEF WorkerShape
      <4> QED
        BY <1>0, <3>1, <4>1, IdleFacts DEF WorkerType
    <3> QED
      BY <1>7, <3>2
  <2> QED
    BY <1>8, <2>1, <2>2, <2>3, <2>4, <2>5, <2>6 DEF WorkStep
<1>9. CASE CallOpen \/ FinishStep
  BY <1>7, <1>9, FinishEffects, IdleFacts DEF CallOpen
<1>10. CASE CallStep \/ Aside \/ PrefetchFrames \/ UNCHANGED vars
  BY <1>6, <1>10, CallEffects, AsideEffects DEF PrefetchFrames, vars
<1> QED
  BY <1>8, <1>9, <1>10, StepKinds

\* Packets on their way, over every step.
LEMMA PacketsAreFreshKept ==
  ASSUME Types, Types', WorkerShape, TodoShape, RendererIsLoaded, PacketsAreFresh, BatchIsLast,
         FinalCoversPending, [Next]_vars
  PROVE  PacketsAreFresh'
BY MessagesFreshKept, RecentFreshKept, WorkerFreshKept DEF PacketsAreFresh

\* The order of the messages, over every step: what is posted is of the newest content.
LEMMA DeliveredInOrderKept ==
  ASSUME Types, BatchIsLast, PacketsAreFresh, DeliveredInOrder, FinalCoversPending, [Next]_vars
  PROVE  DeliveredInOrder'
<1> DEFINE P(m) == m.packet.version.provider
           C(m) == m.packet.version.content
<1> SUFFICES ASSUME NEW i \in 1 .. Len(messages'), NEW j \in 1 .. Len(messages'), i < j,
                    messages'[i].kind # "error", messages'[j].kind # "error",
                    P(messages'[i]) = P(messages'[j])
             PROVE  C(messages'[i]) <= C(messages'[j])
  BY DEF DeliveredInOrder
<1>1. messages \in Seq(Message) /\ Len(messages) \in Nat
  BY LenProperties DEF Types, GuiTypes
<1>2. ASSUME NEW k \in 1 .. Len(messages), NEW l \in 1 .. Len(messages), k < l,
             messages'[i] = messages[k], messages'[j] = messages[l]
      PROVE  C(messages'[i]) <= C(messages'[j])
  BY <1>2 DEF DeliveredInOrder
<1>3. CASE messages' = messages
  BY <1>2, <1>3
<1>4. CASE /\ Len(messages') = Len(messages) - 1
           /\ \A k \in 1 .. Len(messages) - 1 : messages'[k] = messages[k + 1]
  <2>1. /\ i + 1 \in 1 .. Len(messages) /\ j + 1 \in 1 .. Len(messages) /\ i + 1 < j + 1
        /\ messages'[i] = messages[i + 1] /\ messages'[j] = messages[j + 1]
    BY <1>1, <1>4
  <2> QED
    BY <1>2, <2>1
<1>5. CASE /\ Len(messages') = Len(messages) + 1
           /\ \A k \in 1 .. Len(messages) : messages'[k] = messages[k]
           /\ messages'[Len(messages) + 1].kind = "error"
  <2>1. i \in 1 .. Len(messages) /\ j \in 1 .. Len(messages)
    BY <1>1, <1>5
  <2> QED
    BY <1>2, <1>5, <2>1
<1>6. CASE Deliver /\ Post(worker.packet) /\ worker.packet.version = Version
  <2>1. PICK q \in Packets : q = worker.packet
    BY DEF Types, WorkerTypes, WorkerType
  <2>2. q.version.provider = provider_version /\ q.version.content = content_version
    BY <1>6, <2>1, VersionType DEF Types
  <2>3. ASSUME NEW k \in 1 .. Len(messages), messages[k].kind # "error",
               P(messages[k]) = provider_version
        PROVE  C(messages[k]) <= content_version
    <3>1. Fresh(messages[k].packet)
      BY <2>3 DEF PacketsAreFresh
    <3> QED
      BY <2>3, <3>1 DEF Fresh, Issued
  <2>4. Post(q)
    BY <1>6, <2>1
  <2>5. CASE /\ Len(messages') = Len(messages) + 1
             /\ \A k \in 1 .. Len(messages) : messages'[k] = messages[k]
             /\ messages'[Len(messages) + 1].packet = q
    <3>1. i \in 1 .. Len(messages) /\ (j = Len(messages) + 1 \/ j \in 1 .. Len(messages))
      BY <1>1, <2>5
    <3>2. CASE j \in 1 .. Len(messages)
      BY <1>2, <2>5, <3>1, <3>2
    <3>3. CASE j = Len(messages) + 1
      <4>1. messages'[i] = messages[i] /\ messages'[j].packet = q
        BY <2>5, <3>1, <3>3
      <4> QED
        BY <2>2, <2>3, <3>1, <4>1
    <3> QED
      BY <3>1, <3>2, <3>3
  <2>6. ASSUME NEW k \in 1 .. Len(messages),
               Len(messages') = Len(messages), messages'[k].packet = q,
               \A l \in 1 .. Len(messages) : l # k => messages'[l] = messages[l],
               \A l \in k + 1 .. Len(messages) : messages'[l].kind = "error"
        PROVE  C(messages'[i]) <= C(messages'[j])
    <3>1. ~(j \in k + 1 .. Len(messages))
      BY <2>6
    <3>2. j <= k /\ i < k
      BY <1>1, <2>6, <3>1
    <3>3. messages'[i] = messages[i] /\ i \in 1 .. Len(messages) /\ j \in 1 .. Len(messages)
      BY <1>1, <2>6, <3>2
    <3>4. CASE j = k
      <4>1. messages'[j].packet = q
        BY <2>6, <3>4
      <4> QED
        BY <2>2, <2>3, <3>3, <4>1
    <3>5. CASE j # k
      <4>1. messages'[j] = messages[j]
        BY <2>6, <3>3, <3>5
      <4> QED
        BY <1>2, <3>3, <4>1
    <3> QED
      BY <3>4, <3>5
  <2> QED
    BY <1>3, <2>4, <2>5, <2>6, PostFacts DEF Types
<1> QED
  BY <1>3, <1>4, <1>5, <1>6, MessagesFrom
-----------------------------------------------------------------------------
(***************************************************************************)
(* What the provider was given, over every step                            *)
(***************************************************************************)
\* A call that is made leaves the others to make.
LEMMA CallsRemain ==
  ASSUME TodoTypes, todo # <<>>,
         Return \/ \E x \in CallRecord : todo' = <<x>> \o Tail(todo)
  PROVE  /\ \A calling : Names(calling, todo) /\ Head(todo).call # calling =>
                            Names(calling, todo')
         /\ \A l : Covers(todo, l) => \/ Covers(todo', l) \/ Head(todo).call = "load"
                                      \/ Head(todo).call = "update" /\ l \in Head(todo).lines
<1>1. Len(todo) \in Nat \ {0} /\ Head(todo) = todo[1]
  BY HeadFacts
<1>2. \A i \in 2 .. Len(todo) : \E j \in 1 .. Len(todo') : todo'[j] = todo[i]
  <2>1. CASE Return
    <3>1. /\ Len(todo') = Len(todo) - 1
          /\ \A i \in 1 .. Len(todo') : todo'[i] = todo[i + 1]
      BY <2>1, ReturnFacts
    <3> SUFFICES ASSUME NEW i \in 2 .. Len(todo)
                 PROVE  \E j \in 1 .. Len(todo') : todo'[j] = todo[i]
      OBVIOUS
    <3>2. i - 1 \in 1 .. Len(todo') /\ (i - 1) + 1 = i
      BY <1>1, <3>1
    <3>3. todo'[i - 1] = todo[i]
      BY <3>1, <3>2
    <3> QED
      BY <3>2, <3>3
  <2>2. ASSUME NEW x \in CallRecord, todo' = <<x>> \o Tail(todo)
        PROVE  \A i \in 2 .. Len(todo) : \E j \in 1 .. Len(todo') : todo'[j] = todo[i]
    <3>1. Len(todo') = Len(todo) /\ \A i \in 2 .. Len(todo) : todo'[i] = todo[i]
      BY <2>2, ReplaceFacts
    <3>2. \A i \in 2 .. Len(todo) : i \in 1 .. Len(todo')
      BY <3>1
    <3> QED
      BY <3>1, <3>2
  <2> QED
    BY <2>1, <2>2
<1>3. \A i \in 1 .. Len(todo) : i = 1 \/ i \in 2 .. Len(todo)
  BY <1>1
<1>4. ASSUME NEW calling, Names(calling, todo), Head(todo).call # calling
      PROVE  Names(calling, todo')
  <2>1. PICK i \in 1 .. Len(todo) : todo[i].call = calling
    BY <1>4 DEF Names
  <2>2. i \in 2 .. Len(todo)
    BY <1>1, <1>3, <1>4, <2>1
  <2>3. PICK j \in 1 .. Len(todo') : todo'[j] = todo[i]
    BY <1>2, <2>2
  <2> QED
    BY <2>1, <2>3 DEF Names
<1>5. ASSUME NEW l, Covers(todo, l)
      PROVE  \/ Covers(todo', l) \/ Head(todo).call = "load"
             \/ Head(todo).call = "update" /\ l \in Head(todo).lines
  <2>1. PICK i \in 1 .. Len(todo) :
           todo[i].call = "load" \/ (todo[i].call = "update" /\ l \in todo[i].lines)
    BY <1>5 DEF Covers
  <2>2. CASE i = 1
    BY <1>1, <2>1, <2>2
  <2>3. CASE i \in 2 .. Len(todo)
    <3>1. PICK j \in 1 .. Len(todo') : todo'[j] = todo[i]
      BY <1>2, <2>3
    <3> QED
      BY <2>1, <3>1 DEF Covers
  <2> QED
    BY <1>3, <2>2, <2>3
<1> QED
  BY <1>4, <1>5

\* Each call is followed by those after it.
LEMMA CallLeaves ==
  ASSUME Types, SyncIsAwaited, CallStep \/ CallOpen \/ FinishStep
  PROVE  /\ todo # <<>>
         /\ Return \/ \E x \in CallRecord : todo' = <<x>> \o Tail(todo)
<1>1. CASE CallSync
  BY <1>1, CallFacts DEF CallSync, CallName
<1>2. CASE CallStep /\ ~CallSync
  <2>1. todo # <<>> /\ (Return \/ ReturnScheduling)
    BY <1>2 DEF CallStep, CallLoad, CallRequest, CallCancel, CallSetColorSpace, CallSchedule,
       CallUpdate, Calling
  <2> QED
    BY <2>1, CallFacts DEF ReturnScheduling
<1>3. CASE CallOpen
  BY <1>3 DEF CallOpen, Calling
<1>4. CASE FinishStep
  BY <1>4, FinishEffects DEF SyncIsAwaited, Calling
<1> QED
  BY <1>1, <1>2, <1>3, <1>4

\* A call that gives the provider no subtitles leaves what was given.
LEMMA DocumentStays ==
  ASSUME TodoTypes, DocumentIsGiven, TakenSubs' = TakenSubs, doc' = doc,
         visual'.pending = visual.pending,
         \/ todo' = todo
         \/ /\ todo # <<>> /\ Head(todo).call \notin {"load", "update"}
            /\ Return \/ \E x \in CallRecord : todo' = <<x>> \o Tail(todo)
  PROVE  DocumentIsGiven'
<1>1. Names("load", todo) => Names("load", todo')
  BY CallsRemain
<1>2. \A l : Covers(todo, l) => Covers(todo', l)
  BY CallsRemain
<1> QED
  BY <1>1, <1>2 DEF DocumentIsGiven

\* What the worker would take depends on what is pending and on what it has.
LEMMA SameTaken ==
  pending'.subs = pending.subs /\ pending'.changed = pending.changed /\ subs' = subs
     => TakenSubs' = TakenSubs
BY DEF TakenSubs

\* A load gives the provider the document,
LEMMA LoadGives ==
  ASSUME Types, CallLoad
  PROVE  DocumentIsGiven'
<1>1. doc \in Document /\ doc # None /\ doc' = doc
  BY NoneIsNot DEF Types, GuiTypes, CallLoad, gui
<1>2. pending'.subs = doc /\ pending'.changed = NoLines
  BY LoadPending
<1>3. TakenSubs' = doc
  BY <1>1, <1>2, OverrideNothing DEF TakenSubs
<1> QED
  BY <1>1, <1>3 DEF DocumentIsGiven

\* and so does an update, or it gives the lines that were changed.
LEMMA UpdateGives ==
  ASSUME Types, SyncIsAwaited, DocumentIsGiven, NEW known \in BOOLEAN, CallUpdate(known)
  PROVE  DocumentIsGiven'
<1>1. doc \in Document /\ doc # None /\ doc' = doc /\ visual' = visual
  BY NoneIsNot DEF Types, GuiTypes, CallUpdate, gui
<1>2. subs' = subs /\ todo # <<>> /\ Head(todo).call = "update"
  BY DEF CallUpdate, Calling, renderer
<1>3. CASE ~known
  <2>1. pending'.subs = doc /\ pending'.changed = NoLines
    BY <1>3, UpdatePending
  <2>2. TakenSubs' = doc
    BY <1>1, <2>1, OverrideNothing DEF TakenSubs
  <2> QED
    BY <1>1, <2>2 DEF DocumentIsGiven
<1>4. CASE known
  <2> DEFINE ls == Head(todo).lines
             base == IF pending.subs # None THEN pending.subs ELSE subs
  <2>1. /\ pending'.subs = pending.subs
        /\ pending'.changed = Override(pending.changed, Restrict(doc, ls))
    BY <1>4, UpdatePending
  <2>2. ls \in SUBSET Line
    BY <1>2, HeadFacts DEF Types, CallRecord
  <2>3. /\ Names("load", todo) => Names("load", todo')
        /\ \A l : Covers(todo, l) => Covers(todo', l) \/ l \in ls
    <3>1. Return \/ \E x \in CallRecord : todo' = <<x>> \o Tail(todo)
      BY CallLeaves DEF CallStep
    <3> QED
      BY <1>2, <3>1, CallsRemain DEF Types
  <2>4. CASE base = None
    <3>1. TakenSubs = None
      BY <2>4 DEF TakenSubs
    <3>2. Names("load", todo')
      BY <2>3, <3>1 DEF DocumentIsGiven
    <3>3. \A l : Covers(todo', l)
      BY <3>2 DEF Names, Covers
    <3> QED
      BY <3>2, <3>3 DEF DocumentIsGiven
  <2>5. CASE base # None
    <3>1. /\ pending.subs \in Document \cup {None} /\ pending.changed \in Lines
          /\ subs \in Document \cup {None}
      BY PendingFacts DEF Types, PendingType, WorkerTypes
    <3>2. base \in Document
      BY <2>5, <3>1
    <3>3. /\ TakenSubs = Override(base, pending.changed)
          /\ TakenSubs' = Override(base, pending'.changed)
      BY <1>2, <2>1, <2>5 DEF TakenSubs
    <3>4. /\ Restrict(doc, ls) \in Lines /\ DOMAIN Restrict(doc, ls) = ls
          /\ \A l \in ls : Restrict(doc, ls)[l] = doc[l]
      BY <1>1, <2>2, RestrictFacts
    <3> HIDE DEF base, ls
    <3> DEFINE r == Restrict(doc, ls)
               c == pending.changed
    <3>5. /\ Override(c, r) \in Lines /\ DOMAIN Override(c, r) = DOMAIN c \cup ls
          /\ \A l \in ls : Override(c, r)[l] = doc[l]
          /\ \A l \in DOMAIN c \ ls : Override(c, r)[l] = c[l]
      <4>1. c \in Lines /\ r \in Lines /\ DOMAIN r = ls /\ \A l \in ls : r[l] = doc[l]
        BY <3>1, <3>4
      <4> HIDE DEF r, c
      <4>2. /\ Override(c, r) \in Lines /\ DOMAIN Override(c, r) = DOMAIN r \cup DOMAIN c
            /\ \A l \in DOMAIN r : Override(c, r)[l] = r[l]
            /\ \A l \in DOMAIN c \ DOMAIN r : Override(c, r)[l] = c[l]
        BY <4>1, OverrideLines
      <4> QED
        BY <4>1, <4>2
    <3>6. /\ TakenSubs' \in Document
          /\ \A l \in Line : TakenSubs'[l] = IF l \in ls THEN doc[l] ELSE TakenSubs[l]
      <4> DEFINE u == Override(c, r)
      <4>1. pending'.changed = u /\ u \in Lines /\ DOMAIN u = DOMAIN c \cup ls
        BY <2>1, <3>5
      <4>2. \A l \in ls : u[l] = doc[l]
        BY <3>5
      <4>3. \A l \in DOMAIN c \ ls : u[l] = c[l]
        BY <3>5
      <4> HIDE DEF u, r
      <4>4. TakenSubs' = Override(base, u) /\ c \in Lines
        BY <3>1, <3>3, <4>1
      <4>5. \A l \in Line : Override(base, u)[l] = IF l \in DOMAIN u THEN u[l] ELSE base[l]
        BY <3>2, <4>1, OverrideFacts
      <4>6. \A l \in Line : TakenSubs[l] = IF l \in DOMAIN c THEN c[l] ELSE base[l]
        BY <3>2, <3>3, <4>4, OverrideFacts
      <4>7. Override(base, u) \in Document
        BY <3>2, <4>1, OverrideFacts
      <4> HIDE DEF c
      <4> QED
        BY <4>1, <4>2, <4>3, <4>4, <4>5, <4>6, <4>7
    <3>7. TakenSubs' # None
      BY <3>6, NoneIsNot
    <3>8. \A l \in Line : \/ Covers(todo', l) \/ Awaits(visual'.pending, l)
                          \/ TakenSubs'[l] = doc'[l]
      BY <1>1, <2>3, <3>6 DEF DocumentIsGiven
    <3> QED
      BY <3>7, <3>8 DEF DocumentIsGiven
  <2> QED
    BY <2>4, <2>5
<1> QED
  BY <1>3, <1>4

\* The document, over every step.
LEMMA DocumentIsGivenKept ==
  ASSUME Types, SyncIsAwaited, TodoShape, DocumentIsGiven, FinalCoversPending, [Next]_vars
  PROVE  DocumentIsGiven'
<1>0. TodoTypes
  BY DEF Types
<1>1. CASE CallRequest \/ CallCancel \/ CallSetColorSpace
  <2>1. pending'.subs = pending.subs /\ pending'.changed = pending.changed
    BY <1>1, OtherPending
  <2>2. subs' = subs /\ doc' = doc /\ visual' = visual
    BY <1>1 DEF CallRequest, CallCancel, CallSetColorSpace, renderer, gui
  <2>3. todo # <<>> /\ (Return \/ \E x \in CallRecord : todo' = <<x>> \o Tail(todo))
    BY <1>1, CallLeaves DEF CallStep
  <2>4. Head(todo).call \notin {"load", "update"}
    BY <1>1 DEF CallRequest, CallCancel, CallSetColorSpace, Calling
  <2> QED
    BY <1>0, <2>1, <2>2, <2>3, <2>4, SameTaken, DocumentStays
<1>2. CASE CallSchedule \/ CallSync
  <2>1. UNCHANGED <<pending, subs, doc, visual>>
    BY <1>2 DEF CallSchedule, CallSync, renderer, gui
  <2>2. todo # <<>> /\ (Return \/ \E x \in CallRecord : todo' = <<x>> \o Tail(todo))
    BY <1>2, CallLeaves DEF CallStep
  <2>3. Head(todo).call \notin {"load", "update"}
    BY <1>2 DEF CallSchedule, CallSync, Calling, SyncJobs
  <2> QED
    BY <1>0, <2>1, <2>2, <2>3, SameTaken, DocumentStays
<1>3. CASE CallOpen
  <2>1. todo # <<>> /\ Head(todo).call = "open" /\ Return
    BY <1>3 DEF CallOpen, Calling
  <2>2. /\ 1 \in 1 .. Len(todo) /\ Head(todo) = todo[1] /\ Len(todo) \in Nat
        /\ Len(todo') = Len(todo) - 1
        /\ \A i \in 1 .. Len(todo') : todo'[i] = todo[i + 1]
    <3>1. Len(todo) \in Nat \ {0} /\ Head(todo) = todo[1]
      BY <1>0, <2>1, HeadFacts
    <3>2. /\ Len(todo') = Len(todo) - 1
          /\ \A i \in 1 .. Len(todo') : todo'[i] = todo[i + 1]
      BY <1>0, <2>1, ReturnFacts
    <3> QED
      BY <3>1, <3>2
  <2>3. PICK j \in 1 + 1 .. Len(todo) : todo[j].call = "load"
    BY <2>1, <2>2 DEF TodoShape
  <2>4. j - 1 \in 1 .. Len(todo') /\ (j - 1) + 1 = j
    BY <2>2, <2>3
  <2>5. todo'[j - 1].call = "load"
    BY <2>2, <2>3, <2>4
  <2>6. Names("load", todo') /\ \A l : Covers(todo', l)
    BY <2>4, <2>5 DEF Names, Covers
  <2> QED
    BY <2>6 DEF DocumentIsGiven
<1>4. CASE HandlerStep
  <2>1. UNCHANGED <<pending, subs>> /\ todo = <<>>
    BY <1>4 DEF HandlerStep, Elsewhere, renderer
  <2>2. TakenSubs' = TakenSubs
    BY <2>1, SameTaken
  <2>3. \A l : ~Covers(todo, l) /\ ~Names("load", todo)
    BY <2>1 DEF Covers, Names
  <2>4. TakenSubs # None
    BY <2>3 DEF DocumentIsGiven
  <2>5. \A l \in Line : Awaits(visual.pending, l) \/ TakenSubs[l] = doc[l]
    BY <2>3 DEF DocumentIsGiven
  <2>6. \A l \in Line : Awaits(visual.pending, l) \/ doc'[l] # doc[l] =>
                           Covers(todo', l) \/ Awaits(visual'.pending, l)
    BY <1>4 DEF HandlerStep
  <2> QED
    BY <2>2, <2>4, <2>5, <2>6 DEF DocumentIsGiven
<1>5. CASE CancelFramePrefetch \/ Receive \/ PrefetchFrames
  <2>1. UNCHANGED <<pending, subs, doc, visual, todo>>
    BY <1>5 DEF CancelFramePrefetch, Receive, PrefetchFrames, Elsewhere, renderer
  <2> QED
    BY <1>0, <2>1, SameTaken, DocumentStays
<1>6. CASE \E p \in recent_render_packets : JumpToRecentFrame(p)
  <2>1. pending'.subs = pending.subs /\ pending'.changed = pending.changed
    BY <1>6, ContextPending
  <2>2. subs' = subs /\ doc' = doc /\ visual' = visual /\ todo = <<>>
    BY <1>6 DEF JumpToRecentFrame, Handler, renderer
  <2>3. TakenSubs' = TakenSubs
    BY <2>1, <2>2, SameTaken
  <2>4. \A l : ~Covers(todo, l) /\ ~Names("load", todo)
    BY <2>2 DEF Covers, Names
  <2> QED
    BY <2>2, <2>3, <2>4 DEF DocumentIsGiven
<1>7. CASE Take
  <2>1. pending' = NothingPending /\ subs' = TakenSubs /\ UNCHANGED <<doc, visual, todo>>
    BY <1>7 DEF Take, gui
  <2>2. pending'.subs = None /\ pending'.changed = NoLines
    BY <2>1 DEF NothingPending
  <2>3. TakenSubs \in Document \cup {None}
    BY TakenSubsFacts
  <2>4. TakenSubs' = IF subs' = None THEN None ELSE Override(subs', NoLines)
    BY <2>2 DEF TakenSubs
  <2>5. TakenSubs' = TakenSubs
    BY <2>1, <2>3, <2>4, OverrideNothing
  <2> QED
    BY <1>0, <2>1, <2>5, DocumentStays
<1>8. CASE WorkStep /\ ~Take
  <2>1. UNCHANGED <<pending, subs, doc, visual, todo>>
    BY <1>8 DEF WorkStep, StartJob, TakeNothing, SkipStale, Render, Deliver, DeliverError,
       PrefetchOne, PrefetchRepost, PrefetchFails, renderer, gui
  <2> QED
    BY <1>0, <2>1, SameTaken, DocumentStays
<1>9. CASE FinishStep
  <2>1. UNCHANGED <<pending, subs, doc, visual>>
    BY <1>9 DEF FinishStep, FinishRender, FinishTimecodes, FinishReplace, FinishClose,
       renderer, gui
  <2>2. todo # <<>> /\ Head(todo).call = "wait" /\ Return
    BY <1>9, FinishEffects DEF SyncIsAwaited, Calling
  <2> QED
    BY <1>0, <2>1, <2>2, SameTaken, DocumentStays
<1>10. CASE UNCHANGED vars
  BY <1>10 DEF vars, gui, renderer, DocumentIsGiven, TakenSubs
<1>11. CASE CallLoad
  BY <1>11, LoadGives
<1>12. CASE \E known \in BOOLEAN : CallUpdate(known)
  BY <1>12, UpdateGives
<1> QED
  BY <1>1, <1>2, <1>3, <1>4, <1>5, <1>6, <1>7, <1>8, <1>9, <1>10, <1>11, <1>12, StepKinds
     DEF Aside, CallStep

\* The colours, over every step.
LEMMA ColourIsGivenKept ==
  ASSUME Types, SyncIsAwaited, TodoShape, ColourIsGiven, FinalCoversPending, [Next]_vars
  PROVE  ColourIsGiven'
<1>0. TodoTypes /\ color_matrix \in Colour /\ color_matrix # None
  BY NoneIsNot DEF Types, GuiTypes
<1>a. ASSUME pending'.colour = pending.colour, UNCHANGED <<colour_space, color_matrix>>,
             \/ todo' = todo
             \/ /\ todo # <<>> /\ Head(todo).call \notin {"colour", "open"}
                /\ Return \/ \E x \in CallRecord : todo' = <<x>> \o Tail(todo)
      PROVE  ColourIsGiven'
  <2>1. /\ Names("colour", todo) => Names("colour", todo')
        /\ Names("open", todo) => Names("open", todo')
    BY <1>0, <1>a, CallsRemain
  <2> QED
    BY <1>a, <2>1 DEF ColourIsGiven
<1>1. CASE CallRequest \/ CallCancel
  <2>1. pending'.colour = pending.colour
    BY <1>1, OtherPending
  <2>2. UNCHANGED <<colour_space, color_matrix>>
    BY <1>1 DEF CallRequest, CallCancel, renderer, gui
  <2>3. todo # <<>> /\ (Return \/ \E x \in CallRecord : todo' = <<x>> \o Tail(todo))
    BY <1>1, CallLeaves DEF CallStep
  <2>4. Head(todo).call \notin {"colour", "open"}
    BY <1>1 DEF CallRequest, CallCancel, Calling
  <2> QED
    BY <1>a, <2>1, <2>2, <2>3, <2>4
<1>2. CASE CallSchedule \/ CallSync
  <2>1. UNCHANGED <<pending, colour_space, color_matrix>>
    BY <1>2 DEF CallSchedule, CallSync, renderer, gui
  <2>2. todo # <<>> /\ (Return \/ \E x \in CallRecord : todo' = <<x>> \o Tail(todo))
    BY <1>2, CallLeaves DEF CallStep
  <2>3. Head(todo).call \notin {"colour", "open"}
    BY <1>2 DEF CallSchedule, CallSync, Calling, SyncJobs
  <2> QED
    BY <1>a, <2>1, <2>2, <2>3
<1>3. CASE CallOpen
  <2>1. pending' = NothingPending /\ colour_space' = color_matrix /\ color_matrix' = color_matrix
    BY <1>3 DEF CallOpen
  <2>2. pending'.colour = None
    BY <2>1 DEF NothingPending
  <2> QED
    BY <2>1, <2>2 DEF ColourIsGiven
<1>4. CASE HandlerStep
  <2>1. UNCHANGED <<pending, colour_space>> /\ todo = <<>>
    BY <1>4 DEF HandlerStep, Elsewhere, renderer
  <2>2. ~Names("colour", todo) /\ ~Names("open", todo)
    BY <2>1 DEF Names
  <2>3. color_matrix' = color_matrix \/ Names("colour", todo')
    BY <1>4 DEF HandlerStep
  <2> QED
    BY <2>1, <2>2, <2>3 DEF ColourIsGiven
<1>5. CASE CancelFramePrefetch \/ Receive \/ PrefetchFrames
  <2>1. UNCHANGED <<pending, colour_space, color_matrix, todo>>
    BY <1>5 DEF CancelFramePrefetch, Receive, PrefetchFrames, Elsewhere, renderer
  <2> QED
    BY <1>a, <2>1
<1>6. CASE \E p \in recent_render_packets : JumpToRecentFrame(p)
  <2>1. pending'.colour = pending.colour
    BY <1>6, ContextPending
  <2>2. UNCHANGED <<colour_space, color_matrix>> /\ todo = <<>>
    BY <1>6 DEF JumpToRecentFrame, Handler, renderer
  <2>3. ~Names("colour", todo) /\ ~Names("open", todo)
    BY <2>2 DEF Names
  <2> QED
    BY <2>1, <2>2, <2>3 DEF ColourIsGiven
<1>7. CASE Take
  <2>1. /\ pending' = NothingPending /\ UNCHANGED <<color_matrix, todo>>
        /\ colour_space' = IF pending.colour = None THEN colour_space ELSE pending.colour
    BY <1>7 DEF Take, gui
  <2>2. pending'.colour = None
    BY <2>1 DEF NothingPending
  <2> QED
    BY <2>1, <2>2 DEF ColourIsGiven
<1>8. CASE WorkStep /\ ~Take
  <2>1. UNCHANGED <<pending, colour_space, color_matrix, todo>>
    BY <1>8 DEF WorkStep, StartJob, TakeNothing, SkipStale, Render, Deliver, DeliverError,
       PrefetchOne, PrefetchRepost, PrefetchFails, renderer, gui
  <2> QED
    BY <1>a, <2>1
<1>9. CASE FinishStep
  <2>1. UNCHANGED <<pending, colour_space, color_matrix>>
    BY <1>9 DEF FinishStep, FinishRender, FinishTimecodes, FinishReplace, FinishClose,
       renderer, gui
  <2>2. todo # <<>> /\ Head(todo).call = "wait" /\ Return
    BY <1>9, FinishEffects DEF SyncIsAwaited, Calling
  <2> QED
    BY <1>a, <2>1, <2>2
<1>10. CASE UNCHANGED vars
  BY <1>10 DEF vars, gui, renderer, ColourIsGiven
<1>11. CASE CallLoad \/ \E known \in BOOLEAN : CallUpdate(known)
  <2>1. pending'.colour = pending.colour
    BY <1>11, LoadPending, UpdatePending
  <2>2. UNCHANGED <<colour_space, color_matrix>>
    BY <1>11 DEF CallLoad, CallUpdate, renderer, gui
  <2>3. todo # <<>> /\ (Return \/ \E x \in CallRecord : todo' = <<x>> \o Tail(todo))
    BY <1>11, CallLeaves DEF CallStep
  <2>4. Head(todo).call \notin {"colour", "open"}
    BY <1>11 DEF CallLoad, CallUpdate, Calling
  <2> QED
    BY <1>a, <2>1, <2>2, <2>3, <2>4
<1>12. CASE CallSetColorSpace
  <2>1. pending'.colour = color_matrix /\ color_matrix' = color_matrix
    BY <1>12, OtherPending DEF CallSetColorSpace, gui
  <2> QED
    BY <1>0, <2>1 DEF ColourIsGiven
<1> QED
  BY <1>1, <1>2, <1>3, <1>4, <1>5, <1>6, <1>7, <1>8, <1>9, <1>10, <1>11, <1>12, StepKinds
     DEF Aside, CallStep

\* A job that is waited for is done before anything else becomes of it.
LEMMA JobStaysOutstanding ==
  ASSUME Types, WorkerShape, NEW job \in SyncJobs, Outstanding(job), PrefetchFrames \/ WorkStep
  PROVE  Outstanding(job)'
<1>0. ProviderTypes /\ "prefetch" \in Job /\ job \notin {"none", "process", "prefetch"}
  BY DEF Types, Job, SyncJobs
<1>a. ASSUME queue' = queue \/ queue' = Append(queue, "prefetch")
      PROVE  \A i \in 1 .. Len(queue) : i \in 1 .. Len(queue') /\ queue'[i] = queue[i]
  BY <1>0, <1>a, QueueFacts
<1>1. CASE PrefetchFrames
  <2>1. /\ worker' = worker /\ (queue' = queue \/ queue' = Append(queue, "prefetch"))
    BY <1>1 DEF PrefetchFrames
  <2> QED
    BY <1>a, <2>1 DEF Outstanding
<1>2. CASE WorkStep
  <2>1. CASE /\ worker = Idle /\ queue # <<>> /\ worker'.job = Head(queue)
             /\ queue' = Tail(queue)
    <3>1. /\ Len(queue) \in Nat \ {0} /\ Head(queue) = queue[1] /\ Len(queue') = Len(queue) - 1
          /\ \A k \in 1 .. Len(queue) - 1 : queue'[k] = queue[k + 1]
      BY <1>0, <2>1, QueueFacts
    <3>2. worker.job # job
      BY <1>0, <2>1, IdleFacts
    <3>3. PICK i \in 1 .. Len(queue) : queue[i] = job
      BY <3>2 DEF Outstanding
    <3>4. CASE i = 1
      BY <2>1, <3>1, <3>3, <3>4 DEF Outstanding
    <3>5. CASE i # 1
      <4>1. i - 1 \in 1 .. Len(queue') /\ i - 1 \in 1 .. Len(queue) - 1 /\ (i - 1) + 1 = i
        BY <3>1, <3>5
      <4>2. queue'[i - 1] = job
        BY <3>1, <3>3, <4>1
      <4> QED
        BY <4>1, <4>2 DEF Outstanding
    <3> QED
      BY <3>4, <3>5
  <2>2. CASE worker'.job = worker.job /\ queue' = queue
    BY <2>2 DEF Outstanding
  <2>3. CASE /\ worker.job \in {"process", "prefetch"}
             /\ queue' = queue \/ queue' = Append(queue, "prefetch")
    BY <1>0, <1>a, <2>3 DEF Outstanding
  <2> QED
    BY <1>2, <2>1, <2>2, <2>3, WorkJobs
<1> QED
  BY <1>1, <1>2

\* The timecodes, over every step.
LEMMA TimecodesAreGivenKept ==
  ASSUME Types, WorkerShape, SyncIsAwaited, TodoShape, TimecodesAreGiven, FinalCoversPending,
         [Next]_vars
  PROVE  TimecodesAreGiven'
<1>0. TodoTypes /\ ProviderTypes /\ "timecodes" \in SyncJobs
  BY DEF Types, SyncJobs
<1>1. CASE CallStep
  <2>1. /\ todo # <<>> /\ ~Calling("wait") /\ UNCHANGED <<timecodes, subtitles_timecodes>>
    BY <1>1, CallEffects DEF gui, renderer
  <2>2. ~Outstanding("timecodes")
    BY <1>0, <2>1, NotWaiting DEF Outstanding
  <2>3. Return \/ \E x \in CallRecord : todo' = <<x>> \o Tail(todo)
    BY <1>1, CallLeaves
  <2>4. Head(todo).call # "open"
    <3>1. ASSUME NEW known \in BOOLEAN, CallUpdate(known)
          PROVE  Head(todo).call # "open"
      BY <3>1 DEF CallUpdate, Calling
    <3> QED
      BY <1>1, <3>1 DEF CallStep, CallLoad, CallRequest, CallCancel, CallSetColorSpace,
         CallSchedule, CallSync, Calling, SyncJobs
  <2>5. CASE Head(todo).call # "timecodes"
    BY <1>0, <2>1, <2>2, <2>3, <2>4, <2>5, CallsRemain DEF TimecodesAreGiven
  <2>6. CASE Head(todo).call = "timecodes"
    <3>1. CallSync
      <4>1. ASSUME NEW known \in BOOLEAN, CallUpdate(known)
            PROVE  FALSE
        BY <2>6, <4>1 DEF CallUpdate, Calling
      <4> QED
        BY <1>1, <2>6, <4>1 DEF CallStep, CallLoad, CallRequest, CallCancel,
           CallSetColorSpace, CallSchedule, Calling
    <3>2. Len(queue) + 1 \in 1 .. Len(queue') /\ queue'[Len(queue) + 1] = "timecodes"
      BY <2>6, <3>1, SyncCallsAreJobs
    <3> QED
      BY <3>2 DEF TimecodesAreGiven, Outstanding
  <2> QED
    BY <2>5, <2>6
<1>2. CASE CallOpen
  BY <1>2 DEF CallOpen, TimecodesAreGiven
<1>3. CASE HandlerStep
  <2>1. todo = <<>> /\ (timecodes' = timecodes \/ Names("timecodes", todo'))
    BY <1>3 DEF HandlerStep
  <2>2. UNCHANGED <<queue, worker, subtitles_timecodes>>
    BY <1>3 DEF HandlerStep, Elsewhere, renderer
  <2>3. ~Names("timecodes", todo) /\ ~Names("open", todo)
    BY <2>1 DEF Names
  <2> QED
    BY <2>1, <2>2, <2>3 DEF TimecodesAreGiven, Outstanding
<1>4. CASE CancelFramePrefetch \/ Receive
  <2>1. UNCHANGED <<queue, worker, subtitles_timecodes, timecodes, todo>>
    BY <1>4 DEF CancelFramePrefetch, Receive, Elsewhere, renderer
  <2> QED
    BY <2>1 DEF TimecodesAreGiven, Outstanding
<1>5. CASE \E p \in recent_render_packets : JumpToRecentFrame(p)
  <2>1. UNCHANGED <<queue, worker, subtitles_timecodes, timecodes>> /\ todo = <<>>
    BY <1>5 DEF JumpToRecentFrame, Handler, renderer
  <2>2. ~Names("timecodes", todo) /\ ~Names("open", todo)
    BY <2>1 DEF Names
  <2> QED
    BY <2>1, <2>2 DEF TimecodesAreGiven, Outstanding
<1>6. CASE PrefetchFrames \/ WorkStep
  <2>1. UNCHANGED <<subtitles_timecodes, timecodes, todo>>
    BY <1>6 DEF PrefetchFrames, WorkStep, StartJob, TakeNothing, Take, SkipStale, Render,
       Deliver, DeliverError, PrefetchOne, PrefetchRepost, PrefetchFails, renderer, gui
  <2>2. Outstanding("timecodes") => Outstanding("timecodes")'
    BY <1>0, <1>6, JobStaysOutstanding
  <2> QED
    BY <2>1, <2>2 DEF TimecodesAreGiven
<1>7. CASE FinishStep
  <2>1. /\ todo # <<>> /\ Head(todo).call = "wait" /\ Return /\ worker.job \in SyncJobs
        /\ \A i \in 1 .. Len(queue) : queue[i] \notin SyncJobs
    BY <1>7, FinishEffects DEF SyncIsAwaited, Calling
  <2>2. CASE FinishTimecodes
    BY <2>2 DEF FinishTimecodes, TimecodesAreGiven, gui
  <2>3. CASE FinishRender \/ FinishReplace \/ FinishClose
    <3>1. worker.job # "timecodes" /\ UNCHANGED <<timecodes, subtitles_timecodes>>
      BY <2>3 DEF FinishRender, FinishReplace, FinishClose, renderer, gui
    <3>2. ~Outstanding("timecodes")
      BY <1>0, <2>1, <3>1 DEF Outstanding
    <3> QED
      BY <1>0, <2>1, <3>1, <3>2, CallsRemain DEF TimecodesAreGiven
  <2> QED
    BY <1>7, <2>2, <2>3 DEF FinishStep
<1>8. CASE UNCHANGED vars
  BY <1>8 DEF vars, gui, renderer, TimecodesAreGiven, Outstanding
<1> QED
  BY <1>1, <1>2, <1>3, <1>4, <1>5, <1>6, <1>7, <1>8, StepKinds DEF Aside

\* What the interaction awaits, over every step.
LEMMA FinalCoversPendingKept ==
  ASSUME Types, SyncIsAwaited, FinalCoversPending, [Next]_vars
  PROVE  FinalCoversPending'
<1>1. CASE HandlerStep
  BY <1>1 DEF HandlerStep, FinalCoversPending
<1>2. CASE CallOpen
  <2>1. visual' = [NoVisual EXCEPT !.id = visual.id]
    BY <1>2 DEF CallOpen
  <2>2. visual'.pending = NoUpdate
    BY <2>1 DEF NoVisual
  <2> QED
    BY <2>2 DEF FinalCoversPending, Awaits, NoUpdate
<1>3. ASSUME visual' = visual
      PROVE  FinalCoversPending'
  BY <1>3 DEF FinalCoversPending
<1>4. CASE CallStep
  BY <1>3, <1>4, CallEffects DEF gui
<1>5. CASE CancelFramePrefetch \/ Receive \/ PrefetchFrames \/ UNCHANGED vars
  BY <1>3, <1>5 DEF CancelFramePrefetch, Receive, PrefetchFrames, vars, gui
<1>6. CASE \E p \in recent_render_packets : JumpToRecentFrame(p)
  BY <1>3, <1>6 DEF JumpToRecentFrame
<1>7. CASE WorkStep
  BY <1>3, <1>7 DEF WorkStep, StartJob, TakeNothing, Take, SkipStale, Render, Deliver,
     DeliverError, PrefetchOne, PrefetchRepost, PrefetchFails, gui
<1>8. CASE FinishStep
  BY <1>3, <1>8 DEF FinishStep, FinishRender, FinishTimecodes, FinishReplace, FinishClose, gui
<1> QED
  BY <1>1, <1>2, <1>4, <1>5, <1>6, <1>7, <1>8, StepKinds DEF Aside
-----------------------------------------------------------------------------
(***************************************************************************)
(* The inductive invariant                                                 *)
(***************************************************************************)
\* It holds when the first video has been opened and the subtitles bound,
LEMMA InvInit == Init => Inv
<1> SUFFICES ASSUME Init
             PROVE  Inv
  OBVIOUS
<1>1. /\ doc \in Document /\ doc # None /\ color_matrix \in Colour /\ timecodes \in Timecodes
      /\ 1 \in Frame /\ None \notin Frame
  BY VideoAssumption, NoneIsNot DEF Init, Frame
<1>2. /\ todo \in Seq(CallRecord) /\ Len(todo) = 1 /\ todo[1].call = "request"
      /\ todo[1].frame \in Frame
  <2>1. /\ Request(1, TRUE) \in CallRecord /\ Request(1, TRUE).call = "request"
        /\ Request(1, TRUE).frame = 1
    BY <1>1, CallFacts
  <2> DEFINE x == Request(1, TRUE)
  <2>2. todo = <<x>>
    BY DEF Init
  <2>3. x \in CallRecord /\ x.call = "request" /\ x.frame \in Frame
    BY <1>1, <2>1
  <2> HIDE DEF x
  <2> QED
    BY <2>2, <2>3
<1>3. /\ NothingPending \in PendingType /\ NothingPending.kind = "none"
      /\ NothingPending.frame = None /\ NothingPending.subs = None
      /\ NothingPending.changed = NoLines /\ NothingPending.colour = None
  BY OptionsFacts, DocumentLines DEF PendingType, NothingPending
<1>4. /\ NoPrefetch \in PrefetchType /\ ~NoPrefetch.scheduled
      /\ NoVisual \in [active : BOOLEAN, id : Nat, pending : Update, final : Update]
      /\ NoVisual.pending = NoUpdate
      /\ NoBatch \in [open : BOOLEAN, id : Nat, final : BOOLEAN] /\ ~NoBatch.open
      /\ NoSource \in SourceType /\ NoSource.frame = None
  BY DEF NoPrefetch, PrefetchType, NoVisual, NoUpdate, Update, NoBatch, NoSource, SourceType
<1>5. GuiTypes
  <2>1. accept_late_preview_frames \in BOOLEAN
    BY Zenon DEF Init
  <2> QED
    BY <1>1, <1>4, <2>1, NoPacketType DEF Init, GuiTypes
<1>6. TodoTypes
  BY <1>2 DEF TodoTypes
<1>7. ProviderTypes
  <2>1. /\ content_version \in Nat /\ request_version \in Nat
        /\ provider_version \in Nat \ {0}
    BY DEF Init
  <2>2. processing_scheduled \in BOOLEAN
    BY Zenon DEF Init
  <2>3. pending = NothingPending /\ prefetch = NoPrefetch /\ queue = <<>>
    BY DEF Init
  <2>4. (pending.kind # "none" <=> pending.frame \in Frame) /\ queue \in Seq(Job)
    BY <1>1, <1>3, <2>3
  <2> QED
    BY <1>3, <1>4, <2>1, <2>2, <2>3, <2>4 DEF ProviderTypes
<1>8. WorkerTypes
  BY <1>1, <1>4, IdleFacts, NoPacketType, DocumentLines DEF Init, WorkerTypes
<1>9. Jobs
  <2>1. worker = Idle /\ queue = <<>>
    BY DEF Init
  <2>2. WorkerShape
    BY <2>1, IdleFacts DEF WorkerShape
  <2>3. SyncIsAwaited /\ OneLink
    BY <2>1, IdleFacts DEF SyncIsAwaited, OneLink, SyncJobs
  <2>4. TodoShape
    BY <1>2 DEF TodoShape
  <2>5. RenderIsLast
    BY <2>1, IdleFacts DEF RenderIsLast, Outstanding
  <2> QED
    BY <2>2, <2>3, <2>4, <2>5 DEF Jobs
<1>10. RendererIsLoaded
  <2>1. /\ single_frame = NEW_SUBS_FILE /\ cached_source.frame = None
    BY <1>4 DEF Init
  <2> QED
    BY <2>1, Marks DEF RendererIsLoaded
<1>11. PacketsAreFresh
  <2>1. /\ messages = <<>> /\ recent_render_packets = {} /\ worker.packet = NoPacket
        /\ worker.at = "idle" /\ provider_version = 1
    BY IdleFacts DEF Init
  <2>2. Issued(NoPacket.version) /\ ~Current(NoPacket.version)
    BY <2>1, NoPacketType DEF Issued, Current
  <2> QED
    BY <2>1, <2>2 DEF PacketsAreFresh
<1>12. BatchIsLast
  BY <1>4 DEF Init, BatchIsLast
<1>13. Given
  <2>1. subs = doc /\ pending = NothingPending
    BY DEF Init
  <2>2. TakenSubs = doc
    BY <1>1, <1>3, <2>1, OverrideNothing DEF TakenSubs
  <2>3. DocumentIsGiven
    BY <1>1, <2>2 DEF DocumentIsGiven
  <2>4. ColourIsGiven /\ TimecodesAreGiven
    BY <1>3, <2>1 DEF Init, ColourIsGiven, TimecodesAreGiven
  <2>5. visual.pending = NoUpdate
    BY <1>4 DEF Init
  <2>6. FinalCoversPending
    BY <2>5 DEF FinalCoversPending, Awaits, NoUpdate
  <2> QED
    BY <2>3, <2>4, <2>6 DEF Given
<1> QED
  BY <1>5, <1>6, <1>7, <1>8, <1>9, <1>10, <1>11, <1>12, <1>13 DEF Inv, Types

\* and every step keeps it.
LEMMA InvNext == Inv /\ [Next]_vars => Inv'
<1> SUFFICES ASSUME Inv, [Next]_vars
             PROVE  Inv'
  OBVIOUS
<1>1. /\ Types /\ Jobs /\ RendererIsLoaded /\ PacketsAreFresh /\ BatchIsLast
      /\ DocumentIsGiven /\ ColourIsGiven /\ TimecodesAreGiven /\ FinalCoversPending
      /\ WorkerShape /\ SyncIsAwaited /\ TodoShape
  BY DEF Inv, Given, Jobs
<1>2. Types' /\ Jobs'
  BY <1>1, TypesKept, JobsKept
<1>3. RendererIsLoaded' /\ BatchIsLast'
  BY <1>1, RendererIsLoadedKept, BatchIsLastKept
<1>4. PacketsAreFresh'
  BY <1>1, <1>2, PacketsAreFreshKept
<1>5. Given'
  BY <1>1, DocumentIsGivenKept, ColourIsGivenKept, TimecodesAreGivenKept, FinalCoversPendingKept
     DEF Given
<1> QED
  BY <1>2, <1>3, <1>4, <1>5 DEF Inv

\* The inductive invariant: what is pending, taken, rendered and posted agrees with what
\* the GUI thread has still to give to the provider.
THEOREM Invariant == Spec => []Inv
BY InvInit, InvNext, PTL DEF Spec
-----------------------------------------------------------------------------
(***************************************************************************)
(* What follows                                                            *)
(***************************************************************************)
\* Every variable has its type, through all of AsyncVideoProvider and VideoController.
THEOREM TypeCorrect == Spec => []TypeOK
<1>1. Inv => TypeOK
  <2> SUFFICES ASSUME Types
               PROVE  TypeOK
    BY DEF Inv
  <2>1. /\ doc \in Document /\ color_matrix \in Colour /\ timecodes \in Timecodes
        /\ frame_n \in Frame /\ accept_late_preview_frames \in BOOLEAN
        /\ acceptable_late_preview_frames \subseteq Frame
        /\ recent_render_packets \subseteq Packets /\ displayed \in Packets
    BY DEF Types, GuiTypes
  <2>2. \A m \in ToSet(messages) : m.kind \in {"frame", "batch", "error"} /\ m.packet \in Packets
    <3>1. messages \in Seq(Message)
      BY DEF Types, GuiTypes
    <3>2. \A m \in ToSet(messages) : m \in Message
      BY <3>1, ElementOfSeq, LenProperties DEF ToSet
    <3> QED
      BY <3>2 DEF Message
  <2>3. /\ pending.subs \in Document \cup {None} /\ pending.changed \in Lines
        /\ pending.kind \in {"none", "context", "request"}
        /\ pending.kind # "none" <=> pending.frame \in Frame
    BY PendingFacts DEF Types, PendingType
  <2>4. worker.at \in Stage
    BY DEF Types, WorkerTypes, WorkerType
  <2>5. ToSet(queue) \subseteq SyncJobs \cup {"process", "prefetch"}
    BY DEF Types, ProviderTypes, ToSet, Job
  <2>6. /\ subs \in Document \cup {None} /\ loaded \in Lines /\ last_lines \in Lines
        /\ single_frame \in {NEW_SUBS_FILE, SUBS_FILE_ALREADY_LOADED} \cup Frame
    BY DEF Types, WorkerTypes
  <2> QED
    BY <2>1, <2>2, <2>3, <2>4, <2>5, <2>6 DEF TypeOK, Stage
<1> QED
  BY <1>1, Invariant, PTL

\* However often the range to prefetch is changed while a frame of it is decoded, the worker
\* has at most one link of the chain, and none that is not marked as scheduled.
THEOREM OneChain == Spec => []OnePrefetchChain
<1>1. Inv => OnePrefetchChain
  <2> SUFFICES ASSUME OneLink
               PROVE  OnePrefetchChain
    BY DEF Inv, Jobs
  <2> DEFINE links == {i \in 1 .. Len(queue) : queue[i] = "prefetch"}
  <2>1. CASE links = {}
    <3>1. Cardinality(links) = 0
      BY <2>1, FS_EmptySet
    <3>2. worker.job = "prefetch" => prefetch.scheduled
      BY DEF OneLink
    <3> HIDE DEF links
    <3>3. Cardinality(links) + (IF worker.job = "prefetch" THEN 1 ELSE 0)
              <= (IF prefetch.scheduled THEN 1 ELSE 0)
      BY <3>1, <3>2
    <3> QED
      BY <3>3 DEF OnePrefetchChain, links
  <2>2. CASE links # {}
    <3>1. PICK i \in 1 .. Len(queue) : queue[i] = "prefetch"
      BY <2>2
    <3>2. links = {i} /\ prefetch.scheduled /\ worker.job # "prefetch"
      BY <3>1 DEF OneLink
    <3>3. Cardinality(links) = 1
      BY <3>2, FS_Singleton
    <3> HIDE DEF links
    <3>4. Cardinality(links) + (IF worker.job = "prefetch" THEN 1 ELSE 0)
              <= (IF prefetch.scheduled THEN 1 ELSE 0)
      BY <3>2, <3>3
    <3> QED
      BY <3>4 DEF OnePrefetchChain, links
  <2> QED
    BY <2>1, <2>2
<1> QED
  BY <1>1, Invariant, PTL

\* When ~AsyncVideoProvider has returned nothing of it is left in the queue or running.
THEOREM ClosedIsQuiet == Spec => []DestroyedIsQuiet
<1>1. Inv => DestroyedIsQuiet
  <2> SUFFICES ASSUME TodoTypes, TodoShape, Calling("open")
               PROVE  queue = <<>> /\ worker = Idle
    BY DEF Inv, Types, Jobs, DestroyedIsQuiet
  <2>1. 1 \in 1 .. Len(todo) /\ todo[1].call = "open"
    BY HeadFacts DEF Calling
  <2> QED
    BY <2>1 DEF TodoShape
<1> QED
  BY <1>1, Invariant, PTL

\* What the renderer has for a single frame are the lines visible on it.
THEOREM LoadedSound == Spec => []SingleFrameIsLoaded
<1>1. Inv => SingleFrameIsLoaded
  BY DEF Inv, RendererIsLoaded, SingleFrameIsLoaded
<1> QED
  BY <1>1, Invariant, PTL

\* Packets come in the order of their contents, whatever is replaced in a batch.
THEOREM InOrder == Spec => []DeliveredInOrder
<1>1. Init => DeliveredInOrder
  BY DEF Init, DeliveredInOrder
<1>2. Inv /\ DeliveredInOrder /\ [Next]_vars => DeliveredInOrder'
  BY DeliveredInOrderKept DEF Inv, Given
<1> QED
  BY <1>1, <1>2, Invariant, PTL DEF Spec
-----------------------------------------------------------------------------
(***************************************************************************)
(* What is shown                                                           *)
(***************************************************************************)
\* When nothing remains to be given, to be taken or to be awaited, the worker has the document.
LEMMA WorkerHasDocument ==
  ASSUME Types, Given, NothingChanged, visual.pending = NoUpdate,
         \A i \in 1 .. Len(todo) : todo[i].call = "wait", ~Outstanding("timecodes")
  PROVE  subs = doc /\ colour_space = color_matrix /\ subtitles_timecodes = timecodes
<1>1. /\ \A l : ~Covers(todo, l)
      /\ \A calling : calling # "wait" => ~Names(calling, todo)
  BY DEF Covers, Names
<1>2. TakenSubs = subs /\ subs \in Document \cup {None} /\ doc \in Document
  BY TakenSubsFacts DEF NothingChanged, Types, WorkerTypes, GuiTypes
<1>3. subs # None /\ \A l \in Line : subs[l] = doc[l]
  <2>1. \A l : ~Awaits(visual.pending, l)
    BY DEF Awaits, NoUpdate
  <2> QED
    BY <1>1, <1>2, <2>1 DEF Given, DocumentIsGiven
<1>4. subs = doc
  BY <1>2, <1>3 DEF Document
<1> QED
  BY <1>1, <1>4 DEF Given, ColourIsGiven, TimecodesAreGiven, NothingChanged

\* A packet shown from the messages or from the recent packets is current.
LEMMA ShownFresh ==
  ASSUME Inv, [Next]_vars, displayed' # displayed, outcome # "unloaded", ~FinishStep
  PROVE  /\ todo = <<>> /\ NothingChanged
         /\ IsPictureOf(displayed', subs, colour_space, subtitles_timecodes)
<1>0. Types /\ PacketsAreFresh /\ FinalCoversPending
  BY DEF Inv, Given
<1>1. CASE Receive
  <2> DEFINE m == Head(messages)
  <2>1. messages # <<>> /\ todo = <<>>
    BY <1>1 DEF Receive
  <2>2. m.kind # "error" /\ Accepts(m.packet) /\ displayed' = m.packet
    BY <1>1 DEF Receive, Show
  <2>3. messages \in Seq(Message) /\ Len(messages) \in Nat \ {0} /\ m = messages[1]
    <3>1. messages \in Seq(Message)
      BY <1>0 DEF Types, GuiTypes
    <3> QED
      BY <2>1, <3>1, EmptySeq
  <2>4. Fresh(m.packet)
    <3>1. 1 \in 1 .. Len(messages)
      BY <2>3
    <3> QED
      BY <1>0, <2>2, <2>3, <3>1 DEF PacketsAreFresh
  <2>5. Current(m.packet.version)
    BY <1>0, <2>2, VersionType DEF Accepts, Current, Types
  <2> HIDE DEF m
  <2> QED
    BY <2>1, <2>2, <2>4, <2>5 DEF Fresh
<1>2. ASSUME NEW p \in recent_render_packets, JumpToRecentFrame(p)
      PROVE  /\ todo = <<>> /\ NothingChanged
             /\ IsPictureOf(displayed', subs, colour_space, subtitles_timecodes)
  <2>1. todo = <<>> /\ Adoptable(p) /\ displayed' = Reissued(p, request_version')
    BY <1>2 DEF JumpToRecentFrame, Handler, Show, Reissued
  <2>2. Fresh(p) /\ Current(p.version)
    BY <1>0, <2>1 DEF PacketsAreFresh, Adoptable, Current
  <2>3. p \in Packets /\ request_version' \in Nat
    BY <1>0, <1>2 DEF Types, GuiTypes, ProviderTypes, JumpToRecentFrame
  <2>4. /\ displayed'.frame = p.frame /\ displayed'.lines = p.lines
        /\ displayed'.colour = p.colour
    BY <2>1, <2>3, ReissuedFacts
  <2> QED
    BY <2>1, <2>2, <2>4 DEF Fresh, IsPictureOf
<1>3. CASE CallStep
  BY <1>3, CallEffects DEF gui
<1>4. CASE CallOpen \/ HandlerStep \/ CancelFramePrefetch \/ PrefetchFrames \/ UNCHANGED vars
  BY <1>4 DEF CallOpen, HandlerStep, CancelFramePrefetch, PrefetchFrames, vars, gui
<1>5. CASE WorkStep
  BY <1>5 DEF WorkStep, StartJob, TakeNothing, Take, SkipStale, Render, Deliver, DeliverError,
     PrefetchOne, PrefetchRepost, PrefetchFails, gui
<1> QED
  BY <1>0, <1>1, <1>2, <1>3, <1>4, <1>5, StepKinds DEF Aside

\* A synchronous frame is drawn when nothing is left to take, and its call is the last.
LEMMA ShownAtOnce ==
  ASSUME Inv, FinishStep, displayed' # displayed, outcome # "unloaded"
  PROVE  /\ \A i \in 1 .. Len(todo) : todo[i].call = "wait"
         /\ NothingChanged /\ ~Outstanding("timecodes")
         /\ IsPictureOf(displayed', subs, colour_space, subtitles_timecodes)
<1>0. /\ Types /\ WorkerShape /\ SyncIsAwaited /\ RenderIsLast /\ RendererIsLoaded
      /\ TodoTypes /\ ProviderTypes /\ WorkerTypes
  BY DEF Inv, Jobs, Types
<1>1. FinishRender
  BY DEF FinishStep, FinishTimecodes, FinishReplace, FinishClose, gui
<1>2. worker.at = "finish" /\ worker.job = "render"
  BY <1>1 DEF FinishRender
<1>3. NothingChanged
  BY <1>0, <1>2 DEF WorkerShape, NothingToTake, NothingChanged
<1>4. Calling("wait") /\ \A i \in 1 .. Len(queue) : queue[i] \notin SyncJobs
  BY <1>0, <1>2 DEF SyncIsAwaited, SyncJobs
<1>5. ~Outstanding("timecodes")
  BY <1>2, <1>4 DEF Outstanding, SyncJobs
<1>6. \A i \in 1 .. Len(todo) : todo[i].call = "wait"
  <2>1. Len(todo) = 1
    BY <1>0, <1>2 DEF RenderIsLast, Outstanding
  <2>2. todo[1].call = "wait"
    BY <1>0, <1>4, HeadFacts DEF Calling
  <2> QED
    BY <2>1, <2>2
<1> DEFINE packet == [NoPacket EXCEPT !.version = Version]
<1>7. displayed' = Drawn(packet, frame_n)
  BY <1>1 DEF FinishRender, Show
<1>8. packet \in Packets /\ frame_n \in Frame
  BY <1>0, NoPacketType, VersionType DEF Packets, Types, GuiTypes
<1>9. IsPictureOf(displayed', subs, colour_space, subtitles_timecodes)
  <2> HIDE DEF packet
  <2>1. IsPictureOf(Drawn(packet, frame_n), subs, colour_space, subtitles_timecodes)
    BY <1>0, <1>8, DrawnIsPicture
  <2> QED
    BY <1>7, <2>1
<1> QED
  BY <1>3, <1>5, <1>6, <1>9

\* Whatever the display is shown anew, by a message, from the recent packets or at once, is
\* the document as it is now with its colours and timecodes: no stale packet gets through.
THEOREM ShownCurrent == Spec => ShownIsCurrent
<1>1. Inv /\ [Next]_vars =>
         [displayed' # displayed /\ outcome # "unloaded" =>
            \/ visual.pending # NoUpdate
            \/ IsPictureOf(displayed', doc, color_matrix, timecodes)]_vars
  <2> SUFFICES ASSUME Inv, [Next]_vars, displayed' # displayed, outcome # "unloaded",
                      visual.pending = NoUpdate
               PROVE  IsPictureOf(displayed', doc, color_matrix, timecodes)
    OBVIOUS
  <2>1. Types /\ Given /\ SyncIsAwaited
    BY DEF Inv, Jobs
  <2>2. CASE ~FinishStep
    <3>1. /\ todo = <<>> /\ NothingChanged
          /\ IsPictureOf(displayed', subs, colour_space, subtitles_timecodes)
      BY <2>2, ShownFresh
    <3>2. ~Outstanding("timecodes")
      BY <2>1, <3>1, NotWaiting DEF Outstanding, SyncJobs, Calling
    <3>3. \A i \in 1 .. Len(todo) : todo[i].call = "wait"
      BY <3>1
    <3> QED
      BY <2>1, <3>1, <3>2, <3>3, WorkerHasDocument
  <2>3. CASE FinishStep
    BY <2>1, <2>3, ShownAtOnce, WorkerHasDocument
  <2> QED
    BY <2>2, <2>3
<1> QED
  BY <1>1, Invariant, PTL DEF Spec, ShownIsCurrent
=============================================================================
