----------------------------- MODULE VideoProvider -----------------------------
(***************************************************************************)
(* What the video display shows: AsyncVideoProvider renders frames with    *)
(* the subtitles on a worker queue, the main-thread sink brings packets to *)
(* the GUI thread, and VideoController accepts those that are still        *)
(* current.                                                                *)
(*                                                                         *)
(* Edits and requests are coalesced in the pending_* members under         *)
(* pending_mutex; content_version and request_version invalidate what is   *)
(* in flight.  A handler of the GUI thread is a sequence of provider calls *)
(* (todo), between which the worker runs and no message is handled.        *)
(*                                                                         *)
(* A subtitle line is a text; which lines are visible on a frame depends   *)
(* on the timecodes.  A picture is a frame, its colours and the lines      *)
(* drawn on it.                                                            *)
(***************************************************************************)
EXTENDS Integers, Sequences, FiniteSets, SequencesExt, Functions

CONSTANTS
    Line, Text,
    FrameCount,     \* frames are 1 .. FrameCount
    Timecodes,
    VisibleAt,      \* the lines visible with these timecodes on that frame
    Colour,
    None,
    OpenedDocs, OpenedColour, OpenedTimecodes,  \* what the first video finds
    Operations,     \* what the user does, among AllOperations
    Fails,          \* what may throw, once: "video", "subtitles"
    MaxCalls,       \* bound on what the user does
    MaxOther,       \* bound on what is not an edit, a seek or a prefetch among it
    MaxProviders    \* bound on the videos opened

Frame == 1 .. FrameCount
Document == [Line -> Text]
AllOperations == {"edit", "colour", "timecodes", "jump", "preview", "immediate",
                  "visual", "prefetch", "open"}
ASSUME VideoAssumption ==
    /\ IsFiniteSet(Line)
    /\ FrameCount \in Nat \ {0}
    /\ VisibleAt \in [Timecodes -> [Frame -> SUBSET Line]]
    /\ None \notin Frame \cup Colour \cup UNION {[ls -> Text] : ls \in SUBSET Line}
    /\ OpenedDocs \subseteq Document /\ OpenedColour \in Colour
    /\ OpenedTimecodes \in Timecodes
    /\ Operations \subseteq AllOperations /\ Fails \subseteq {"video", "subtitles"}
    /\ MaxCalls \in Nat /\ MaxOther \in Nat /\ MaxProviders \in Nat \ {0}

VARIABLES
    \* The GUI thread: VideoController and the Project it reads.
    doc, color_matrix, timecodes,
    frame_n,
    accept_late_preview_frames, acceptable_late_preview_frames,
    recent_render_packets,            \* by frame
    displayed,                        \* the packet shown last
    visual,                           \* the visual subtitle interaction
    todo,                             \* the calls the current handler still makes
    calls, others,
    \* AsyncVideoProvider, shared under pending_mutex.
    content_version, request_version, provider_version,
    pending, processing_scheduled, prefetch,
    \* The worker thread.
    queue, worker,
    subs, colour_space, subtitles_timecodes, frame_number,
    single_frame, loaded, last_rendered, last_lines, cached_source,
    \* The messages to the GUI thread, and VisualBatchDeliveryState.
    messages, sink,
    \* How the worker's last work with a frame ended, or how the one that failed did;
    \* the last packet it posted.
    outcome, drawn

previews == <<accept_late_preview_frames, acceptable_late_preview_frames>>
gui == <<doc, color_matrix, timecodes, frame_n, previews, recent_render_packets,
         displayed, visual, calls, others>>
versions == <<content_version, request_version, provider_version>>
renderer == <<subs, colour_space, subtitles_timecodes, frame_number, single_frame,
              loaded, last_rendered, last_lines, cached_source>>
host == <<messages, sink>>
history == <<outcome, drawn>>
vars == <<gui, todo, versions, pending, processing_scheduled, prefetch, queue,
          worker, renderer, host, history>>
-----------------------------------------------------------------------------
(***************************************************************************)
(* Data                                                                    *)
(***************************************************************************)
NEW_SUBS_FILE == -1
SUBS_FILE_ALREADY_LOADED == -2

NoLines == [l \in {} |-> l]
VisibleLines(d, tc, f) ==
    IF d = None THEN NoLines ELSE Restrict(d, VisibleAt[tc][f] \cap DOMAIN d)

\* A document with some lines changed.
Override(d, changed) ==
    [l \in DOMAIN d \cup DOMAIN changed |->
        IF l \in DOMAIN changed THEN changed[l] ELSE d[l]]

Version == [provider |-> provider_version, content |-> content_version,
            request |-> request_version]
NoVersion == [provider |-> 0, content |-> 0, request |-> 0]

\* VideoSubtitleUpdateOptions
EveryFrame == [class |-> "every", id |-> 0, force |-> FALSE]
Intermediate(id) == [class |-> "intermediate", id |-> id, force |-> FALSE]
Final(id) == [class |-> "final", id |-> id, force |-> TRUE]

\* VideoRenderPacket
NoPacket == [frame |-> None, lines |-> NoLines, colour |-> None,
             version |-> NoVersion, class |-> "every", id |-> 0]

\* A call of the provider, with the arguments it has.
Call(name) == [call |-> name, frame |-> None, lines |-> {}, supersede |-> FALSE,
               options |-> EveryFrame]
LoadSubtitles(options) == [Call("load") EXCEPT !.options = options]
UpdateSubtitles(ls, options) ==
    [Call("update") EXCEPT !.lines = ls, !.options = options]
Request(f, supersede) ==
    [Call("request") EXCEPT !.frame = f, !.supersede = supersede]
Schedule == Call("schedule")

NothingPending == [subs |-> None, changed |-> NoLines, check_updated |-> FALSE,
                   options |-> EveryFrame, kind |-> "none", frame |-> None,
                   colour |-> None]
NoPrefetch == [next |-> 0, end |-> 0, request |-> 0, content |-> 0,
               scheduled |-> FALSE, shutdown |-> FALSE]
Idle == [job |-> "none", at |-> "idle", packet |-> NoPacket]
NoUpdate == [mode |-> "none", lines |-> {}]
NoVisual == [active |-> FALSE, id |-> 0, pending |-> NoUpdate, final |-> NoUpdate]
NoBatch == [open |-> FALSE, id |-> 0, final |-> FALSE]
\* The cached source frame, free of subtitles.
NoSource == [frame |-> None, colour |-> None]
-----------------------------------------------------------------------------
(***************************************************************************)
(* The provider's calls, on the GUI thread                                 *)
(***************************************************************************)
Calling(name) == todo # <<>> /\ Head(todo).call = name
\* What is left to do after a call, and after one that schedules processing.
Return == todo' = Tail(todo)
ReturnScheduling == todo' = <<Schedule>> \o Tail(todo)

MergeSubtitleUpdateOptions(old, new) == [new EXCEPT !.force = @ \/ old.force]

CallLoad ==
    /\ Calling("load")
    /\ content_version' = content_version + 1
    /\ pending' = [pending EXCEPT
            !.subs = doc, !.changed = NoLines, !.check_updated = FALSE,
            !.options = MergeSubtitleUpdateOptions(@, Head(todo).options)]
    /\ ReturnScheduling
    /\ UNCHANGED <<gui, request_version, provider_version, processing_scheduled,
                   prefetch, queue, worker, renderer, host, history>>

\* known: every changed line is at the row the provider knows it at.
CallUpdate(known) ==
    /\ Calling("update")
    /\ content_version' = content_version + 1
    /\ pending' = [pending EXCEPT
            !.subs = IF known THEN @ ELSE doc,
            !.changed = IF known THEN Override(@, Restrict(doc, Head(todo).lines))
                                 ELSE NoLines,
            !.check_updated = @ \/ pending.kind # "request",
            !.options = MergeSubtitleUpdateOptions(@, Head(todo).options)]
    /\ ReturnScheduling
    /\ UNCHANGED <<gui, request_version, provider_version, processing_scheduled,
                   prefetch, queue, worker, renderer, host, history>>

CallRequest ==
    /\ Calling("request")
    /\ pending' = [pending EXCEPT !.kind = "request", !.frame = Head(todo).frame,
                                  !.check_updated = FALSE]
    /\ request_version' = request_version + (IF Head(todo).supersede THEN 1 ELSE 0)
    /\ ReturnScheduling
    /\ UNCHANGED <<gui, content_version, provider_version, processing_scheduled,
                   prefetch, queue, worker, renderer, host, history>>

\* Mutant: the cancelled request's frame stays.
CallCancel_KeepsFrame ==
    /\ Calling("cancel")
    /\ pending' = [pending EXCEPT !.kind = "none", !.check_updated = FALSE]
    /\ request_version' = request_version + 1
    /\ Return
    /\ UNCHANGED <<gui, content_version, provider_version, processing_scheduled,
                   prefetch, queue, worker, renderer, host, history>>

CallCancel ==
    /\ Calling("cancel")
    /\ pending' = [pending EXCEPT !.kind = "none", !.frame = None,
                                  !.check_updated = FALSE]
    /\ request_version' = request_version + 1
    /\ Return
    /\ UNCHANGED <<gui, content_version, provider_version, processing_scheduled,
                   prefetch, queue, worker, renderer, host, history>>

CallSetColorSpace ==
    /\ Calling("colour")
    /\ pending' = [pending EXCEPT !.colour = color_matrix]
    /\ content_version' = content_version + 1
    /\ ReturnScheduling
    /\ UNCHANGED <<gui, request_version, provider_version, processing_scheduled,
                   prefetch, queue, worker, renderer, host, history>>

\* ScheduleProcessing, after the lock of the call before was released.
CallSchedule ==
    /\ Calling("schedule")
    /\ processing_scheduled' = TRUE
    /\ queue' = IF processing_scheduled THEN queue ELSE Append(queue, "process")
    /\ Return
    /\ UNCHANGED <<gui, versions, pending, prefetch, worker, renderer, host, history>>

\* The calls that Sync with the worker: post the job, then wait for it.
SyncJobs == {"render", "timecodes", "replace", "close"}
CallSync ==
    /\ todo # <<>> /\ Head(todo).call \in SyncJobs
    /\ queue' = Append(queue, Head(todo).call)
    /\ prefetch' = [prefetch EXCEPT !.shutdown = @ \/ Head(todo).call = "close"]
    /\ todo' = <<Call("wait")>> \o Tail(todo)
    /\ UNCHANGED <<gui, versions, pending, processing_scheduled, worker, renderer,
                   host, history>>

ClearLatePreviewFrameAcceptance ==
    accept_late_preview_frames' = FALSE /\ acceptable_late_preview_frames' = {}

\* The new provider, and VideoController::OnNewVideoProvider.
CallOpen ==
    /\ Calling("open")
    /\ provider_version' = provider_version + 1
    /\ content_version' = 0 /\ request_version' = 0
    /\ pending' = NothingPending /\ processing_scheduled' = FALSE
    /\ prefetch' = NoPrefetch /\ queue' = <<>> /\ worker' = Idle
    /\ subs' = None /\ colour_space' = color_matrix
    /\ subtitles_timecodes' = timecodes
    /\ frame_number' = None /\ single_frame' = NEW_SUBS_FILE /\ loaded' = NoLines
    /\ last_rendered' = None /\ last_lines' = NoLines /\ cached_source' = NoSource
    /\ sink' = NoBatch
    /\ ClearLatePreviewFrameAcceptance /\ recent_render_packets' = {}
    /\ visual' = [NoVisual EXCEPT !.id = visual.id]
    /\ Return
    /\ UNCHANGED <<doc, color_matrix, timecodes, frame_n, displayed, calls, others,
                   messages, history>>
-----------------------------------------------------------------------------
(***************************************************************************)
(* What the user does: VideoController and Project, on the GUI thread      *)
(***************************************************************************)
\* What counts for MaxOther: a failed load of subtitles does too.
Others == others + (IF outcome = "unloaded" THEN 1 ELSE 0)

\* A handler may start, and is one of at most MaxCalls.
Handler(operation) ==
    /\ todo = <<>>
    /\ operation \in Operations
    /\ calls < MaxCalls
    /\ calls' = calls + 1
    /\ IF operation \in {"edit", "jump", "preview", "prefetch"} THEN UNCHANGED others
       ELSE Others < MaxOther /\ others' = others + 1
Elsewhere == <<versions, pending, processing_scheduled, queue, worker, renderer,
               host, history>>

\* UpdateCoalescer
AddSubtitleCommit(u, mode, ls) ==
    IF mode = "load" \/ u.mode = "load" THEN [mode |-> "load", lines |-> {}]
    ELSE [mode |-> "update", lines |-> u.lines \cup ls]
SubmitSubtitleUpdate(u, options) ==
    IF u.mode = "none" THEN <<>>
    ELSE IF u.mode = "load" THEN <<LoadSubtitles(options)>>
    ELSE <<UpdateSubtitles(u.lines, options)>>

\* OnSubtitlesCommit: outside an interaction the provider is told at once, in
\* one when the pacing's deadline has passed (due), else by the timer.
AfterCommit(mode, ls, before, due) ==
    IF visual.active
    THEN /\ visual' = [visual EXCEPT
              !.pending = IF due THEN NoUpdate ELSE AddSubtitleCommit(@, mode, ls),
              !.final = AddSubtitleCommit(@, mode, ls)]
         /\ todo' = before \o
              IF due THEN SubmitSubtitleUpdate(
                              AddSubtitleCommit(visual.pending, mode, ls),
                              Intermediate(visual.id))
                     ELSE <<>>
    ELSE /\ todo' = before \o SubmitSubtitleUpdate([mode |-> mode, lines |-> ls],
                                                   EveryFrame)
         /\ visual' = visual

OnSubtitlesCommit(l, text, mode, due) ==
    /\ Handler("edit")
    /\ doc[l] # text
    /\ doc' = [doc EXCEPT ![l] = text]
    /\ recent_render_packets' = {}
    /\ AfterCommit(mode, IF mode = "update" THEN {l} ELSE {}, <<>>, due)
    /\ UNCHANGED <<color_matrix, timecodes, frame_n, previews, displayed, prefetch,
                   Elsewhere>>

\* A commit of the script properties that changes the YCbCr matrix.
OnColourCommit(c, due) ==
    /\ Handler("colour")
    /\ color_matrix # c
    /\ color_matrix' = c
    /\ recent_render_packets' = {}
    /\ AfterCommit("load", {}, <<Call("colour")>>, due)
    /\ UNCHANGED <<doc, timecodes, frame_n, previews, displayed, prefetch, Elsewhere>>

BeginVisualSubtitleInteraction ==
    /\ Handler("visual")
    /\ ~visual.active
    /\ visual' = [NoVisual EXCEPT !.active = TRUE, !.id = visual.id + 1]
    /\ UNCHANGED <<doc, color_matrix, timecodes, frame_n, previews,
                   recent_render_packets, displayed, todo, prefetch, Elsewhere>>

OnVisualSubtitleUpdateTimer ==
    /\ todo = <<>>
    /\ visual.active /\ visual.pending # NoUpdate
    /\ todo' = SubmitSubtitleUpdate(visual.pending, Intermediate(visual.id))
    /\ visual' = [visual EXCEPT !.pending = NoUpdate]
    /\ UNCHANGED <<doc, color_matrix, timecodes, frame_n, previews,
                   recent_render_packets, displayed, calls, others, prefetch,
                   Elsewhere>>

\* Releasing the mouse ends the interaction.
EndVisualSubtitleInteraction ==
    /\ todo = <<>>
    /\ visual.active
    /\ todo' = SubmitSubtitleUpdate(visual.final, Final(visual.id))
    /\ visual' = [NoVisual EXCEPT !.id = visual.id]
    /\ UNCHANGED <<doc, color_matrix, timecodes, frame_n, previews,
                   recent_render_packets, displayed, calls, others, prefetch,
                   Elsewhere>>

\* The calls of RequestFrame: a due update goes first.
RequestCalls(due, supersede, f) ==
    (IF due THEN SubmitSubtitleUpdate(visual.pending, Intermediate(visual.id))
            ELSE <<>>)
    \o <<Request(f, supersede)>>
FlushDue(due) ==
    visual' = IF due THEN [visual EXCEPT !.pending = NoUpdate] ELSE visual

\* DeliverFrameReady: the packet is shown and remembered.
Show(packet, recent) ==
    /\ displayed' = packet
    /\ recent_render_packets' = {p \in recent : p.frame # packet.frame} \cup {packet}

\* TryAdoptCachedFrame accepts the packet.
Adoptable(packet) ==
    packet.version.provider = provider_version
    /\ packet.version.content = content_version

JumpToFrame(f, due) ==
    /\ Handler("jump")
    /\ frame_n' = f
    /\ ClearLatePreviewFrameAcceptance
    /\ FlushDue(due)
    /\ recent_render_packets' = {p \in recent_render_packets : p.frame # f}
    /\ ~\E p \in recent_render_packets : p.frame = f /\ Adoptable(p)
    /\ todo' = RequestCalls(due, TRUE, f)
    /\ UNCHANGED <<doc, color_matrix, timecodes, displayed, prefetch, Elsewhere>>

\* TrySeekAndDeliverRecentRenderPacket
JumpToRecentFrame(packet) ==
    /\ Handler("jump")
    /\ packet \in recent_render_packets /\ Adoptable(packet)
    /\ frame_n' = packet.frame
    /\ ClearLatePreviewFrameAcceptance
    /\ request_version' = request_version + 1
    /\ pending' = [pending EXCEPT !.kind = "context", !.frame = packet.frame,
                                  !.check_updated = FALSE]
    /\ Show([packet EXCEPT !.version.request = request_version', !.class = "every",
                           !.id = 0], recent_render_packets)
    /\ todo' = <<Schedule>>
    /\ UNCHANGED <<doc, color_matrix, timecodes, visual, content_version,
                   provider_version, processing_scheduled, prefetch, queue, worker,
                   renderer, host, history>>

\* Dragging: a preview does not supersede the one before it, and its frame may
\* be shown when it is no longer the target.
PreviewToFrame(f, due) ==
    /\ Handler("preview")
    /\ frame_n' = f
    /\ accept_late_preview_frames' = TRUE
    /\ acceptable_late_preview_frames' = acceptable_late_preview_frames \cup {f}
    /\ FlushDue(due)
    /\ todo' = (IF accept_late_preview_frames THEN <<>> ELSE <<Call("cancel")>>)
               \o RequestCalls(due, FALSE, f)
    /\ UNCHANGED <<doc, color_matrix, timecodes, recent_render_packets, displayed,
                   prefetch, Elsewhere>>

\* RequestFrameImmediate waits for the packet.
RequestFrameImmediate(due) ==
    /\ Handler("immediate")
    /\ ClearLatePreviewFrameAcceptance
    /\ FlushDue(due)
    /\ todo' = (IF due THEN SubmitSubtitleUpdate(visual.pending, Intermediate(visual.id))
                       ELSE <<>>)
               \o <<Call("cancel"), Call("render")>>
    /\ UNCHANGED <<doc, color_matrix, timecodes, frame_n, recent_render_packets,
                   displayed, prefetch, Elsewhere>>

\* Project::DoLoadTimecodes.  What JumpToFrame finds among the recent packets is
\* of an older content, and the announcement clears the others.
LoadTimecodes(tc) ==
    /\ Handler("timecodes")
    /\ tc # timecodes
    /\ timecodes' = tc
    /\ recent_render_packets' = {} /\ ClearLatePreviewFrameAcceptance
    /\ todo' = <<Call("timecodes"), Request(frame_n, TRUE)>>
    /\ UNCHANGED <<doc, color_matrix, frame_n, displayed, visual, prefetch,
                   Elsewhere>>

\* Project::RefreshSubtitlesProvider
ReloadSubtitlesProvider ==
    /\ Handler("timecodes")
    /\ recent_render_packets' = {} /\ ClearLatePreviewFrameAcceptance
    /\ todo' = <<Call("replace"), Call("timecodes"), LoadSubtitles(EveryFrame),
                 Request(frame_n, TRUE)>>
    /\ UNCHANGED <<doc, color_matrix, timecodes, frame_n, displayed, visual, prefetch, Elsewhere>>

\* Project::ReloadVideo: the old provider is destroyed, the new one bound.
ReloadVideo ==
    /\ Handler("open")
    /\ provider_version < MaxProviders
    /\ todo' = <<Call("close"), Call("open"), LoadSubtitles(EveryFrame),
                 Call("timecodes"), Request(frame_n, TRUE)>>
    /\ UNCHANGED <<doc, color_matrix, timecodes, frame_n, previews,
                   recent_render_packets, displayed, visual, prefetch, Elsewhere>>

\* OnPausedPrefetchTimer: only ahead of a frame that is displayed.
PrefetchFrames ==
    /\ Handler("prefetch")
    /\ displayed.frame = frame_n /\ frame_n < FrameCount
    /\ prefetch' = [prefetch EXCEPT
            !.next = frame_n + 1, !.end = FrameCount + 1,
            !.request = request_version, !.content = content_version,
            !.scheduled = TRUE]
    /\ queue' = IF prefetch.scheduled THEN queue ELSE Append(queue, "prefetch")
    /\ UNCHANGED <<doc, color_matrix, timecodes, frame_n, previews,
                   recent_render_packets, displayed, visual, todo, versions, pending,
                   processing_scheduled, worker, renderer, host, history>>

CancelFramePrefetch ==
    /\ Handler("prefetch")
    /\ prefetch' = [prefetch EXCEPT !.next = 0, !.end = 0]
    /\ UNCHANGED <<doc, color_matrix, timecodes, frame_n, previews,
                   recent_render_packets, displayed, visual, todo, Elsewhere>>
-----------------------------------------------------------------------------
(***************************************************************************)
(* What the GUI thread receives                                            *)
(***************************************************************************)
\* DeliverFrameReady's test: the frame asked for, or one a preview asked for before.
IsAwaited(frame) ==
    frame = frame_n
    \/ (accept_late_preview_frames /\ frame \in acceptable_late_preview_frames)

\* Mutant: a packet is accepted for its frame alone.
Accepts_AnyContent(packet) ==
    /\ packet.version.provider = provider_version
    /\ packet.version.request = request_version
    /\ IsAwaited(packet.frame)

\* IsCurrent, and DeliverFrameReady's test of the frame.
Accepts(packet) ==
    /\ packet.version = Version
    /\ IsAwaited(packet.frame)

\* The message's callback: a packet or an error.  A visual batch is closed.
Receive ==
    /\ todo = <<>>
    /\ messages # <<>>
    /\ messages' = Tail(messages)
    /\ LET m == Head(messages) IN
       /\ sink' = [sink EXCEPT !.open =
                     @ /\ (m.kind = "batch" =>
                             \E i \in 2 .. Len(messages) : messages[i].kind = "batch")]
       /\ IF m.kind = "error"
          THEN /\ recent_render_packets' = {}
               /\ UNCHANGED <<displayed, frame_n, previews>>
          ELSE IF Accepts(m.packet)
          THEN /\ Show(m.packet, recent_render_packets)
               /\ frame_n' = m.packet.frame
               /\ accept_late_preview_frames' = accept_late_preview_frames
               /\ acceptable_late_preview_frames' =
                     IF m.packet.frame = frame_n THEN acceptable_late_preview_frames
                     ELSE acceptable_late_preview_frames \ {m.packet.frame}
          ELSE UNCHANGED <<displayed, frame_n, previews, recent_render_packets>>
    /\ UNCHANGED <<doc, color_matrix, timecodes, visual, calls, others, todo, versions,
                   pending, processing_scheduled, prefetch, queue, worker, renderer,
                   history>>
-----------------------------------------------------------------------------
(***************************************************************************)
(* The worker                                                              *)
(***************************************************************************)
\* A frame was not rendered; or subtitles were not loaded, which no later pass notices.
HasFailed == outcome \in {"failed", "unloaded"}
Ended(how, packet) ==
    /\ outcome' = IF HasFailed THEN outcome ELSE how
    /\ drawn' = packet

StartJob ==
    /\ worker = Idle /\ queue # <<>>
    /\ queue' = Tail(queue)
    /\ worker' = [Idle EXCEPT !.job = Head(queue),
                    !.at = IF Head(queue) = "prefetch" THEN "prefetch" ELSE "take"]
    /\ UNCHANGED <<gui, todo, versions, pending, processing_scheduled, prefetch,
                   renderer, host, history>>

\* ProcessPending: the pending changes, taken under the lock.
HasContent == pending.subs # None \/ pending.changed # NoLines
NothingToTake == ~HasContent /\ pending.kind = "none" /\ pending.colour = None
TakenSubs ==
    LET base == IF pending.subs # None THEN pending.subs ELSE subs
    IN  IF base = None THEN None ELSE Override(base, pending.changed)
TakenFrame == IF pending.kind # "none" THEN pending.frame ELSE frame_number
HasFrame ==
    pending.kind = "request" \/ (HasContent /\ TakenFrame # None)

\* Mutant: the end of the loop leaves processing scheduled.
TakeNothing_KeepsScheduled ==
    /\ worker.at = "take"
    /\ NothingToTake
    /\ worker' = IF worker.job = "process" THEN Idle
                                           ELSE [worker EXCEPT !.at = "finish"]
    /\ UNCHANGED <<gui, todo, versions, pending, processing_scheduled, prefetch,
                   queue, renderer, host, history>>

TakeNothing ==
    /\ worker.at = "take"
    /\ NothingToTake
    /\ processing_scheduled' = FALSE
    /\ worker' = IF worker.job = "process" THEN Idle
                                           ELSE [worker EXCEPT !.at = "finish"]
    /\ UNCHANGED <<gui, todo, versions, pending, prefetch, queue, renderer, host,
                   history>>

\* NeedUpdate: with new subtitles, a frame rendered before needs it only when
\* its visible lines have changed.
NeedUpdate(single, d, f) ==
    \/ single # NEW_SUBS_FILE
    \/ f # last_rendered
    \/ VisibleLines(d, subtitles_timecodes, f) # last_lines

\* Mutant: lines updated in place do not count as new subtitles.
NewSingleFrame_LoadsOnly ==
    IF pending.subs # None THEN NEW_SUBS_FILE ELSE single_frame

\* The renderer's subtitles are out of date.
NewSingleFrame ==
    IF HasContent /\ TakenSubs # None THEN NEW_SUBS_FILE ELSE single_frame

Take ==
    /\ worker.at = "take"
    /\ ~NothingToTake
    /\ pending' = NothingPending
    /\ colour_space' = IF pending.colour = None THEN colour_space ELSE pending.colour
    /\ cached_source' = IF pending.colour = None THEN cached_source ELSE NoSource
    /\ frame_number' = IF pending.kind = "context" \/ HasFrame THEN TakenFrame
                                                                ELSE frame_number
    /\ subs' = TakenSubs
    /\ single_frame' = NewSingleFrame
    /\ LET skip == /\ pending.check_updated /\ ~pending.options.force
                   /\ ~NeedUpdate(single_frame', subs', frame_number')
       IN  IF HasFrame /\ ~skip
           THEN /\ worker' = [worker EXCEPT !.at = "render",
                     !.packet = [NoPacket EXCEPT
                        !.frame = frame_number', !.version = Version,
                        !.class = IF pending.kind = "request" THEN "every"
                                  ELSE pending.options.class,
                        !.id = IF pending.kind = "request" THEN 0
                               ELSE pending.options.id]]
                /\ UNCHANGED history
           ELSE /\ UNCHANGED worker
                /\ IF HasFrame THEN Ended("skipped", drawn) ELSE UNCHANGED history
    /\ UNCHANGED <<gui, todo, versions, processing_scheduled, prefetch, queue,
                   subtitles_timecodes, loaded, last_rendered, last_lines, host>>

\* ProcRenderPacket.  After an edit only the lines visible on the frame are
\* loaded into the renderer, for another frame all of them.
Loads(f) == single_frame # f /\ single_frame # SUBS_FILE_ALREADY_LOADED
LoadedFor(f) ==
    IF subs = None \/ ~Loads(f) THEN loaded
    ELSE IF single_frame = NEW_SUBS_FILE
         THEN VisibleLines(subs, subtitles_timecodes, f)
         ELSE subs
SingleFrame(f) ==
    IF subs = None \/ ~Loads(f) THEN single_frame
    ELSE IF single_frame = NEW_SUBS_FILE THEN f ELSE SUBS_FILE_ALREADY_LOADED
SourceFrame(f) ==
    IF subs # None /\ cached_source.frame = f THEN cached_source
    ELSE [frame |-> f, colour |-> colour_space]
Drawn(packet, f) ==
    [packet EXCEPT !.frame = f, !.colour = SourceFrame(f).colour,
        !.lines = IF subs = None THEN NoLines
                  ELSE VisibleLines(LoadedFor(f), subtitles_timecodes, f)]
ProcRenderPacket(f) ==
    /\ cached_source' = IF subs = None THEN cached_source ELSE SourceFrame(f)
    /\ loaded' = LoadedFor(f)
    /\ single_frame' = SingleFrame(f)
\* The source frame cannot be decoded.
VideoFails(f) ==
    /\ "video" \in Fails /\ ~HasFailed
    /\ subs # None => cached_source.frame # f
    /\ UNCHANGED <<cached_source, loaded, single_frame>>
\* LoadSubtitles throws.  After an edit single_frame was already set; the
\* renderer has dropped the subtitles it had.
SubtitlesFail(f) ==
    /\ "subtitles" \in Fails /\ ~HasFailed /\ Others < MaxOther
    /\ subs # None /\ Loads(f)
    /\ cached_source' = SourceFrame(f)
    /\ loaded' = NoLines
    /\ single_frame' = IF single_frame = NEW_SUBS_FILE THEN f ELSE single_frame

\* A pass that newer work has made stale is skipped.
SkipStale ==
    /\ worker.at = "render"
    /\ worker.packet.version # Version
    /\ worker' = [worker EXCEPT !.at = "take", !.packet = NoPacket]
    /\ UNCHANGED <<gui, todo, versions, pending, processing_scheduled, prefetch,
                   queue, renderer, host, history>>

Render ==
    /\ worker.at = "render"
    /\ worker.packet.version = Version
    /\ LET f == worker.packet.frame IN
       \/ /\ ProcRenderPacket(f)
          /\ worker' = [worker EXCEPT !.at = "deliver", !.packet = Drawn(@, f)]
          /\ UNCHANGED history
       \/ /\ VideoFails(f)
          /\ worker' = [worker EXCEPT !.at = "error"]
          /\ UNCHANGED history
       \/ /\ SubtitlesFail(f)
          /\ worker' = [worker EXCEPT !.at = "error"]
          /\ Ended("unloaded", drawn)
    /\ UNCHANGED <<gui, todo, versions, pending, processing_scheduled, prefetch,
                   queue, subs, colour_space, subtitles_timecodes, frame_number,
                   last_rendered, last_lines, host>>

\* The sink: visual packets share the open batch, where the newest replaces the
\* others; any other packet closes it and has a message of its own.
LastBatch ==
    Max({i \in 1 .. Len(messages) : messages[i].kind = "batch"})
Superseded(packet) ==
    \/ packet.id < sink.id
    \/ packet.id = sink.id /\ sink.final /\ packet.class = "intermediate"

\* Mutant: another packet leaves the visual batch open.
Post_LeavesBatchOpen(packet) ==
    IF packet.class = "every"
    THEN /\ messages' = Append(messages, [kind |-> "frame", packet |-> packet])
         /\ UNCHANGED sink
    ELSE IF Superseded(packet) THEN UNCHANGED host
    ELSE /\ LET m == [kind |-> "batch", packet |-> packet] IN
            messages' = IF sink.open THEN [messages EXCEPT ![LastBatch] = m]
                                     ELSE Append(messages, m)
         /\ sink' = [open |-> TRUE, id |-> packet.id,
                     final |-> packet.class = "final"
                               \/ (sink.final /\ packet.id = sink.id)]

Post(packet) ==
    IF packet.class = "every"
    THEN /\ messages' = Append(messages, [kind |-> "frame", packet |-> packet])
         /\ sink' = [sink EXCEPT !.open = FALSE]
    ELSE IF Superseded(packet) THEN UNCHANGED host
    ELSE /\ LET m == [kind |-> "batch", packet |-> packet] IN
            messages' = IF sink.open THEN [messages EXCEPT ![LastBatch] = m]
                                     ELSE Append(messages, m)
         /\ sink' = [open |-> TRUE, id |-> packet.id,
                     final |-> packet.class = "final"
                               \/ (sink.final /\ packet.id = sink.id)]

\* Mutant: the lines of a dropped packet are remembered as rendered.
Deliver_RemembersDropped ==
    /\ worker.at = "deliver"
    /\ worker' = [worker EXCEPT !.at = "take", !.packet = NoPacket]
    /\ last_rendered' = frame_number
    /\ last_lines' = VisibleLines(subs, subtitles_timecodes, frame_number)
    /\ IF worker.packet.version = Version
       THEN Post(worker.packet) /\ Ended("drawn", worker.packet)
       ELSE UNCHANGED <<host, history>>
    /\ UNCHANGED <<gui, todo, versions, pending, processing_scheduled, prefetch,
                   queue, subs, colour_space, subtitles_timecodes, frame_number,
                   single_frame, loaded, cached_source>>

\* should_deliver: nothing newer came while it was rendered.
Deliver ==
    /\ worker.at = "deliver"
    /\ worker' = [worker EXCEPT !.at = "take", !.packet = NoPacket]
    /\ IF worker.packet.version = Version
       THEN /\ last_rendered' = frame_number
            /\ last_lines' = VisibleLines(subs, subtitles_timecodes, frame_number)
            /\ Post(worker.packet)
            /\ Ended("drawn", worker.packet)
       ELSE UNCHANGED <<last_rendered, last_lines, host, history>>
    /\ UNCHANGED <<gui, todo, versions, pending, processing_scheduled, prefetch,
                   queue, subs, colour_space, subtitles_timecodes, frame_number,
                   single_frame, loaded, cached_source>>

DeliverError ==
    /\ worker.at = "error"
    /\ worker' = [worker EXCEPT !.at = "take", !.packet = NoPacket]
    /\ IF worker.packet.version = Version
       THEN /\ messages' = Append(messages, [kind |-> "error", packet |-> NoPacket])
            /\ Ended("failed", drawn)
       ELSE UNCHANGED <<messages, history>>
    /\ UNCHANGED <<gui, todo, versions, pending, processing_scheduled, prefetch,
                   queue, renderer, sink>>

\* The end of GetRenderPacket; the GUI thread shows the packet it returns.
FinishRender ==
    /\ worker.at = "finish" /\ worker.job = "render"
    /\ worker' = Idle
    /\ Return
    /\ \/ /\ ProcRenderPacket(frame_n)
          /\ frame_number' = frame_n
          /\ Show(Drawn([NoPacket EXCEPT !.version = Version], frame_n),
                  recent_render_packets)
          /\ Ended("drawn", drawn)
       \/ /\ \/ VideoFails(frame_n) /\ Ended("failed", drawn)
             \/ SubtitlesFail(frame_n) /\ Ended("unloaded", drawn)
          /\ recent_render_packets' = {}
          /\ UNCHANGED <<frame_number, displayed>>
    /\ UNCHANGED <<doc, color_matrix, timecodes, frame_n, previews, visual, calls,
                   others, versions, pending, processing_scheduled, prefetch, queue,
                   subs, colour_space, subtitles_timecodes, last_rendered, last_lines,
                   host>>

\* What SetSubtitlesTimecodes and ReplaceSubtitlesProvider forget.
ForgetRendered ==
    /\ content_version' = content_version + 1
    /\ single_frame' = NEW_SUBS_FILE
    /\ last_rendered' = None /\ last_lines' = NoLines
    /\ cached_source' = NoSource

FinishTimecodes ==
    /\ worker.at = "finish" /\ worker.job = "timecodes"
    /\ worker' = Idle
    /\ Return
    /\ subtitles_timecodes' = timecodes
    /\ ForgetRendered
    /\ UNCHANGED <<gui, request_version, provider_version, pending,
                   processing_scheduled, prefetch, queue, subs, colour_space,
                   frame_number, loaded, host, history>>

FinishReplace ==
    /\ worker.at = "finish" /\ worker.job = "replace"
    /\ worker' = Idle
    /\ Return
    /\ loaded' = NoLines
    /\ ForgetRendered
    /\ UNCHANGED <<gui, request_version, provider_version, pending,
                   processing_scheduled, prefetch, queue, subs, colour_space,
                   subtitles_timecodes, frame_number, host, history>>

FinishClose ==
    /\ worker.at = "finish" /\ worker.job = "close"
    /\ worker' = Idle
    /\ Return
    /\ UNCHANGED <<gui, versions, pending, processing_scheduled, prefetch, queue,
                   renderer, host, history>>

CanContinuePrefetchLocked ==
    /\ ~prefetch.shutdown
    /\ prefetch.request = request_version /\ prefetch.content = content_version
    /\ NothingToTake
    /\ prefetch.next > 0 /\ prefetch.next < prefetch.end

\* Mutant: a link that runs is no longer scheduled.
PrefetchOne_Unscheduled ==
    /\ worker.at = "prefetch"
    /\ IF ~CanContinuePrefetchLocked
       THEN worker' = Idle /\ prefetch' = [prefetch EXCEPT !.scheduled = FALSE]
       ELSE /\ worker' = [worker EXCEPT !.at = "repost"]
            /\ prefetch' = [prefetch EXCEPT !.next = @ + 1, !.scheduled = FALSE]
    /\ UNCHANGED <<gui, todo, versions, pending, processing_scheduled, queue,
                   renderer, host, history>>

\* ProcessPrefetch: decode one frame; a failure ends the prefetch.
PrefetchOne ==
    /\ worker.at = "prefetch"
    /\ IF ~CanContinuePrefetchLocked
       THEN worker' = Idle /\ prefetch' = [prefetch EXCEPT !.scheduled = FALSE]
       ELSE /\ worker' = [worker EXCEPT !.at = "repost"]
            /\ prefetch' = [prefetch EXCEPT !.next = @ + 1]
    /\ UNCHANGED <<gui, todo, versions, pending, processing_scheduled, queue,
                   renderer, host, history>>

\* Mutant: the next link is posted whatever happened meanwhile.
PrefetchRepost_Unchecked ==
    /\ worker.at = "repost"
    /\ worker' = Idle
    /\ IF prefetch.next < prefetch.end
       THEN /\ prefetch' = [prefetch EXCEPT !.scheduled = TRUE]
            /\ queue' = Append(queue, "prefetch")
       ELSE /\ prefetch' = [prefetch EXCEPT !.scheduled = FALSE]
            /\ UNCHANGED queue
    /\ UNCHANGED <<gui, todo, versions, pending, processing_scheduled, renderer,
                   host, history>>

PrefetchRepost ==
    /\ worker.at = "repost"
    /\ worker' = Idle
    /\ prefetch' = [prefetch EXCEPT !.scheduled = CanContinuePrefetchLocked]
    /\ queue' = IF CanContinuePrefetchLocked THEN Append(queue, "prefetch") ELSE queue
    /\ UNCHANGED <<gui, todo, versions, pending, processing_scheduled, renderer,
                   host, history>>

PrefetchFails ==
    /\ worker.at = "repost" /\ "video" \in Fails
    /\ worker' = Idle
    /\ prefetch' = [prefetch EXCEPT !.next = 0, !.end = 0, !.scheduled = FALSE]
    /\ UNCHANGED <<gui, todo, versions, pending, processing_scheduled, queue,
                   renderer, host, history>>
-----------------------------------------------------------------------------
\* The first video has been opened and the subtitles bound; the first frame is
\* about to be requested.
Init ==
    /\ doc \in OpenedDocs /\ color_matrix = OpenedColour
    /\ timecodes = OpenedTimecodes /\ frame_n = 1
    /\ accept_late_preview_frames = FALSE /\ acceptable_late_preview_frames = {}
    /\ recent_render_packets = {}
    /\ displayed = NoPacket /\ visual = NoVisual
    /\ todo = <<Request(1, TRUE)>>
    /\ calls = 0 /\ others = 0
    /\ content_version = 2 /\ request_version = 0 /\ provider_version = 1
    /\ pending = NothingPending /\ processing_scheduled = FALSE
    /\ prefetch = NoPrefetch
    /\ queue = <<>> /\ worker = Idle
    /\ subs = doc /\ colour_space = color_matrix /\ subtitles_timecodes = timecodes
    /\ frame_number = None /\ single_frame = NEW_SUBS_FILE /\ loaded = NoLines
    /\ last_rendered = None /\ last_lines = NoLines /\ cached_source = NoSource
    /\ messages = <<>> /\ sink = NoBatch
    /\ outcome = "none" /\ drawn = NoPacket

ProviderCall ==
    \/ CallLoad \/ CallRequest \/ CallCancel \/ CallSetColorSpace \/ CallSchedule
    \/ CallSync \/ CallOpen
    \/ \E known \in BOOLEAN : CallUpdate(known)

UserCall ==
    \/ \E due \in BOOLEAN :
         /\ due => visual.active
         /\ \/ \E l \in Line, text \in Text, mode \in {"load", "update"} :
                 OnSubtitlesCommit(l, text, mode, due)
            \/ \E c \in Colour : OnColourCommit(c, due)
            \/ \E f \in Frame : JumpToFrame(f, due) \/ PreviewToFrame(f, due)
            \/ RequestFrameImmediate(due)
    \/ \E p \in recent_render_packets : JumpToRecentFrame(p)
    \/ BeginVisualSubtitleInteraction
    \/ \E tc \in Timecodes : LoadTimecodes(tc)
    \/ ReloadSubtitlesProvider \/ ReloadVideo
    \/ PrefetchFrames \/ CancelFramePrefetch

Work ==
    \/ StartJob \/ TakeNothing \/ Take \/ SkipStale \/ Render \/ Deliver
    \/ DeliverError
    \/ FinishRender \/ FinishTimecodes \/ FinishReplace \/ FinishClose
    \/ PrefetchOne \/ PrefetchRepost \/ PrefetchFails

\* Nothing is left to do until the user does something.
Settled == todo = <<>> /\ queue = <<>> /\ worker = Idle /\ messages = <<>>
           /\ ~visual.active
Rest == Settled /\ UNCHANGED vars

Next ==
    \/ ProviderCall \/ UserCall \/ Receive \/ Work
    \/ OnVisualSubtitleUpdateTimer \/ EndVisualSubtitleInteraction
    \/ Rest

Spec == Init /\ [][Next]_vars

\* The program goes on: the worker, the rest of a handler, a message or the end
\* of an interaction, in whatever order.
Progress == Work \/ ProviderCall \/ Receive \/ EndVisualSubtitleInteraction
Fairness == WF_vars(Progress)
FairSpec == Spec /\ Fairness
-----------------------------------------------------------------------------
(***************************************************************************)
(* Properties                                                              *)
(***************************************************************************)
Lines == UNION {[ls -> Text] : ls \in SUBSET Line}
Packets ==
    [frame : Frame \cup {None}, lines : Lines, colour : Colour \cup {None},
     version : [provider : Nat, content : Nat, request : Nat],
     class : {"every", "intermediate", "final"}, id : Nat]

\* Every variable has its type.
TypeOK ==
    /\ doc \in Document /\ color_matrix \in Colour /\ timecodes \in Timecodes
    /\ frame_n \in Frame /\ accept_late_preview_frames \in BOOLEAN
    /\ acceptable_late_preview_frames \subseteq Frame
    /\ recent_render_packets \subseteq Packets /\ displayed \in Packets
    /\ \A m \in ToSet(messages) :
          m.kind \in {"frame", "batch", "error"} /\ m.packet \in Packets
    /\ pending.subs \in Document \cup {None} /\ pending.changed \in Lines
    /\ pending.kind \in {"none", "context", "request"}
    /\ pending.kind # "none" <=> pending.frame \in Frame
    /\ worker.at \in {"idle", "take", "render", "deliver", "error", "finish",
                      "prefetch", "repost"}
    /\ ToSet(queue) \subseteq SyncJobs \cup {"process", "prefetch"}
    /\ subs \in Document \cup {None} /\ loaded \in Lines /\ last_lines \in Lines
    /\ single_frame \in {NEW_SUBS_FILE, SUBS_FILE_ALREADY_LOADED} \cup Frame

\* The picture a packet holds is the document's, on the packet's frame.
IsPictureOf(packet, d, c, tc) ==
    packet.lines = VisibleLines(d, tc, packet.frame) /\ packet.colour = c

\* What is shown anew is the document as it was last given to the provider: an
\* interaction may be waiting for its timer.  A load of subtitles that threw, its error
\* perhaps dropped as stale, leaves the frames after it without their lines.
ShownIsCurrent ==
    [][displayed' # displayed /\ outcome # "unloaded" =>
         \/ visual.pending # NoUpdate
         \/ IsPictureOf(displayed', doc, color_matrix, timecodes)]_vars

\* When everything has settled, the display shows the frame asked for with the document's
\* lines, unless rendering has failed, the last update was skipped, or, while a drag's
\* previews are accepted, the frame posted last is no longer the target and may have been
\* refused.  In the last two cases the worker posted the document's lines last.
SettlesOnDocument ==
    Settled =>
        \/ HasFailed
        \/ /\ displayed.frame = frame_n
           /\ IsPictureOf(displayed, doc, color_matrix, timecodes)
        \/ /\ outcome = "skipped" \/ (accept_late_preview_frames /\ drawn.frame # frame_n)
           /\ drawn.frame \in Frame
           /\ drawn.lines = VisibleLines(doc, timecodes, drawn.frame)

\* "Check if we actually need to honor a frame request or if no visible lines
\* have actually changed": a skipped update loses nothing.
SkippedIsShown ==
    Settled /\ ~HasFailed =>
        /\ displayed.frame = frame_n
        /\ IsPictureOf(displayed, doc, color_matrix, timecodes)

\* Subtitles the renderer has for one frame are those visible on it, as long as no
\* load has thrown: single_frame is set before the load.
SingleFrameIsLoaded ==
    single_frame \in Frame /\ outcome # "unloaded" =>
        loaded = VisibleLines(subs, subtitles_timecodes, single_frame)

\* There is one link of the prefetch chain at a time, however often the range
\* is changed while one runs.
OnePrefetchChain ==
    LET links == {i \in 1 .. Len(queue) : queue[i] = "prefetch"}
    IN  Cardinality(links) + (IF worker.job = "prefetch" THEN 1 ELSE 0)
            <= (IF prefetch.scheduled THEN 1 ELSE 0)

\* When a provider has been destroyed, no job is left that would use it: not the
\* link a running prefetch was about to post either.
DestroyedIsQuiet == Calling("open") => queue = <<>> /\ worker = Idle

\* The GUI thread receives packets of one provider in the order of their
\* contents, also when a visual batch is filled again.
DeliveredInOrder ==
    \A i, j \in 1 .. Len(messages) :
        /\ i < j /\ "error" \notin {messages[i].kind, messages[j].kind}
        /\ messages[i].packet.version.provider = messages[j].packet.version.provider
        => messages[i].packet.version.content <= messages[j].packet.version.content

\* Everything settles: the GUI thread never waits for ever, and what is pending
\* is taken.
Settles == []<>(Settled /\ NothingToTake)
=============================================================================
