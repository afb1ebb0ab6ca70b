------------------------------ MODULE Playback ------------------------------
(***************************************************************************)
(* The player of a film: packages/motify-runtime/runtime.ts, and splitText *)
(* of presets.ts.  One composition that is played, sought and edited while *)
(* listeners follow it.                                                    *)
(*                                                                         *)
(* The gsap timeline is external: it moves with the clock unless paused,   *)
(* writes the film's own values to the layers whenever it renders, calls   *)
(* onUpdate after that and onComplete at its end; restart() renders with   *)
(* both suppressed.  Time is counted in units, a few to a frame.  A        *)
(* listener only listens: it does not call back into the runtime.          *)
(***************************************************************************)
EXTENDS Integers, Sequences, FiniteSets, FiniteSetsExt, SequencesExt

CONSTANTS
    Duration, Frame,   \* definition.duration, and one frame of it
    Lengths,           \* how long the timeline may get when tweens change speed
    Layers,
    Spans,             \* per layer, the spans its text was split into; 0 if it was not
    Tweens, TweensOf,  \* tweens, and those on a layer's element or within it
    OwnScale,          \* the speed each was built with, in quarters
    Speeds,            \* speeds that are asked for, in quarters
    Eases,             \* eases that are asked for
    Texts,             \* texts that are asked for, as the pieces of split()
    Unset,             \* an attribute that no override names
    Listeners,
    Throttle,          \* between two playback notifications
    MaxGap,            \* bound: the clock between two frames of the browser
    MaxChanges         \* bound on the edits

DefaultEase == "power3.inOut"

ASSUME PlaybackAssumption ==
    /\ Frame \in Nat \ {0} /\ Duration \in Nat /\ Throttle \in Nat \ {0}
    /\ TweensOf \in [Layers -> SUBSET Tweens] /\ Spans \in [Layers -> Nat]
    /\ OwnScale \in [Tweens -> Nat \ {0}]
    /\ Lengths \subseteq Nat /\ IsFiniteSet(Lengths) /\ MaxGap \in Nat /\ Speeds \subseteq Int
    /\ Unset \notin Texts /\ Unset \notin 1..8 /\ Unset # "dim"
    /\ Unset \notin Eases \cup {DefaultEase} /\ "own" \notin Eases
    /\ \A pieces \in Texts : pieces \in Seq(Range(pieces))

VARIABLES
    position, length, paused,  \* the timeline: time, duration, paused
    playing,
    since,     \* the clock since lastPlaybackNotification, up to Throttle
    heard,     \* the last snapshot a listener was given; Deaf if it does not listen
    override,  \* overrides, and ...
    shown,     \* ... what the layers show of them
    speed, ease,  \* animationOverrides
    scale,     \* tween -> timeScale, in quarters
    easing,    \* tween -> vars.ease
    baseline,  \* tweenBaselines; 0 for none
    changes

playbackVars == <<position, length, paused, playing, since, heard, override, shown,
                  speed, ease, scale, easing, baseline, changes>>

Time == 0..Max(Lengths \cup {Duration})
Deaf == [time |-> -1, playing |-> FALSE]
Film == "film"  \* the film's own value of an attribute
AllEases == Eases \cup {DefaultEase}

PlaybackTypeOK ==
    /\ position \in 0..length /\ length \in Lengths /\ paused \in BOOLEAN /\ playing \in BOOLEAN
    /\ since \in 0..Throttle
    /\ heard \in [Listeners -> [time : 0..Duration, playing : BOOLEAN] \cup {Deaf}]
    /\ override \in [Layers -> [opacity : {"dim", Unset}, text : Texts \cup {Unset}]]
    /\ \A l \in Layers : shown[l].opacity \in {"dim", Film}
    /\ speed \in [Layers -> 1..8 \cup {Unset}]
    /\ scale \in [Tweens -> Nat] /\ baseline \in [Tweens -> Nat]
    /\ ease \in [Layers -> AllEases \cup {Unset}] /\ easing \in [Tweens -> AllEases \cup {"own"}]

\* After the constructor: the timeline is padded to the film's duration and
\* stands at its start.
PlaybackInit ==
    /\ position = 0 /\ length \in {n \in Lengths : n >= Duration} /\ paused = TRUE /\ playing = FALSE
    /\ since = Throttle /\ heard = [n \in Listeners |-> Deaf]
    /\ override = [l \in Layers |-> [opacity |-> Unset, text |-> Unset]]
    /\ shown = [l \in Layers |-> [opacity |-> Film, text |-> Film]]
    /\ speed = [l \in Layers |-> Unset] /\ ease = [l \in Layers |-> Unset]
    /\ scale = OwnScale /\ easing = [t \in Tweens |-> "own"] /\ baseline = [t \in Tweens |-> 0]
    /\ changes = 0

(***************************************************************************)
(* Snapshots, and what the layers show.                                    *)
(***************************************************************************)
\* Mutant: the time of the timeline, which may run longer than the film.
TimeAtRaw(pos) == pos
\* getSnapshot
TimeAt(pos) == Min({Duration, pos})

\* emit
Emit(pos, on) ==
    heard' = [n \in Listeners |->
        IF heard[n] = Deaf THEN Deaf ELSE [time |-> TimeAt(pos), playing |-> on]]

\* Mutant: the rest goes in from the piece after the last span's.
TextOverrideShort(spans, pieces) ==
    IF spans = 0 THEN <<pieces>>
    ELSE [i \in 1..spans |-> IF i > Len(pieces) THEN <<>>
                             ELSE IF i < spans THEN <<pieces[i]>> ELSE <<pieces[i]>> \o SubSeq(pieces, i + 2, Len(pieces))]

\* applyTextOverride: a piece for each span, and all that is left for the last.
TextOverride(spans, pieces) ==
    IF spans = 0 THEN <<pieces>>
    ELSE [i \in 1..spans |-> IF i < spans THEN SubSeq(pieces, i, Min({i, Len(pieces)}))
                             ELSE SubSeq(pieces, i, Len(pieces))]

\* applyOverrides, on layers that show s.
Apply(o, s) ==
    [l \in Layers |->
        [opacity |-> IF o[l].opacity = Unset THEN s[l].opacity ELSE o[l].opacity,
         text |-> IF o[l].text = Unset THEN s[l].text ELSE TextOverride(Spans[l], o[l].text)]]

\* The timeline renders: it animates the opacity and leaves the text alone.
Rendered == [l \in Layers |-> [shown[l] EXCEPT !.opacity = Film]]

\* emitPlaybackFrame, after the clock went on by d.
Due(d) == since + d >= Throttle
Later(d) == IF Due(d) THEN 0 ELSE since + d

(***************************************************************************)
(* The transport.                                                          *)
(***************************************************************************)
KeepEdits == UNCHANGED <<override, speed, ease, scale, easing, baseline, changes>>

\* To the nearest frame of the film; the timeline may be shorter.
FrameTime(t) == ((Max({0, Min({Duration, t})}) + Frame \div 2) \div Frame) * Frame

\* seek: paused, rendered with onUpdate, and told at the end.
SeekTo(t, len) ==
    LET to == Min({FrameTime(t), len})
    IN /\ position' = to /\ paused' = TRUE /\ playing' = FALSE
       /\ since' = IF to # position THEN Later(0) ELSE since
       /\ Emit(to, FALSE)

Seek(t) ==
    /\ SeekTo(t, length)
    /\ shown' = Apply(override, IF position' # position THEN Rendered ELSE shown)
    /\ UNCHANGED length /\ KeepEdits

\* play: from the start again within a frame of the end.
Play ==
    LET again == TimeAt(position) >= Duration - Frame
        from == IF again THEN 0 ELSE position
    IN /\ position' = from /\ paused' = FALSE /\ playing' = TRUE
       /\ since' = IF from # position THEN Later(0) ELSE since
       /\ shown' = Apply(override, IF from # position THEN Rendered ELSE shown)
       /\ Emit(from, TRUE)
       /\ UNCHANGED length /\ KeepEdits

Pause ==
    /\ playing' = FALSE /\ paused' = TRUE /\ Emit(position, FALSE)
    /\ UNCHANGED <<position, length, since, shown>> /\ KeepEdits

\* restart: rendered without onUpdate.
Restart ==
    /\ playing' = TRUE /\ paused' = FALSE /\ position' = 0
    /\ shown' = IF position # 0 THEN Rendered ELSE shown
    /\ Emit(0, TRUE)
    /\ UNCHANGED <<length, since>> /\ KeepEdits

\* Mutant: at the end nobody is told but by the throttled notification.
AdvanceThrottled(d) ==
    LET to == Min({position + d, length})
    IN /\ ~paused /\ position < length
       /\ position' = to /\ playing' = (to < length)
       /\ shown' = Apply(override, Rendered)
       /\ since' = Later(d)
       /\ IF Due(d) THEN Emit(to, to < length) ELSE UNCHANGED heard
       /\ UNCHANGED <<length, paused>> /\ KeepEdits

\* A frame of the browser: onUpdate, and onComplete at the end.
Advance(d) ==
    LET to == Min({position + d, length})
    IN /\ ~paused /\ position < length
       /\ position' = to /\ playing' = (to < length)
       /\ shown' = Apply(override, Rendered)
       /\ since' = Later(d)
       /\ IF Due(d) \/ to = length THEN Emit(to, to < length) ELSE UNCHANGED heard
       /\ UNCHANGED <<length, paused>> /\ KeepEdits

\* While the timeline stands only the clock goes on.  One that is played at
\* its very end may report the end again.
Stand(d) ==
    /\ paused \/ position = length
    /\ since' = Min({since + d, Throttle})
    /\ \/ UNCHANGED <<playing, heard>>
       \/ ~paused /\ playing' = FALSE /\ Emit(position, FALSE)
    /\ UNCHANGED <<position, length, paused, shown>> /\ KeepEdits

(***************************************************************************)
(* The edits.                                                              *)
(***************************************************************************)
Change == changes < MaxChanges /\ changes' = changes + 1

\* What the patch names, and the rest as it is.
Patched(o, patch) ==
    [opacity |-> IF "opacity" \in DOMAIN patch THEN patch.opacity ELSE o.opacity,
     text |-> IF "text" \in DOMAIN patch THEN patch.text ELSE o.text]

\* setOverride: the patch is merged into what the layer's override names.
SetOverride(l, patch) ==
    LET o == [override EXCEPT ![l] = Patched(override[l], patch)]
    IN /\ Change
       /\ override' = o /\ shown' = Apply(o, shown)
       /\ Emit(position, playing)
       /\ UNCHANGED <<position, length, paused, playing, since, speed, ease, scale, easing, baseline>>

\* getAnimationOverride: what it says of the speed and of the ease.
SpeedOf(l) == IF speed[l] = Unset THEN 4 ELSE speed[l]
EaseOf(l) == IF ease[l] = Unset THEN DefaultEase ELSE ease[l]

\* Mutant: the speed a tween runs at is taken for its own.
BaselineAnew(t) == scale[t]
\* The speed a tween had before any override, noted at the first.
Baseline(t) == IF baseline[t] = 0 THEN scale[t] ELSE baseline[t]

\* setAnimationOverride.  What the patch does not name is what is shown for
\* the layer, and goes to its tweens all the same: a change of speed alone
\* replaces the ease each was built with.  They start over from where they
\* are, and the timeline's length follows them.
SetAnimationOverride(l, asked, askedEase) ==
    LET next == IF asked = Unset THEN SpeedOf(l) ELSE Max({1, Min({8, asked})})
        nextEase == IF askedEase = Unset THEN EaseOf(l) ELSE askedEase
        mine == TweensOf[l]
    IN /\ Change
       /\ speed' = [speed EXCEPT ![l] = next]
       /\ ease' = [ease EXCEPT ![l] = nextEase]
       /\ scale' = [t \in Tweens |-> IF t \in mine THEN (Baseline(t) * next) \div 4 ELSE scale[t]]
       /\ easing' = [t \in Tweens |-> IF t \in mine THEN nextEase ELSE easing[t]]
       /\ baseline' = [t \in Tweens |-> IF t \in mine THEN Baseline(t) ELSE baseline[t]]
       /\ length' \in (IF scale' = scale THEN {length} ELSE Lengths)
       /\ SeekTo(TimeAt(position), length')
       /\ shown' = Apply(override, Rendered)
       /\ UNCHANGED override

\* subscribe tells at once; what it returns ends it.
Subscribe(n) ==
    /\ heard[n] = Deaf
    /\ heard' = [heard EXCEPT ![n] = [time |-> TimeAt(position), playing |-> playing]]
    /\ UNCHANGED <<position, length, paused, playing, since, shown>> /\ KeepEdits

Unsubscribe(n) ==
    /\ heard[n] # Deaf /\ heard' = [heard EXCEPT ![n] = Deaf]
    /\ UNCHANGED <<position, length, paused, playing, since, shown>> /\ KeepEdits

Patches == [opacity : {"dim", Unset}] \cup [text : Texts]

PlaybackNext ==
    \/ Play \/ Pause \/ Restart \/ \E t \in Time : Seek(t)
    \/ \E d \in 1..MaxGap : Advance(d) \/ Stand(d)
    \/ \E l \in Layers : \/ \E patch \in Patches : SetOverride(l, patch)
                         \/ \E asked \in Speeds \cup {Unset}, askedEase \in Eases \cup {Unset} :
                                SetAnimationOverride(l, asked, askedEase)
    \/ \E n \in Listeners : Subscribe(n) \/ Unsubscribe(n)

PlaybackSpec == PlaybackInit /\ [][PlaybackNext]_playbackVars

(***************************************************************************)
(* Properties.                                                             *)
(***************************************************************************)

\* Whoever listens knows whether the film plays and, though playback tells
\* only now and then, how far it is: exactly when it stands, and less than
\* the throttle away when it moves.  What is told as playing is not paused.
ListenersKnow ==
    \A n \in Listeners : heard[n] # Deaf =>
        /\ heard[n].playing = playing
        /\ playing => ~paused /\ TimeAt(position) - heard[n].time \in 0..(Throttle - 1)
        /\ ~playing => heard[n].time = TimeAt(position)

\* The timeline rewrites the layers on every frame, and the overrides are
\* there all the same, with the text whole over however many spans; only
\* after restart(), which renders without an update, the start may show the
\* film's own values.
OverridesShow ==
    \A l \in Layers : LET o == override[l] IN
        /\ o.opacity # Unset => shown[l].opacity = o.opacity \/ position = 0
        /\ o.text # Unset => FlattenSeq(shown[l].text) = o.text

\* However often speeds and eases are changed, and over layers that share a
\* tween, a tween runs at the speed it was built with times what the editor
\* shows for one of its layers, with the ease shown for that same layer; and
\* as it was built while none of them is changed.
TweensRunAsShown ==
    \A t \in Tweens :
        LET over == {l \in Layers : t \in TweensOf[l] /\ speed[l] # Unset}
        IN IF over = {} THEN scale[t] = OwnScale[t] /\ easing[t] = "own"
           ELSE \E l \in over :
                    scale[t] = (OwnScale[t] * SpeedOf(l)) \div 4 /\ easing[t] = EaseOf(l)

\* What the editor shows, what it has set and how the film runs agree, over
\* any order of frames, seeks, restarts and edits.
PlayerIsTrue == PlaybackTypeOK /\ ListenersKnow /\ OverridesShow /\ TweensRunAsShown
=============================================================================
