------------------------------ MODULE Progress ------------------------------
(***************************************************************************)
(* The progress bar (ui/progress.py): what its line says of trackers,      *)
(* steps and phases, the clock that stops while somebody else has the      *)
(* terminal, and the row it reserves there.  The code that counts, the     *)
(* ticker thread and the pump of a child's output draw it; every operation *)
(* of theirs holds the lock, and a resize comes between any two.           *)
(***************************************************************************)
EXTENDS Naturals, FiniteSets, SequencesExt

CONSTANTS
    Off,         \* no tracker, no text, not paused
    StepNames,   \* of a stage
    Plans,       \* what a stage plans, at first or later
    MaxTime,     \* bound on the clock, the ticks and the steps
    MaxOpen      \* bound on what is open at once

ASSUME PlansListed == Plans \subseteq Seq(StepNames)
ASSUME OffApart == Off \notin Nat \cup {"prompt", "child"}

VARIABLES
    mode,       \* "tty" or "plain"
    open,       \* the context managers that are open, innermost last
    phase,      \* the uncounted label
    tracker,    \* [index, started, lastTick, paused, since, atWork]
    steps,      \* [names, index, started, saved, atWork]
    yielded,    \* to a "prompt" or a "child"
    paused,     \* the bar's clock: the time paused, and since when
    bar,        \* [reserved, drawn, resized]: what the display believes
    term,       \* [region, row, tall]: what the terminal shows
    now, worked,\* the time, and how much of it nobody waited for the operator
    begunSteps, \* the steps that were begun
    report      \* the last duration that was recorded, and that of the work
progressVars == <<mode, open, phase, tracker, steps, yielded, paused, bar, term, now, worked, begunSteps, report>>

Unpaused == [total |-> 0, since |-> Off]
Yielding(of) == \E i \in DOMAIN of : of[i] \in {"prompt", "child"}

InitProgress ==
    /\ mode \in {"tty", "plain"} /\ open = <<>> /\ phase = Off /\ tracker = Off /\ steps = Off
    /\ yielded = Off /\ paused = Unpaused /\ bar = [reserved |-> FALSE, drawn |-> Off, resized |-> FALSE]
    /\ term = [region |-> FALSE, row |-> Off, tall |-> TRUE]
    /\ now = 0 /\ worked = 0 /\ begunSteps = <<>> /\ report = [said |-> 0, was |-> 0]

-----------------------------------------------------------------------------
(* The line                                                                *)

Line(of, counts, label) == [of |-> of, counts |-> counts, label |-> label]
Stale == Line("stale", <<>>, Off)

\* The step wins over the tracker, the tracker over the phase.
Text(p, t, s) ==
    IF s # Off /\ s.index > 0
    THEN IF t # Off THEN Line("step", <<s.index, Len(s.names), t.index>>, Off)
         ELSE Line("step", <<s.index, Len(s.names)>>, p)
    ELSE IF t # Off THEN Line("tracker", <<t.index>>, Off)
    ELSE IF p # Off THEN Line("phase", <<>>, p) ELSE Off

-----------------------------------------------------------------------------
(* The terminal: [bar, term] after a frame                                  *)

\* After a resize the region is gone and the bar somewhere below the cursor:
\* everything below is erased.
Freed(at) ==
    [bar  |-> [at.bar EXCEPT !.reserved = FALSE, !.drawn = Off],
     term |-> IF at.bar.reserved THEN [at.term EXCEPT !.region = FALSE, !.row = Off] ELSE at.term]

\* A blank row, of the region that is kept.
Blank(at) ==
    [bar  |-> [at.bar EXCEPT !.drawn = Off],
     term |-> IF at.bar.reserved /\ ~at.bar.resized THEN [at.term EXCEPT !.row = Off] ELSE at.term]

Establish(at) ==
    IF at.bar.reserved \/ ~at.term.tall THEN at
    ELSE [bar |-> [at.bar EXCEPT !.reserved = TRUE], term |-> [at.term EXCEPT !.region = TRUE]]

\* Mutant: a resize only asks for a new frame.
DrawnUnreleased(at, text, to) ==
    IF to # Off THEN at
    ELSE LET fresh == [at EXCEPT !.bar.resized = FALSE]
             placed == Establish(fresh)
         IN  IF text = Off THEN Freed(fresh)
             ELSE IF text = fresh.bar.drawn \/ ~placed.bar.reserved THEN placed
             ELSE [bar |-> [placed.bar EXCEPT !.drawn = text], term |-> [placed.term EXCEPT !.row = text]]

\* The only writer.
Drawn(at, text, to) ==
    IF to # Off THEN at
    ELSE LET fresh == IF at.bar.resized THEN [Freed(at) EXCEPT !.bar.resized = FALSE] ELSE at
             placed == Establish(fresh)
         IN  IF text = Off THEN Freed(fresh)
             ELSE IF text = fresh.bar.drawn THEN fresh
             ELSE IF ~placed.bar.reserved THEN placed
             ELSE [bar |-> [placed.bar EXCEPT !.drawn = text], term |-> [placed.term EXCEPT !.row = text]]

Here == [bar |-> bar, term |-> term]
Show(p, t, s, to) ==
    LET text == Text(p, t, s)
        after == IF mode = "plain" THEN [Here EXCEPT !.bar.drawn = text] ELSE Drawn(Here, text, to)
    IN  bar' = after.bar /\ term' = after.term

-----------------------------------------------------------------------------
(* The clocks                                                              *)

\* The time less what was spent paused.
Active(clock, since) == now - (clock + IF since = Off THEN 0 ELSE now - since)
TrackerTime(t) == Active(t.paused, t.since)
BarTime == Active(paused.total, paused.since)

Passes ==
    /\ now < MaxTime /\ now' = now + 1
    /\ worked' = IF Yielding(open) THEN worked ELSE worked + 1
    /\ UNCHANGED <<mode, open, phase, tracker, steps, yielded, paused, bar, term, begunSteps, report>>

-----------------------------------------------------------------------------
(* What the bar counts                                                     *)

SetPhase ==
    /\ \E label \in {"p", Off} : phase' = label /\ Show(label, tracker, steps, yielded)
    /\ UNCHANGED <<mode, open, tracker, steps, yielded, paused, now, worked, begunSteps, report>>

\* Mutant: a tracker that is opened in a pause runs.
NewTrackerRuns == [index |-> 0, started |-> now, lastTick |-> now, paused |-> 0,
                   since |-> Off, atWork |-> worked]

\* One that is opened while the terminal is yielded starts paused.
NewTracker == [index |-> 0, started |-> now, lastTick |-> now, paused |-> 0,
               since |-> IF Yielding(open) /\ mode = "tty" THEN now ELSE Off, atWork |-> worked]

\* A second one is a no-op, and so are second steps.
OpenTracker ==
    /\ tracker = Off /\ Len(open) < MaxOpen /\ open' = Append(open, "tracker")
    /\ tracker' = NewTracker
    /\ Show(phase, tracker', steps, yielded)
    /\ UNCHANGED <<mode, phase, steps, yielded, paused, now, worked, begunSteps, report>>

Tick ==
    /\ tracker # Off /\ tracker.index < MaxTime
    /\ tracker' = [tracker EXCEPT !.index = @ + 1, !.lastTick = TrackerTime(tracker)]
    /\ Show(phase, tracker', steps, yielded)
    /\ UNCHANGED <<mode, open, phase, steps, yielded, paused, now, worked, begunSteps, report>>

Closes(kind) == open # <<>> /\ Last(open) = kind /\ open' = Front(open)

CloseTracker ==
    /\ Closes("tracker") /\ tracker' = Off
    /\ Show(phase, Off, steps, yielded)
    /\ UNCHANGED <<mode, phase, steps, yielded, paused, now, worked, begunSteps, report>>

OpenSteps ==
    /\ steps = Off /\ Len(open) < MaxOpen /\ open' = Append(open, "steps")
    /\ \E plan \in Plans :
          steps' = [names |-> plan, index |-> 0, started |-> BarTime, saved |-> phase, atWork |-> worked]
    /\ begunSteps' = <<>>
    /\ UNCHANGED <<mode, phase, tracker, yielded, paused, bar, term, now, worked, report>>

\* What is recorded of the step that ends.
Finished(s) == IF s.index = 0 THEN report ELSE [said |-> BarTime - s.started, was |-> worked - s.atWork]

\* The steps planned up to the one that begins did not run, and one that was
\* not planned is next.
Ahead(s, name) ==
    LET rest == SubSeq(s.names, s.index + 1, Len(s.names))
    IN  IF Contains(rest, name) THEN SubSeq(rest, SelectInSeq(rest, LAMBDA n : n = name), Len(rest))
        ELSE <<name>> \o rest

BeginStep ==
    /\ steps # Off /\ Len(begunSteps) < MaxTime
    /\ \E name \in StepNames :
          /\ ~(steps.index > 0 /\ steps.names[steps.index] = name)
          /\ report' = Finished(steps)
          /\ steps' = [steps EXCEPT !.names = SubSeq(@, 1, steps.index) \o Ahead(steps, name),
                                    !.index = @ + 1, !.started = BarTime, !.atWork = worked]
          /\ begunSteps' = Append(begunSteps, name)
    /\ phase' = Off /\ Show(Off, tracker, steps', yielded)
    /\ UNCHANGED <<mode, open, tracker, yielded, paused, now, worked>>

\* The steps of a plan that were not begun, in its order.
Without(plan, done) ==
    LET left == {i \in DOMAIN plan : ~Contains(done, plan[i])}
    IN  [n \in 1..Cardinality(left) |-> plan[CHOOSE i \in left : Cardinality({j \in left : j <= i}) = n]]

PlanSteps ==
    /\ steps # Off
    /\ \E plan \in Plans :
          LET done == SubSeq(steps.names, 1, steps.index)
          IN  steps' = [steps EXCEPT !.names = done \o Without(plan, done)]
    /\ Show(phase, tracker, steps', yielded)
    /\ UNCHANGED <<mode, open, phase, tracker, yielded, paused, now, worked, begunSteps, report>>

\* A step that raises is not recorded.
CloseSteps ==
    /\ steps # Off /\ Closes("steps") /\ report' \in {Finished(steps), report}
    /\ steps' = Off /\ phase' = steps.saved
    /\ Show(steps.saved, tracker, Off, yielded)
    /\ UNCHANGED <<mode, tracker, yielded, paused, now, worked, begunSteps>>

-----------------------------------------------------------------------------
(* Who has the terminal                                                    *)

\* yield_terminal: the stronger kind applies; no-op in plain mode, where the
\* clock runs on.
Yield ==
    /\ Len(open) < MaxOpen
    /\ \E kind \in {"prompt", "child"} :
          /\ open' = Append(open, kind)
          /\ IF mode = "plain" THEN UNCHANGED <<tracker, paused, yielded, bar, term>>
             ELSE /\ IF Yielding(open) THEN UNCHANGED <<tracker, paused>>
                     ELSE /\ paused' = [paused EXCEPT !.since = now]
                          /\ tracker' = IF tracker = Off THEN Off ELSE [tracker EXCEPT !.since = now]
                  /\ LET stronger == yielded = Off \/ (yielded = "prompt" /\ kind = "child")
                         after == IF ~stronger THEN Here
                                  ELSE IF kind = "child" THEN Freed(Here) ELSE Blank(Here)
                     IN  /\ yielded' = IF stronger THEN kind ELSE yielded
                         /\ bar' = after.bar /\ term' = after.term
    /\ UNCHANGED <<mode, phase, steps, now, worked, begunSteps, report>>

TakeBack ==
    /\ Closes("prompt") \/ Closes("child")
    /\ IF mode = "plain" \/ Yielding(open') THEN UNCHANGED <<tracker, paused, yielded, bar, term>>
       ELSE /\ paused' = [total |-> paused.total + now - paused.since, since |-> Off]
            /\ tracker' = IF tracker = Off \/ tracker.since = Off THEN tracker
                          ELSE [tracker EXCEPT !.paused = @ + now - tracker.since, !.since = Off]
            /\ yielded' = Off /\ Show(phase, tracker', steps, Off)
    /\ UNCHANGED <<mode, phase, steps, now, worked, begunSteps, report>>

\* The ticker's step, or that of the pump while it forwards (Screen).
Redraw ==
    /\ mode = "tty" /\ (bar.drawn # Off \/ bar.resized)
    /\ Show(phase, tracker, steps, yielded)
    /\ UNCHANGED <<mode, open, phase, tracker, steps, yielded, paused, now, worked, begunSteps, report>>

\* The window changes, with the region and the rows under the terminal's
\* hands; the handler of the signal only notes it.
WindowResized ==
    /\ mode = "tty" /\ bar' = [bar EXCEPT !.resized = TRUE]
    /\ \E tall \in BOOLEAN : term' = [region |-> FALSE, row |-> IF term.row = Off THEN Off ELSE Stale, tall |-> tall]
    /\ UNCHANGED <<mode, open, phase, tracker, steps, yielded, paused, now, worked, begunSteps, report>>

\* The end of the run, or of the process.
Shutdown ==
    /\ open = <<>> /\ mode = "tty"
    /\ LET after == Freed(Here) IN bar' = after.bar /\ term' = after.term
    /\ UNCHANGED <<mode, open, phase, tracker, steps, yielded, paused, now, worked, begunSteps, report>>

NextProgress ==
    \/ Passes \/ SetPhase \/ OpenTracker \/ Tick \/ CloseTracker \/ OpenSteps \/ BeginStep \/ PlanSteps
    \/ CloseSteps \/ Yield \/ TakeBack \/ Redraw \/ WindowResized \/ Shutdown

BarSpec == InitProgress /\ [][NextProgress]_progressVars

-----------------------------------------------------------------------------
(* Once a resize is dealt with, the terminal shows what the display         *)
(* believes: the region is set for a row that it reserves, the row has the  *)
(* text it drew or nothing, and whoever it is yielded to finds no bar, and  *)
(* no region if it addresses the whole screen (_draw, yield_terminal).      *)
TerminalKnown ==
    mode = "tty" /\ ~bar.resized =>
        /\ term.region = bar.reserved /\ term.row = bar.drawn
        /\ yielded # Off => term.row = Off
        /\ yielded = "child" => ~term.region

(* The time that is shown and recorded is that of the work: none in which   *)
(* the operator was asked or had the terminal, however prompts, trackers    *)
(* and steps were nested; and the steps counted are those that were begun.  *)
(* In plain mode the clock runs on through a prompt.                        *)
ProgressHonest ==
    /\ mode = "tty" =>
         /\ tracker # Off => TrackerTime(tracker) - tracker.started = worked - tracker.atWork
         /\ report.said = report.was
    /\ steps # Off => SubSeq(steps.names, 1, steps.index) = begunSteps

(* The bar knows the terminal it paints on and tells the time of the work.  *)
ProgressSound == TerminalKnown /\ ProgressHonest
=============================================================================
