------------------------------- MODULE Screen -------------------------------
(***************************************************************************)
(* A build's output on its way to the terminal and to the log              *)
(* (primitives/pty_runner.run_with_pty): the child writes bytes, the pump  *)
(* reads them in chunks cut anywhere, drops terminal queries, clips        *)
(* cargo's frames, splits lines, and paints the progress bar in between,   *)
(* while the window is resized at any time.                                *)
(***************************************************************************)
EXTENDS Naturals, Sequences, SequencesExt, FiniteSets

CONSTANTS
    Scripts,    \* what a child may write, whole tokens in a row
    Widths,     \* of the terminal, in columns
    MaxChunk    \* bound on the bytes of one read

VARIABLES
    pump,     \* how the child was started: [forward, reserved, clip]
    script,   \* all it writes
    got,      \* the bytes of it that were read
    held,     \* of those, what the query filter keeps back
    clip,     \* the cargo clip: the line it holds, and whether a frame is shown
    cols,     \* the width of the window
    buf,      \* the line that is being read
    lines,    \* the lines delivered
    screen,   \* what the terminal was sent of the child's output
    painted,  \* how much of that when the bar was painted last
    mid,      \* where in a sequence or a character the boundary tracker is
    winched,  \* the window was resized and the bar not painted since
    ended     \* the child is gone and the rest delivered
screenVars == <<pump, script, got, held, clip, cols, buf, lines, screen, painted, mid, winched, ended>>

\* The bytes that the pump tells apart: text, a word that may start a frame
\* and the bracket that makes it one, the two halves of a character, and
\* escape sequences by their last byte: a colour, an erased line, a query.
Reset == <<"e", "[", "m">>
Erase == <<"e", "[", "k">>
Query == <<"e", "[", "q">>
Visible == {"t", "s", "b", "w"}
Finals == {"m", "k", "q"}

RECURSIVE WithoutEscapes(_)
WithoutEscapes(s) ==
    IF s = <<>> THEN <<>>
    ELSE IF Head(s) = "e" THEN WithoutEscapes(SubSeq(s, 4, Len(s)))
    ELSE <<Head(s)>> \o WithoutEscapes(Tail(s))

-----------------------------------------------------------------------------
(* The query filter                                                        *)

RECURSIVE WithoutQueries(_)
WithoutQueries(s) ==
    IF s = <<>> THEN <<>>
    ELSE IF IsPrefix(Query, s) THEN WithoutQueries(SubSeq(s, 4, Len(s)))
    ELSE <<Head(s)>> \o WithoutQueries(Tail(s))

\* What may yet grow into a query.
Growing(s) == IF IsSuffix(<<"e">>, s) THEN <<"e">> ELSE IF IsSuffix(<<"e", "[">>, s) THEN <<"e", "[">> ELSE <<>>

\* Mutant: what is cut by the end of a chunk goes on as it is.
FilteredNow(rest, chunk) == LET data == WithoutQueries(rest \o chunk) IN [out |-> data, held |-> <<>>]

Filtered(rest, chunk) ==
    LET data == WithoutQueries(rest \o chunk)
        keep == Growing(data)
    IN  [out |-> SubSeq(data, 1, Len(data) - Len(keep)), held |-> keep]

-----------------------------------------------------------------------------
(* The cargo clip                                                          *)

NoClip == [line |-> <<>>, holding |-> TRUE, shown |-> FALSE]

\* The text at the start of a line, less a sequence that is not complete.
HeadOf(line) == WithoutEscapes(SubSeq(line, 1, Len(line) - Len(Growing(line))))
IsFrame(line) == IsPrefix(<<"s", "b">>, HeadOf(line))
CouldBeFrame(line) == HeadOf(line) \in {<<>>, <<"s">>}

RECURSIVE Clipped(_, _)
Clipped(s, width) ==
    IF s = <<>> THEN <<>>
    ELSE IF Head(s) = "e" THEN SubSeq(s, 1, 3) \o Clipped(SubSeq(s, 4, Len(s)), width)
    ELSE IF Head(s) \in Visible
         THEN IF width = 0 THEN Reset ELSE <<Head(s)>> \o Clipped(Tail(s), width - 1)
    ELSE <<Head(s)>> \o Clipped(Tail(s), width)

\* What a held line is forwarded as.  Cargo's piped output erases no frame,
\* so what follows one starts with an erase.
Released(c, frame) ==
    (IF c.shown /\ ~IsPrefix(Erase, c.line) THEN Erase ELSE <<>>)
    \o (IF frame THEN Clipped(c.line, cols - 1) ELSE c.line)

\* One byte: [out, clip].
ClipByte(c, byte) ==
    LET line == Append(c.line, byte)
        frame == c.holding /\ IsFrame(c.line)
    IN  IF byte \in {"cr", "nl"}
        THEN [out |-> (IF c.holding THEN Released(c, frame) ELSE <<>>) \o <<byte>>,
              clip |-> [NoClip EXCEPT !.shown = frame /\ byte = "cr"]]
        ELSE IF ~c.holding THEN [out |-> <<byte>>, clip |-> c]
        ELSE IF IsFrame(line) \/ CouldBeFrame(line) THEN [out |-> <<>>, clip |-> [c EXCEPT !.line = line]]
        ELSE [out |-> Released([c EXCEPT !.line = line], FALSE),
              clip |-> [line |-> <<>>, holding |-> FALSE, shown |-> FALSE]]

Clip(c, bytes) ==
    FoldLeft(LAMBDA so, byte : LET one == ClipByte(so.clip, byte)
                               IN  [out |-> so.out \o one.out, clip |-> one.clip],
             [out |-> <<>>, clip |-> c], bytes)

-----------------------------------------------------------------------------
(* Where the stream may be interrupted                                     *)

\* Mutant: only escape sequences are followed.
StepOfEscapes(at, byte) ==
    CASE byte = "e" -> "escape" [] at = "escape" /\ byte = "[" -> "csi"
      [] at = "csi" /\ byte \notin Finals -> "csi" [] OTHER -> "ground"

Step(at, byte) ==
    CASE byte = "e" -> "escape" [] at = "escape" /\ byte = "[" -> "csi"
      [] at = "csi" /\ byte \notin Finals -> "csi" [] byte = "w" -> "character" [] OTHER -> "ground"

Follow(at, bytes) == FoldLeft(Step, at, bytes)

-----------------------------------------------------------------------------
(* The pump                                                                *)

InitScreen ==
    /\ pump \in {p \in [forward : BOOLEAN, reserved : BOOLEAN, clip : BOOLEAN] : p.clip => p.forward}
    /\ script \in Scripts /\ got = 0 /\ held = <<>> /\ clip = NoClip /\ cols \in Widths
    /\ buf = <<>> /\ lines = <<>> /\ screen = <<>> /\ painted = 0 /\ mid = "ground"
    /\ winched = FALSE /\ ended = FALSE

\* SIGWINCH, at any time.
Resize ==
    /\ ~ended /\ cols' \in Widths /\ winched' = TRUE
    /\ UNCHANGED <<pump, script, got, held, clip, buf, lines, screen, painted, mid, ended>>

\* The bar is painted with the stream at some place: after a resize, or when
\* its second is over.
Paints(at, due) == pump.forward /\ at = "ground" /\ (winched \/ due)

RECURSIVE Stripped(_)
Stripped(line) == IF IsSuffix(<<"cr">>, line) THEN Stripped(Front(line)) ELSE line

\* [lines, buf] with more bytes.
RECURSIVE Split(_)
Split(so) ==
    IF ~Contains(so.buf, "nl") THEN so
    ELSE LET i == SelectInSeq(so.buf, LAMBDA b : b = "nl")
         IN  Split([lines |-> Append(so.lines, Stripped(SubSeq(so.buf, 1, i - 1))),
                    buf |-> SubSeq(so.buf, i + 1, Len(so.buf))])

\* What the terminal is sent for some bytes, and what is kept.
Forwarded(chunk) ==
    LET asked == IF pump.reserved THEN Filtered(held, chunk) ELSE [out |-> chunk, held |-> <<>>]
        shown == IF pump.clip THEN Clip(clip, asked.out) ELSE [out |-> asked.out, clip |-> clip]
    IN  IF pump.forward THEN [out |-> shown.out, held |-> asked.held, clip |-> shown.clip]
        ELSE [out |-> <<>>, held |-> held, clip |-> clip]

ReadChunk ==
    /\ \E n \in 1..MaxChunk :
          /\ got + n <= Len(script) /\ got' = got + n
          /\ LET chunk == SubSeq(script, got + 1, got + n)
                 sent == Forwarded(chunk)
                 at == Follow(mid, sent.out)
                 now == Split([lines |-> lines, buf |-> buf \o chunk])
             IN  /\ screen' = screen \o sent.out /\ mid' = at
                 /\ held' = sent.held /\ clip' = sent.clip
                 /\ lines' = now.lines /\ buf' = now.buf
                 /\ IF winched /\ Paints(mid, FALSE)
                    THEN painted' = Len(screen) /\ winched' = FALSE
                    ELSE \E due \in BOOLEAN :
                            IF Paints(at, due) THEN painted' = Len(screen') /\ winched' = FALSE
                            ELSE UNCHANGED <<painted, winched>>
    /\ UNCHANGED <<pump, script, cols, ended>>

\* Nothing to read: the idle report takes nothing from the line, and the bar
\* is painted when it is due.
Quiet ==
    /\ ~ended /\ Paints(mid, TRUE)
    /\ painted' = Len(screen) /\ winched' = FALSE
    /\ UNCHANGED <<pump, script, got, held, clip, cols, buf, lines, screen, mid, ended>>

ChildEnds ==
    /\ got = Len(script) /\ ~ended /\ ended' = TRUE
    /\ LET last == Clip(clip, held)
           rest == IF ~pump.forward THEN <<>>
                   ELSE IF ~pump.clip THEN held
                   ELSE last.out \o (IF last.clip.holding THEN Released(last.clip, FALSE) ELSE <<>>)
       IN  screen' = screen \o rest
    /\ lines' = IF buf = <<>> THEN lines ELSE Append(lines, Stripped(buf))
    /\ UNCHANGED <<pump, script, got, held, clip, cols, buf, painted, mid, winched>>

NextScreen == Resize \/ ReadChunk \/ Quiet \/ ChildEnds

-----------------------------------------------------------------------------
\* The lines of a stream, each with the byte that ends it.
RECURSIVE Rows(_)
Rows(s) ==
    LET ends == {i \in DOMAIN s : s[i] \in {"cr", "nl"}}
    IN  IF s = <<>> THEN <<>>
        ELSE IF ends = {} THEN <<s>>
        ELSE LET i == CHOOSE i \in ends : \A j \in ends : i <= j
             IN  <<SubSeq(s, 1, i)>> \o Rows(SubSeq(s, i + 1, Len(s)))

FrameRow(row) == /\ row # <<>> /\ Last(row) \in {"cr", "nl"} /\ IsPrefix(<<"s", "b">>, WithoutEscapes(row))

\* Each row as it should be shown in a window of some width.
ShownRow(rows, i, width) ==
    LET after == i > 1 /\ FrameRow(rows[i - 1]) /\ Last(rows[i - 1]) = "cr"
    IN  (IF after /\ ~IsPrefix(Erase, rows[i]) THEN Erase ELSE <<>>)
        \o IF FrameRow(rows[i]) THEN Append(Clipped(Front(rows[i]), width - 1), Last(rows[i])) ELSE rows[i]

Shown(rows, widths) == FlattenSeq([i \in DOMAIN rows |-> ShownRow(rows, i, widths[i])])

(* However the kernel cuts the stream, the terminal is sent what the child  *)
(* wrote, less the queries it could not be answered, with each of cargo's   *)
(* frames cut to a width of the window and erased before what follows; and  *)
(* every line reaches the log once, whole (run_with_pty).                   *)
StreamKept ==
    ended =>
        /\ lines = LET all == Split([lines |-> <<>>, buf |-> script])
                   IN  IF all.buf = <<>> THEN all.lines ELSE Append(all.lines, Stripped(all.buf))
        /\ pump.forward =>
             LET wanted == IF pump.reserved THEN WithoutQueries(script) ELSE script
                 rows == Append(Rows(wanted), <<>>)
                 n == Len(rows)
                 open == n > 1 /\ Last(rows[n - 1]) \notin {"cr", "nl"}
             IN  IF ~pump.clip THEN screen = wanted
                 ELSE \E widths \in [1..n -> Widths] :
                        screen = Shown(IF open THEN Front(rows) ELSE rows, widths)

(* A frame of the bar lands between the characters and sequences of the     *)
(* forwarded stream, never inside one (_StreamBoundary), whatever the       *)
(* filters keep back and whenever the window is resized.                    *)
PaintsBetween ==
    LET before == SubSeq(screen, 1, painted)
    IN  before # <<>> => /\ Last(before) # "w"
                         /\ ~IsSuffix(<<"e">>, before) /\ ~IsSuffix(<<"e", "[">>, before)

(* Nothing of a child's output is lost or garbled.                          *)
OutputSound == StreamKept /\ PaintsBetween
=============================================================================
