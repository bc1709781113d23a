----------------------------- MODULE LineEditor -----------------------------
(***************************************************************************)
(* The line editor on lldbmi2's terminal: linenoise.c and the part of      *)
(* main's loop (lldbmi2.cpp) that feeds it.  The editor works on a byte    *)
(* array of fixed size with a length and a cursor, puts the terminal in    *)
(* raw mode while a line is edited, and in multi-line mode redraws by      *)
(* moving the terminal's cursor up and down from where it thinks it is.    *)
(*                                                                         *)
(* The host is main, which uses neither history nor completion nor         *)
(* multi-line mode, or any program that uses the whole library.            *)
(***************************************************************************)
EXTENDS Integers, Sequences, FiniteSets, SequencesExt, FiniteSetsExt

CONSTANTS
    Chars,         \* the characters that can be typed
    SPACE, TAB,    \* two of them
    NUL,           \* the byte 0; Ctrl-@ types it
    BufSize,       \* size of the host's buffer (1024 in main)
    Terminals,     \* name ($TERM), ws_col, and what is read after each of two
                   \* questions for the cursor's position
    plen,          \* length of the prompt
    Hint(_),       \* what a hints callback returns for a text
    Completions,   \* what a completion callback offers, when it offers something
    HistoryMaxLens,\* history limits a host may set
    HistoryFile    \* the lines of a history file

Bytes == Chars \cup {NUL}
buflen == BufSize - 1      \* EditStart keeps a byte for the terminator
DefaultColumns == 80

\* The prompt is assumed shorter than a row on every terminal: on a narrower
\* one refreshSingleLine's counts wrap around (linenoise.c:549-556).  Nothing
\* is assumed of the length of what a completion callback offers.
ASSUME EditorAssumption ==
    /\ BufSize \in Nat /\ BufSize > 1
    /\ plen \in 1 .. DefaultColumns - 1
    /\ \A t \in Terminals : t.ws_col \in Nat /\ (t.ws_col = 0 \/ plen < t.ws_col)
    /\ \A t \in Terminals : Len(t.replies[2]) = 4 =>
                                t.replies[2][3] \in Nat /\ plen < t.replies[2][3]
    /\ NUL \notin Chars /\ {SPACE, TAB} \subseteq Chars
    /\ HistoryMaxLens \subseteq Nat \ {0}
    /\ \E n \in HistoryMaxLens : \A k \in HistoryMaxLens : k <= n
    /\ Completions \in Seq(Seq(Chars)) /\ HistoryFile \in Seq(Seq(Chars))

VARIABLES
    host, tty,           \* who uses the editor, on what
    mlmode, maskmode, hints, \* the modes; a hints callback is set
    l,                   \* struct linenoiseState, and what the terminal shows:
                         \* row, where its cursor is; shown, a single line
    history,             \* history[0 .. history_len - 1]
    history_max_len,
    rawmode, atexit_registered,
    pc,                  \* where the host is
    loaded,              \* how many lines of the file linenoiseHistoryLoad has read
    line,                \* what linenoiseEditFeed returned last
    eof                  \* main's state.eof

vars == <<host, tty, mlmode, maskmode, hints, l, history, history_max_len,
          rawmode, atexit_registered, pc, loaded, line, eof>>
terminal == <<rawmode, atexit_registered>>
setting == <<host, tty, mlmode, maskmode, hints>>

NoLine == <<>>      \* linenoiseEditFeed returned NULL; <<t>> is the line t

-----------------------------------------------------------------------------
(* Bytes and texts *)

Memmove(b, dst, src, n) ==
    [i \in DOMAIN b |-> IF i \in dst .. dst + n - 1 THEN b[src + (i - dst)] ELSE b[i]]

\* the C string at the start of b
CString(b) == LET n == Min({i \in DOMAIN b : b[i] = NUL})
              IN [i \in 1 .. n |-> b[i - 1]]

\* strncpy of t over the first n bytes, the last of which then ends the text
Strncpy(b, t, n) ==
    [i \in DOMAIN b |-> IF i >= n THEN b[i]
                        ELSE IF i < Len(t) /\ i < n - 1 THEN t[i + 1] ELSE NUL]

\* snprintf (b, n, "%s", t)
Snprintf(b, t, n) ==
    [i \in DOMAIN b |-> IF i < Len(t) /\ i < n - 1 THEN t[i + 1]
                        ELSE IF i = Min({Len(t), n - 1}) THEN NUL ELSE b[i]]

-----------------------------------------------------------------------------
(* Redrawing.  A function is given the text and the cursor to show.  In    *)
(* multi-line mode oldrows and oldpos are what the next redrawing believes *)
(* of the screen, and row is where the terminal's cursor really is,        *)
(* counted from the row of the prompt.                                     *)

Text(m) == [i \in 1 .. m.len |-> m.buf[i - 1]]

AtLeast0(n) == IF n > 0 THEN n ELSE 0

\* Passwords are not shown.
Masked(t) == IF maskmode THEN [i \in DOMAIN t |-> "*"] ELSE t

\* what fits in a line of the terminal of the text t with the cursor at pos
Window(m, t, pos) ==
    LET left == AtLeast0(plen + pos + 1 - m.cols)
    IN [text |-> Masked(SubSeq(t, left + 1, Min({Len(t), left + m.cols - plen}))),
        col |-> plen + pos - left]

\* the part of the hint for t that fits behind it
refreshShowHints(m, t) ==
    LET room == AtLeast0(m.cols - (plen + Len(t)))
    IN IF hints THEN SubSeq(Hint(t), 1, Min({Len(Hint(t)), room})) ELSE <<>>

\* What is to be written is collected and written at once.
abAppend(ab, s) == ab \o s

Blank == [text |-> <<>>, col |-> 0]

refreshSingleLine(m, t, pos, write) ==
    [m EXCEPT !.shown = IF write
                        THEN [Window(m, t, pos) EXCEPT !.text = abAppend(@, refreshShowHints(m, t))]
                        ELSE Blank]

Rows(m, n) == (plen + n + m.cols - 1) \div m.cols
CursorRow(m, p) == (plen + p + m.cols) \div m.cols

\* where the escape sequences of the cleaning leave the cursor
CleanedRow(m) ==
    m.row + AtLeast0(m.oldrows - CursorRow(m, m.oldpos)) - AtLeast0(m.oldrows - 1)

\* Mutant: the row begun behind a full one is not counted.
refreshMultiLineNoRow(m, t, pos, clean, write) ==
    LET rows == Rows(m, Len(t))
        top == IF clean THEN CleanedRow(m) ELSE m.row
        newline == pos > 0 /\ pos = Len(t) /\ (pos + plen) % m.cols = 0
        written == IF write /\ newline THEN rows + 1 ELSE rows
    IN [m EXCEPT !.oldrows = rows, !.oldpos = pos,
                 !.row = IF write
                         THEN top + written - 1 - AtLeast0(written - CursorRow(m, pos))
                         ELSE top]

refreshMultiLine(m, t, pos, clean, write) ==
    LET rows == Rows(m, Len(t))
        top == IF clean THEN CleanedRow(m) ELSE m.row
        newline == pos > 0 /\ pos = Len(t) /\ (pos + plen) % m.cols = 0
        written == IF write /\ newline THEN rows + 1 ELSE rows
    IN [m EXCEPT !.oldrows = written,
                 !.oldpos = pos,
                 !.row = IF write
                         THEN top + written - 1 - AtLeast0(written - CursorRow(m, pos))
                         ELSE top]

refreshWithFlags(m, t, pos, clean, write) ==
    IF mlmode THEN refreshMultiLine(m, t, pos, clean, write)
    ELSE refreshSingleLine(m, t, pos, write)

refreshLine(m) == refreshWithFlags(m, Text(m), m.pos, TRUE, TRUE)

\* refreshLineWithCompletion: the offered text is shown, the buffer stays
refreshWithCompletion(m, offered, clean) ==
    IF m.completion_idx < Len(offered)
    THEN LET t == offered[m.completion_idx + 1]
         IN refreshWithFlags(m, t, Len(t), clean, TRUE)
    ELSE refreshWithFlags(m, Text(m), m.pos, clean, TRUE)

-----------------------------------------------------------------------------
(* Editing functions: the state they leave *)

Inserted(m, c) == [m EXCEPT
    !.buf = [Memmove(@, m.pos + 1, m.pos, m.len - m.pos) EXCEPT ![m.pos] = c, ![m.len + 1] = NUL],
    !.len = @ + 1, !.pos = @ + 1]

\* A character at the end of a line that does not fill the terminal's is only
\* echoed.
Echoed(m) == m.len = m.pos /\ ~mlmode /\ plen + m.len + 1 < m.cols /\ ~hints

Echo(m, c) == [m EXCEPT !.shown.text = @ \o Masked(<<c>>), !.shown.col = @ + 1]

\* Mutant: the room is compared one character too late.
InsertTooLate(m, c) ==
    IF m.len > buflen THEN m
    ELSE IF Echoed(m) THEN Echo(Inserted(m, c), c) ELSE refreshLine(Inserted(m, c))

\* Mutant: whether a character is only echoed is not asked of its place.
InsertAlwaysEchoes(m, c) ==
    IF m.len >= buflen THEN m
    ELSE IF ~mlmode /\ plen + m.len + 1 < m.cols /\ ~hints THEN Echo(Inserted(m, c), c)
    ELSE refreshLine(Inserted(m, c))

linenoiseEditInsert(m, c) ==
    IF m.len >= buflen THEN m
    ELSE IF Echoed(m) THEN Echo(Inserted(m, c), c) ELSE refreshLine(Inserted(m, c))

\* the four cursor movements
MoveTo(m, p) == IF p = m.pos THEN m ELSE refreshLine([m EXCEPT !.pos = p])

linenoiseEditMoveLeft(m) == MoveTo(m, AtLeast0(m.pos - 1))
linenoiseEditMoveRight(m) == MoveTo(m, IF m.pos # m.len THEN m.pos + 1 ELSE m.pos)
linenoiseEditMoveHome(m) == MoveTo(m, 0)
linenoiseEditMoveEnd(m) == MoveTo(m, m.len)

linenoiseEditDelete(m) ==
    IF m.len > 0 /\ m.pos < m.len
    THEN refreshLine([m EXCEPT
            !.buf = [Memmove(@, m.pos, m.pos + 1, m.len - m.pos - 1)
                        EXCEPT ![m.len - 1] = NUL],
            !.len = @ - 1])
    ELSE m

\* Mutant: one byte too few is moved.
BackspaceMovesLess(m) ==
    IF m.pos > 0 /\ m.len > 0
    THEN refreshLine([m EXCEPT
            !.buf = [Memmove(@, m.pos - 1, m.pos, m.len - m.pos - 1)
                        EXCEPT ![m.len - 1] = NUL],
            !.len = @ - 1, !.pos = @ - 1])
    ELSE m

linenoiseEditBackspace(m) ==
    IF m.pos > 0 /\ m.len > 0
    THEN refreshLine([m EXCEPT
            !.buf = [Memmove(@, m.pos - 1, m.pos, m.len - m.pos)
                        EXCEPT ![m.len - 1] = NUL],
            !.len = @ - 1, !.pos = @ - 1])
    ELSE m

\* back over the spaces before p, then over what is before them
WordStart(b, p) ==
    LET q == Max({i \in 0 .. p : i = 0 \/ b[i - 1] # SPACE})
    IN Max({i \in 0 .. q : i = 0 \/ b[i - 1] = SPACE})

linenoiseEditDeletePrevWord(m) ==
    LET p == WordStart(m.buf, m.pos)
    IN refreshLine([m EXCEPT
            !.buf = Memmove(@, p, m.pos, m.len - m.pos + 1),
            !.pos = p, !.len = @ - (m.pos - p)])

Transpose(m) ==
    IF m.pos > 0 /\ m.pos < m.len
    THEN refreshLine([m EXCEPT
            !.buf = [@ EXCEPT ![m.pos - 1] = m.buf[m.pos], ![m.pos] = m.buf[m.pos - 1]],
            !.pos = IF m.pos # m.len - 1 THEN @ + 1 ELSE @])
    ELSE m

KillLine(m) == refreshLine([m EXCEPT !.buf[0] = NUL, !.pos = 0, !.len = 0])

KillEnd(m) == refreshLine([m EXCEPT !.buf[m.pos] = NUL, !.len = m.pos])

\* The cursor goes to the screen's first row, above which no move goes.
ClearScreen(m) == refreshWithFlags([m EXCEPT !.row = 1], Text(m), m.pos, FALSE, TRUE)

EditKeys == {"BACKSPACE", "DELETE", "TRANSPOSE", "LEFT", "RIGHT", "HOME", "END",
             "KILL_LINE", "KILL_END", "CLEAR", "WORD"}

EditKey(k, m) ==
    CASE k = "BACKSPACE" -> linenoiseEditBackspace(m)
      [] k = "DELETE"    -> linenoiseEditDelete(m)
      [] k = "TRANSPOSE" -> Transpose(m)
      [] k = "LEFT"      -> linenoiseEditMoveLeft(m)
      [] k = "RIGHT"     -> linenoiseEditMoveRight(m)
      [] k = "HOME"      -> linenoiseEditMoveHome(m)
      [] k = "END"       -> linenoiseEditMoveEnd(m)
      [] k = "KILL_LINE" -> KillLine(m)
      [] k = "KILL_END"  -> KillEnd(m)
      [] k = "CLEAR"     -> ClearScreen(m)
      [] k = "WORD"      -> linenoiseEditDeletePrevWord(m)

-----------------------------------------------------------------------------
(* History *)

\* history after a line is added to h
HistoryAdd(h, t) ==
    IF h # <<>> /\ Last(h) = t THEN h
    ELSE Append(IF Len(h) = history_max_len THEN Tail(h) ELSE h, t)

Scratch == Len(history) - l.history_index   \* the entry that is being edited

\* linenoiseEditHistoryNext: the edited text is kept in its entry, the next
\* older (dir = 1) or newer (dir = -1) entry is put in the buffer
HistoryNext(m, dir) ==
    LET i == m.history_index + dir
        saved == [history EXCEPT ![Scratch] = CString(m.buf)]
        b == Strncpy(m.buf, saved[Len(saved) - i], buflen)
        n == Len(CString(b))
    IN IF Len(history) <= 1 THEN history' = history /\ l' = m
       ELSE /\ history' = saved
            /\ l' = IF i \in 0 .. Len(history) - 1
                    THEN refreshLine([m EXCEPT !.history_index = i, !.buf = b,
                                               !.len = n, !.pos = n])
                    ELSE m

-----------------------------------------------------------------------------
(* The life of a line *)

linenoiseState ==
    [buf |-> [i \in 0 .. BufSize - 1 |-> NUL], len |-> 0, pos |-> 0,
     oldpos |-> 0, oldrows |-> 0, history_index |-> 0,
     in_completion |-> FALSE, completion_idx |-> 0,
     cols |-> DefaultColumns, row |-> 1, shown |-> Blank]

Init ==
    /\ host \in {"main", "any"} /\ tty \in BOOLEAN
    /\ mlmode = FALSE /\ maskmode = FALSE /\ hints = FALSE
    /\ l = linenoiseState
    /\ history = <<>> /\ history_max_len = Max(HistoryMaxLens)
    /\ rawmode = FALSE /\ atexit_registered = FALSE
    /\ pc = "stopped" /\ loaded = 0 /\ line = NoLine /\ eof = FALSE

\* the terminal's answer, ESC [ row ; column R, unless other keys come first
getCursorPosition(reply) ==
    IF Len(reply) = 4 /\ reply[1] = "ESC" /\ reply[2] = "[" /\ reply[4] = "R"
    THEN reply[3] ELSE -1

\* main hands over -1 for the descriptors, so that no question can be asked
getColumns(t) ==
    LET start == IF host = "main" THEN -1 ELSE getCursorPosition(t.replies[1])
        cols == IF start = -1 THEN -1 ELSE getCursorPosition(t.replies[2])
    IN IF t.ws_col # 0 THEN t.ws_col ELSE IF cols # -1 THEN cols ELSE DefaultColumns

isUnsupportedTerm(t) == t.name \in {"dumb", "cons25", "emacs"}

\* This fails on a terminal that has hung up.
enableRawMode(success) ==
    /\ atexit_registered' = (atexit_registered \/ tty)
    /\ rawmode' = (rawmode \/ success)

disableRawMode == rawmode' = FALSE

\* Mutant: a line begins at the history entry where the last one ended.
EditStartKeepsIndex == \E t \in Terminals, success \in BOOLEAN :
    /\ pc = "stopped" /\ (success => tty)
    /\ l' = [linenoiseState EXCEPT !.buf = [l.buf EXCEPT ![0] = NUL], !.cols = getColumns(t),
                                   !.history_index = l.history_index, !.shown.col = plen]
    /\ enableRawMode(success)
    /\ history' = IF success THEN HistoryAdd(history, <<>>) ELSE history
    /\ pc' = "editing" /\ line' = NoLine
    /\ UNCHANGED <<setting, history_max_len, loaded, eof>>

\* linenoiseEditStart.  Without raw mode the history gets no entry for the new
\* line; the hosts go on whatever it returns.
linenoiseEditStart == \E t \in Terminals, success \in BOOLEAN :
    /\ pc = "stopped" /\ (success => tty)
    /\ l' = [linenoiseState EXCEPT !.buf = [l.buf EXCEPT ![0] = NUL], !.cols = getColumns(t),
                                   !.shown.col = plen]
    /\ enableRawMode(success)
    /\ history' = IF success THEN HistoryAdd(history, <<>>) ELSE history
    /\ pc' = "editing" /\ line' = NoLine
    /\ UNCHANGED <<setting, history_max_len, loaded, eof>>

Returns(r) == pc' = "returned" /\ line' = r

\* history_len--; free(history[history_len])
PopHistory == IF history = <<>> THEN pc' = "crashed" /\ UNCHANGED <<history, line>>
              ELSE history' = Front(history)

Reading == pc = "editing" /\ tty /\ ~eof

Fed == UNCHANGED <<setting, history_max_len, terminal, loaded, eof>>

\* completeLine for a key that ends the completion: the offered text is taken
\* and the key is handled.  Without a completion going on the key comes alone.
\* The callback, which main does not set, answers alike for the same text.
Offer == IF l.in_completion THEN {Completions}
         ELSE IF host = "main" THEN {<<>>} ELSE {<<>>, Completions}

\* The length and the cursor become what snprintf returns, the length of the
\* whole offer.
Accepting(m, offered) ==
    LET t == offered[m.completion_idx + 1]
        n == [m EXCEPT !.in_completion = FALSE]
    IN IF m.completion_idx < Len(offered)
       THEN [n EXCEPT !.buf = Snprintf(@, t, buflen), !.len = Len(t), !.pos = Len(t)]
       ELSE n

Accepted(m, offered) == IF m.in_completion THEN refreshLine(Accepting(m, offered)) ELSE m

\* An offer of buflen characters or more is cut in the buffer while its length
\* is not.
Fits(offered) ==
    l.in_completion /\ l.completion_idx < Len(offered) =>
        Len(offered[l.completion_idx + 1]) < buflen

\* The length is then that of no text in the buffer; what the redrawing and
\* the key that ended the completion read and write by it, past the buffer's
\* end for the longer offers, is undefined: "overrun" is not followed further.
FeedTooLong == \E offered \in Offer :
    /\ Reading /\ ~Fits(offered)
    /\ l' = Accepting(l, offered)
    /\ pc' = "overrun"
    /\ UNCHANGED <<history, line>> /\ Fed

\* a key that only edits
FeedEdit == \E k \in EditKeys, offered \in Offer :
    /\ Reading /\ Fits(offered)
    /\ l' = EditKey(k, Accepted(l, offered))
    /\ UNCHANGED <<history, pc, line>> /\ Fed

\* a character, of which the plain echo may fail
FeedChar == \E c \in Bytes, offered \in Offer :
    /\ Reading /\ Fits(offered)
    /\ c = TAB => offered = <<>>
    /\ c = NUL => ~l.in_completion
    /\ LET m == Accepted(l, offered) IN
       /\ l' = linenoiseEditInsert(m, c)
       /\ \/ UNCHANGED <<pc, line>>
          \/ m.len < buflen /\ Echoed(m) /\ Returns(NoLine)
    /\ UNCHANGED history /\ Fed

\* A byte 0 that ends a completion is not inserted (completeLine's 0 means
\* "read on"), and a byte above 127 is negative, which means an error.
FeedOddByte == \E offered \in Offer :
    /\ Reading /\ Fits(offered) /\ l.in_completion
    /\ l' = Accepted(l, offered)
    /\ Returns(NoLine) \/ UNCHANGED <<pc, line>>
    /\ UNCHANGED history /\ Fed

\* completeLine: TAB shows the next offer, and after the last one the buffer
FeedTab ==
    /\ Reading /\ host # "main" /\ Completions # <<>>
    /\ LET m == [l EXCEPT !.in_completion = TRUE,
                          !.completion_idx = IF l.in_completion
                                             THEN (@ + 1) % (Len(Completions) + 1)
                                             ELSE 0]
       IN l' = refreshWithCompletion(m, Completions, TRUE)
    /\ UNCHANGED <<history, pc, line>> /\ Fed

\* completeLine: ESC gives the offers up
FeedEscape ==
    /\ Reading /\ l.in_completion
    /\ l' = refreshLine([l EXCEPT !.in_completion = FALSE])
    /\ UNCHANGED <<history, pc, line>> /\ Fed

FeedHistory == \E dir \in {1, -1}, offered \in Offer :
    /\ Reading /\ Fits(offered)
    /\ HistoryNext(Accepted(l, offered), dir)
    /\ UNCHANGED <<pc, line>> /\ Fed

\* In multi-line mode the cursor goes to the end; a hint is taken away.
Entered(m) ==
    LET n == IF mlmode THEN linenoiseEditMoveEnd(m) ELSE m
    IN CASE ~hints -> n
         [] hints /\ mlmode -> refreshLine(n)
         [] OTHER -> [n EXCEPT !.shown = Window(n, Text(n), n.pos)]

FeedEnter == \E offered \in Offer :
    /\ Reading /\ Fits(offered)
    /\ LET m == Accepted(l, offered) IN
       /\ l' = Entered(m)
       /\ PopHistory
       /\ history # <<>> => Returns(<<CString(m.buf)>>)
    /\ Fed

\* Ctrl-D on an empty line
FeedEof == \E offered \in Offer :
    /\ Reading /\ Fits(offered)
    /\ l' = Accepted(l, offered) /\ l'.len = 0
    /\ PopHistory
    /\ history # <<>> => Returns(NoLine)
    /\ Fed

\* Ctrl-C, which leaves its entry in the history, and a read that fails
FeedInterrupt == \E offered \in Offer :
    /\ Reading /\ Fits(offered)
    /\ l' = Accepted(l, offered)
    /\ Returns(NoLine) /\ UNCHANGED history /\ Fed

ReadFails ==
    /\ Reading
    /\ Returns(NoLine) /\ UNCHANGED <<l, history>> /\ Fed

\* linenoiseNoTTY: a whole line at once, or the end of the input
FeedNoTTY ==
    /\ pc = "editing" /\ ~tty /\ ~eof
    /\ \E r \in {<<<<>>>>, <<<<SPACE>>>>, NoLine} : Returns(r)
    /\ UNCHANGED <<l, history>> /\ Fed

linenoiseHide ==
    /\ host # "main" /\ pc = "editing" /\ tty
    /\ l' = refreshWithFlags(l, Text(l), l.pos, TRUE, FALSE)
    /\ pc' = "hidden"
    /\ UNCHANGED <<history, line>> /\ Fed

linenoiseShow == \E offered \in Offer :
    /\ pc = "hidden"
    /\ l' = IF l.in_completion THEN refreshWithCompletion(l, offered, FALSE)
            ELSE refreshWithFlags(l, Text(l), l.pos, FALSE, TRUE)
    /\ pc' = "editing"
    /\ UNCHANGED <<history, line>> /\ Fed

linenoiseEditStop == IF tty THEN disableRawMode ELSE UNCHANGED rawmode

\* Mutant: no linenoiseEditStop when there is no line.
TakeLineIfAny ==
    /\ host = "main" /\ pc = "returned"
    /\ IF line # NoLine THEN linenoiseEditStop ELSE UNCHANGED rawmode
    /\ pc' = IF line = NoLine THEN "crashed" ELSE "stopped"
    /\ eof' = (eof \/ line = <<<<>>>>)
    /\ UNCHANGED <<setting, l, history, history_max_len, atexit_registered, loaded, line>>

\* main takes the length of a line that may be NULL; an empty line is the end.
TakeLine ==
    /\ host = "main" /\ pc = "returned"
    /\ linenoiseEditStop
    /\ pc' = IF line = NoLine THEN "crashed" ELSE "stopped"
    /\ eof' = (eof \/ line = <<<<>>>>)
    /\ UNCHANGED <<setting, l, history, history_max_len, atexit_registered, loaded, line>>

\* Another host calls linenoise, whose state and buffer are gone when it gives
\* back what is returned; the next call's may be in the same place.
linenoiseBlockingEdit ==
    /\ host # "main" /\ pc = "returned"
    /\ linenoiseEditStop
    /\ pc' = "stopped"
    /\ l' = [linenoiseState EXCEPT !.history_index = l.history_index]
    /\ UNCHANGED <<setting, history, history_max_len, atexit_registered, loaded, line, eof>>

\* linenoise on a terminal that cannot be edited on: a line from fgets
PlainLine ==
    /\ host # "main" /\ pc = "stopped" /\ tty
    /\ \E t \in Terminals : isUnsupportedTerm(t)
    /\ line' \in {<<<<SPACE>>>>, NoLine}
    /\ UNCHANGED <<setting, l, history, history_max_len, terminal, pc, loaded, eof>>

\* Modes are set between two lines.  Bound: mask mode, which only changes what
\* a single line shows, is used alone.
Between ==
    /\ host # "main" /\ pc = "stopped"
    /\ UNCHANGED <<host, tty, l, history, history_max_len, terminal, pc, loaded, line, eof>>
linenoiseSetMultiLine ==
    Between /\ ~maskmode /\ mlmode' = ~mlmode /\ UNCHANGED <<maskmode, hints>>
linenoiseMaskMode ==
    Between /\ ~mlmode /\ ~hints /\ maskmode' = ~maskmode /\ UNCHANGED <<mlmode, hints>>
linenoiseSetHintsCallback ==
    Between /\ ~maskmode /\ hints' = ~hints /\ UNCHANGED <<mlmode, maskmode>>

\* linenoiseHistoryAdd, linenoiseHistorySetMaxLen and linenoiseHistoryLoad
\* between two lines; the file's lines are added one by one
KeepLine ==
    /\ host # "main" /\ pc = "stopped" /\ line # NoLine
    /\ history' = HistoryAdd(history, line[1])
    /\ UNCHANGED <<setting, l, history_max_len, terminal, pc, loaded, line, eof>>

linenoiseHistorySetMaxLen == \E n \in HistoryMaxLens :
    /\ host # "main" /\ pc = "stopped"
    /\ history_max_len' = n
    /\ history' = SubSeq(history, AtLeast0(Len(history) - n) + 1, Len(history))
    /\ UNCHANGED <<setting, l, terminal, pc, loaded, line, eof>>

linenoiseHistoryLoad ==
    /\ host # "main" /\ pc \in {"stopped", "loading"}
    /\ LET n == IF pc = "loading" THEN loaded ELSE 0
       IN IF n < Len(HistoryFile)
          THEN pc' = "loading" /\ loaded' = n + 1
               /\ history' = HistoryAdd(history, HistoryFile[n + 1])
          ELSE pc' = "stopped" /\ loaded' = 0 /\ UNCHANGED history
    /\ UNCHANGED <<setting, l, history_max_len, terminal, line, eof>>

\* linenoisePrintKeyCodes shows what keys send, in raw mode, until "quit" has
\* been typed; a read that fails is tried again for ever.
linenoisePrintKeyCodes == \E success \in BOOLEAN :
    /\ host # "main" /\ pc = "stopped" /\ (success => tty)
    /\ enableRawMode(success)
    /\ pc' = IF success THEN "keycodes" ELSE "stopped"
    /\ UNCHANGED <<setting, l, history, history_max_len, loaded, line, eof>>

QuitTyped ==
    /\ pc = "keycodes"
    /\ disableRawMode /\ pc' = "stopped"
    /\ UNCHANGED <<setting, l, history, history_max_len, atexit_registered, loaded, line, eof>>

\* -gdb-exit came on the other channel
GdbExit ==
    /\ host = "main" /\ pc = "editing" /\ eof' = TRUE
    /\ UNCHANGED <<setting, l, history, history_max_len, terminal, pc, loaded, line>>

linenoiseAtExit == IF atexit_registered THEN disableRawMode ELSE UNCHANGED rawmode

\* main returns, or another host exits
Exit ==
    /\ pc \in {"editing", "stopped", "returned"}
    /\ host = "main" => eof /\ pc = "editing"
    /\ pc' = "exited"
    /\ linenoiseAtExit
    /\ UNCHANGED <<setting, l, history, history_max_len, atexit_registered, loaded, line, eof>>

Next ==
    \/ linenoiseEditStart \/ FeedEdit \/ FeedChar \/ FeedOddByte \/ FeedTab \/ FeedEscape
    \/ FeedHistory \/ FeedEnter \/ FeedEof \/ FeedInterrupt \/ ReadFails \/ FeedTooLong
    \/ FeedNoTTY \/ linenoiseHide \/ linenoiseShow \/ TakeLine \/ linenoiseBlockingEdit
    \/ PlainLine \/ linenoiseSetMultiLine \/ linenoiseMaskMode \/ linenoiseSetHintsCallback
    \/ KeepLine
    \/ linenoiseHistorySetMaxLen \/ linenoiseHistoryLoad \/ linenoisePrintKeyCodes \/ QuitTyped
    \/ GdbExit \/ Exit

Spec == Init /\ [][Next]_vars

-----------------------------------------------------------------------------
(* Properties *)

\* Every function that moves bytes (insert, delete, backspace, delete word,
\* kill, history, the taking of an offer) leaves the cursor inside the text,
\* the text inside the buffer and a terminator behind it.  Not so the taking
\* of an offer of buflen characters or more (FeedTooLong).
InBounds ==
    pc # "overrun" =>
        /\ l.buf \in [0 .. BufSize - 1 -> Bytes]
        /\ l.len \in 0 .. buflen /\ l.pos \in 0 .. l.len
        /\ l.buf[l.len] = NUL

\* "Make sure there is always space for the nulterm" (linenoise.c:889): there
\* is a byte for the terminator behind the text.
SpaceForNulterm == l.len < BufSize

\* While a line is edited in raw mode the entry that linenoiseEditHistoryNext
\* overwrites and that ENTER frees exists, whatever was added, dropped or
\* left behind by Ctrl-C before, and the history keeps to its limit.
HistoryInRange ==
    /\ Len(history) <= history_max_len
    /\ pc \in {"editing", "hidden"} /\ rawmode => l.history_index \in 0 .. Len(history) - 1

\* The program never ends with the terminal in raw mode: not when main
\* returns or exits, and not when it dies of the NULL that linenoiseEditFeed
\* returned at the end of the input (strlen, lldbmi2.cpp).
TerminalRestored == pc \in {"exited", "crashed"} => ~rawmode

\* In multi-line mode the redrawing knows where the terminal's cursor is, so
\* that it cleans and rewrites the rows of the line and no others, through
\* completion, history, hiding and showing, and lines that fill a row.
RowIsKnown ==
    /\ mlmode /\ tty /\ pc = "editing" => l.row = CursorRow(l, l.oldpos)
    /\ mlmode /\ tty /\ pc = "hidden" => l.row = 1

\* In single-line mode the terminal shows the part of the line around the
\* cursor that fits, or asterisks, and behind it the hint for this line and
\* not for an earlier one; its cursor is there, although a key that changes
\* nothing redraws nothing and a character at the end is only echoed.  An
\* empty line may be without its hint, since one that begins shows its prompt
\* only.  When the line is returned no hint is left behind it.
Showing(m, hint) ==
    LET w == Window(m, Text(m), m.pos) IN [text |-> w.text \o hint, col |-> w.col]

ShownRight(m) == \/ m.shown = Showing(m, refreshShowHints(m, Text(m)))
                 \/ m.len = 0 /\ m.shown = Showing(m, <<>>)

ScreenShowsLine ==
    ~mlmode /\ rawmode /\ ~l.in_completion =>
        /\ pc = "editing" => ShownRight(l)
        /\ pc = "returned" /\ line # NoLine => l.shown = Showing(l, <<>>)

\* The bytes and memory moves implement a text with a cursor, as long as no
\* offer too long for the buffer is taken.
Field == INSTANCE TextField WITH
            MaxLen <- buflen, Offers <- ToSet(Completions),
            text <- Text(l), cursor <- l.pos

ImplementsField ==
    Field!Init /\ [][pc' = "overrun" \/ Field!Next]_<<Text(l), l.pos>>
=============================================================================
