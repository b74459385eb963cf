------------------------------- MODULE Terminal -------------------------------
(* The terminal, core/src/terminal.rs, and the three widgets the shell lays over
   it: core/src/list_selector.rs, core/src/text_prompt.rs,
   core/src/scroll_view.rs.  Every operator is pure and takes one key.

   A character stands for a word, an output line for a whole message, and each
   line takes one row: wrapping and the cells drawn are left out.  The cursor
   always stands at the end of the input, so it is not kept. *)
EXTENDS Naturals, Sequences, SequencesExt

CONSTANTS
    Rows,      \* rows of the terminal
    HistoryMax \* HISTORY_MAX

ASSUME TerminalAssumption == Rows \in Nat \ {0} /\ HistoryMax \in Nat \ {0}

NewLine == "\n"
Limited(n, max) == IF n > max THEN max ELSE n
Less(n, m) == IF n > m THEN n - m ELSE 0 \* saturating_sub

----------------------------------------------------------------------------
(* The terminal. *)

NewTerminal ==
    [lines |-> <<>>, input |-> <<>>, show |-> TRUE, scroll |-> 0,
     history |-> <<>>, recall |-> 0]

Typed(t, ch) == [t EXCEPT !.input = Append(@, ch), !.recall = 0]
Output(line) == [out |-> line]
PushOutput(t, line) == [t EXCEPT !.lines = Append(@, Output(line)), !.scroll = 0]
ReplaceLastOutput(t, line) ==
    [t EXCEPT !.lines = IF @ = <<>> THEN << Output(line) >>
                        ELSE [@ EXCEPT ![Len(@)] = Output(line)],
              !.scroll = 0]
ClearLines(t) == [t EXCEPT !.lines = <<>>]

(* Cancel at the prompt walks the history back, or starts doing so, or drops
   what was being typed. *)
Recalled(t, i) == [t EXCEPT !.recall = i, !.input = t.history[i]]
Cancelled(t) ==
    CASE t.recall > 1 -> Recalled(t, t.recall - 1)
      [] t.recall = 0 /\ t.input # <<>> -> [t EXCEPT !.input = <<>>]
      [] t.recall = 0 /\ t.input = <<>> /\ t.history # <<>> ->
            Recalled(t, Len(t.history))
      [] OTHER -> t

(* Enter records the command in the scrollback and the history, where it is not
   repeated, and leaves an empty input. *)
Remembered(history, cmd) ==
    CASE cmd = <<>> -> history
      [] history # <<>> /\ Last(history) = cmd -> history
      [] Len(history) = HistoryMax -> Append(Tail(history), cmd)
      [] OTHER -> Append(history, cmd)

Entered(t) ==
    [t EXCEPT !.lines = Append(@, [typed |-> t.input]),
              !.history = Remembered(@, t.input),
              !.recall = 0, !.input = <<>>, !.scroll = 0]

MaxScroll(t) == Less(Len(t.lines), Less(Rows, IF t.show THEN 1 ELSE 0))

(* handle_key(), but for Enter, which also gives the command to execute. *)
TerminalKey(t, event) ==
    CASE event.key = "Char" -> Typed(t, event.ch)
      [] event.key = "SoftEnter" -> Typed(t, NewLine)
      [] event.key = "Cancel" -> Cancelled(t)
      [] event.key = "Backspace" ->
            IF t.input = <<>> THEN t
            ELSE [t EXCEPT !.input = Front(@), !.recall = 0]
      [] event.key = "Enter" -> Entered(t)
      [] event.key = "ScrollUp" ->
            [t EXCEPT !.scroll = IF @ < MaxScroll(t) THEN @ + 1 ELSE @]
      [] event.key = "ScrollDown" -> [t EXCEPT !.scroll = Less(@, 1)]
      [] event.key = "ScrollBottom" -> [t EXCEPT !.scroll = 0]
      [] OTHER -> t

----------------------------------------------------------------------------
(* The widgets.  A key that changes one yields it anew; Enter in a list or a
   prompt, and the keys that leave the pager, are picked up by the shell. *)

Up == [key |-> "Char", ch |-> "y"]
Down == [key |-> "Char", ch |-> "h"]
Quit == [key |-> "Char", ch |-> "q"]

ItemRows == Less(Rows, 1)

(* clamp_viewport(): the cursor stays in sight. *)
Clamped(list) ==
    [list EXCEPT !.offset =
        CASE ItemRows = 0 -> 0
          [] list.cursor <= @ -> list.cursor - 1
          [] list.cursor > @ + ItemRows -> list.cursor - ItemRows
          [] OTHER -> @]

ListKey(list, event) ==
    CASE event = Up /\ list.cursor > 1 ->
            Clamped([list EXCEPT !.cursor = @ - 1])
      [] event = Down /\ list.cursor < Len(list.items) ->
            Clamped([list EXCEPT !.cursor = @ + 1])
      [] OTHER -> list

(* What a list shows, and the value it returns for the line the cursor is on. *)
ListShown(list) ==
    [header |-> list.header, at |-> list.items[list.cursor].display,
     from |-> list.offset]
Selected(list) == list.items[list.cursor].value

PromptKey(prompt, event) ==
    CASE event.key = "Char" -> [prompt EXCEPT !.text = Append(@, event.ch)]
      [] event.key = "Backspace" /\ prompt.text # <<>> ->
            [prompt EXCEPT !.text = Front(@)]
      [] OTHER -> prompt

(* A masked prompt shows how much was typed and nothing else. *)
PromptShown(prompt) ==
    [header |-> prompt.header,
     text |-> IF prompt.mask THEN [i \in DOMAIN prompt.text |-> "*"]
              ELSE prompt.text]

PagerKey(pager, event) ==
    CASE event = Up /\ pager.offset > 0 -> [pager EXCEPT !.offset = @ - 1]
      [] event = Down /\ pager.offset + Rows < Len(pager.content) ->
            [pager EXCEPT !.offset = @ + 1]
      [] OTHER -> pager

PagerShown(pager) ==
    [lines |-> SubSeq(pager.content, pager.offset + 1,
                      Limited(pager.offset + Rows, Len(pager.content)))]
=============================================================================
