-------------------------------- MODULE Shell --------------------------------
(* The shell, core/src/shell.rs: a command line becomes a program and its
   arguments, and an interactive mode takes the keys until it is left.  The
   programs themselves are in Programs.tla.

   What a program yields is a record named for the signal it writes in its
   output: "text", "list", "prompt", "scroll", or one of the effects "off",
   "ship" and "call". *)
EXTENDS Terminal

Quote == "\""

(* tokenize(): a new line separates tokens outside quotes; quotes must match.
   Each word is a token of its own unless it is quoted. *)
Unterminated(line) == Len(SelectSeq(line, LAMBDA c : c = Quote)) % 2 = 1
InQuotes(line, i) == Unterminated(SubSeq(line, 1, i))

(* The words of one token: all of a quoted region, or the word at `i`. *)
TokenAt(line, i) ==
    LET close == CHOOSE j \in (i + 1)..Len(line) :
                     line[j] = Quote /\ \A m \in (i + 1)..(j - 1) :
                                            line[m] # Quote
    IN IF line[i] = Quote THEN SubSeq(line, i + 1, close - 1) ELSE << line[i] >>

Opens(line, i) == line[i] = Quote /\ InQuotes(line, i)
Starts(line, i) ==
    Opens(line, i) \/ (line[i] \notin {Quote, NewLine} /\ ~InQuotes(line, i))

Tokenize(line) ==
    LET starts == SelectSeq([i \in 1..Len(line) |-> i],
                            LAMBDA i : Starts(line, i))
    IN [i \in 1..Len(starts) |-> TokenAt(line, starts[i])]

----------------------------------------------------------------------------
(* The interactive modes. *)

NoMode == [is |-> "none"]
Interactive(mode) == mode # NoMode

ListMode(y, prog) ==
    [is |-> "list", items |-> y.items, header |-> y.header, cursor |-> 1,
     offset |-> 0, prog |-> prog, context |-> y.context]
PromptMode(y, prog) ==
    [is |-> "prompt", text |-> <<>>, header |-> y.header, mask |-> y.mask,
     prog |-> prog, context |-> y.context]
ScrollMode(y) ==
    [is |-> "scroll", content |-> y.content,
     offset |-> IF y.bottom THEN Less(Len(y.content), Rows) ELSE 0]

ShownBy(mode) ==
    CASE mode.is = "list" -> ListShown(mode)
      [] mode.is = "prompt" -> PromptShown(mode)
      [] mode.is = "scroll" -> PagerShown(mode)

(* start_list(), start_list_valued(), start_text_prompt() and start_scroll();
   an empty list or pager is not entered. *)
ModeOf(y, prog) ==
    CASE y.is = "list" /\ y.items # <<>> -> ListMode(y, prog)
      [] y.is = "prompt" -> PromptMode(y, prog)
      [] y.is = "scroll" /\ y.content # <<>> -> ScrollMode(y)
      [] OTHER -> NoMode

TextOf(y, mode) ==
    CASE Interactive(mode) -> ShownBy(mode)
      [] y.is = "text" -> y.text
      [] OTHER -> "nothing to show" :> <<>>

(* handle_interactive_key(): the mode after the key, what to show for it (None:
   nothing), and what the program is to be called with (None: not at all). *)
Nothing == "nothing" :> <<>>
NoCall == [entry |-> "none"]

Handled(mode, shown, call) == [mode |-> mode, shown |-> shown, call |-> call]

Kept(mode, changed) ==
    Handled(changed, IF changed = mode THEN Nothing ELSE ShownBy(changed),
            NoCall)

InteractiveKey(mode, event) ==
    CASE event.key = "Cancel" ->
            Handled(NoMode, "cancelled" :> <<>>, NoCall)
      [] mode.is = "list" /\ event.key = "Enter" ->
            Handled(NoMode, Nothing,
                    [entry |-> "select", prog |-> mode.prog,
                     context |-> mode.context, value |-> Selected(mode)])
      [] mode.is = "prompt" /\ event.key = "Enter" ->
            Handled(NoMode, Nothing,
                    [entry |-> "submit", prog |-> mode.prog,
                     context |-> mode.context, value |-> mode.text])
      [] mode.is = "scroll" /\ event = Quit ->
            Handled(NoMode, Nothing, NoCall)
      [] mode.is = "list" -> Kept(mode, ListKey(mode, event))
      [] mode.is = "prompt" -> Kept(mode, PromptKey(mode, event))
      [] OTHER -> Kept(mode, PagerKey(mode, event))
=============================================================================
