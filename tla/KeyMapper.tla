------------------------------ MODULE KeyMapper ------------------------------
(* The key map and the modifier toggles of the keyboard,
   core/src/keymap.rs.  Every operator is pure: the input task (InputTask.tla)
   holds the mapper and feeds it what it reads from the keyboard chip.

   A printable key is named by its own character, and a character stands for a
   whole word, so that a command is a few presses.  The three modifiers, the
   two editing keys, the Mic key and an unmapped place of the matrix have names
   of their own. *)
CONSTANTS
    Plain,     \* KEYMAP: the printable keys, each named by its character
    SymLayer,  \* SYM_MAP: the character of each of them, and of Mic, under Sym
    Upper,     \* to_ascii_uppercase of each of them
    AltKeys    \* the Alt actions: a function from some of them to an event

SpecialKeys == {"SHIFT", "SYM", "ALT", "MIC", "BACKSPACE", "ENTER", "BLANK"}
Keys == Plain \cup SpecialKeys

ASSUME KeyMapAssumption ==
    /\ Plain \cap SpecialKeys = {}
    /\ DOMAIN SymLayer = Plain \cup {"MIC"}
    /\ DOMAIN Upper = Plain
    /\ DOMAIN AltKeys \subseteq Plain

Toggles == {"shift", "sym", "alt"}
NoModifiers == [t \in Toggles |-> FALSE]

Char(c) == [key |-> "Char", ch |-> c]
Special(name) == [key |-> name]
NoEvent == [key |-> "None"]

(* What process() returns and leaves behind: an event and the toggles. *)
Yields(event, mapper) == [event |-> event, mapper |-> mapper]
Flip(mapper, t) == [mapper EXCEPT ![t] = ~@]

(* KeyMapper::process() for a press.  Alt survives its scroll actions and is
   used up by Cancel and Lock; Shift is used up by Enter alone. *)
Pressed(mapper, k) ==
    CASE k = "SHIFT" -> Yields(NoEvent, Flip(mapper, "shift"))
      [] k = "SYM" -> Yields(NoEvent, Flip(mapper, "sym"))
      [] k = "ALT" -> Yields(NoEvent, Flip(mapper, "alt"))
      [] k = "BLANK" -> Yields(NoEvent, mapper)
      [] k = "MIC" ->
            Yields(IF mapper.sym THEN Char(SymLayer[k]) ELSE NoEvent, mapper)
      [] k = "BACKSPACE" ->
            IF mapper.alt
            THEN Yields(Special("Cancel"), [mapper EXCEPT !.alt = FALSE])
            ELSE Yields(Special("Backspace"), mapper)
      [] k = "ENTER" ->
            IF mapper.shift
            THEN Yields(Special("SoftEnter"), [mapper EXCEPT !.shift = FALSE])
            ELSE Yields(Special("Enter"), mapper)
      [] mapper.alt /\ k \in DOMAIN AltKeys ->
            Yields(Special(AltKeys[k]),
                   [mapper EXCEPT !.alt = AltKeys[k] # "Lock"])
      [] OTHER ->
            Yields(Char(IF mapper.sym THEN SymLayer[k]
                        ELSE IF mapper.shift THEN Upper[k] ELSE k), mapper)

(* process(): a release yields nothing. *)
Process(mapper, stroke) ==
    IF stroke.down THEN Pressed(mapper, stroke.k) ELSE Yields(NoEvent, mapper)
=============================================================================
