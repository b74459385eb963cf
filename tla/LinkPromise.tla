---------------------------- MODULE LinkPromise ----------------------------
(***************************************************************************)
(* What the AT link engine promises the layer above it (the outcomes and   *)
(* invariants of core/src/modem/link.rs:34-45 and 134-144), with no wire,  *)
(* probe or timeout: commands are answered once each, in the order they    *)
(* were asked, and an answer tells the truth about what the modem did.     *)
(***************************************************************************)
EXTENDS Naturals, Sequences

CONSTANTS Commands

VARIABLES
    asked,          \* the commands submitted, in order
    answers,        \* the outcome of each, as far as given
    executed        \* what the modem made of each command

vars == <<asked, answers, executed>>

TypeOK ==
    /\ asked \in Seq(Commands)
    /\ answers \in Seq({"Ok", "Failed", "Unknown", "NotSent"})
    /\ executed \in [Commands -> {"No", "Ok", "Failed"}]

Init ==
    /\ asked = <<>>
    /\ answers = <<>>
    /\ executed = [c \in Commands |-> "No"]

Fresh(c) == \A i \in DOMAIN asked : asked[i] # c

Ask(c) ==
    /\ Fresh(c)
    /\ asked' = Append(asked, c)
    /\ UNCHANGED <<answers, executed>>

\* An unpowered modem refuses at once; nothing is waiting then.
Refuse(c) ==
    /\ Fresh(c)
    /\ Len(answers) = Len(asked)
    /\ asked' = Append(asked, c)
    /\ answers' = Append(answers, "NotSent")
    /\ UNCHANGED executed

\* One at a time and in order: nothing runs ahead of an unanswered command,
\* or after a later one, or after NotSent. It may run after Unknown.
Execute(i) ==
    /\ executed[asked[i]] = "No"
    /\ i <= Len(answers) + 1
    /\ i <= Len(answers) => answers[i] = "Unknown"
    /\ \A j \in i + 1 .. Len(asked) : executed[asked[j]] = "No"
    /\ \E r \in {"Ok", "Failed"} : executed' = [executed EXCEPT ![asked[i]] = r]
    /\ UNCHANGED <<asked, answers>>

Truth(i, outcome) ==
    CASE outcome \in {"Ok", "Failed"} -> executed[asked[i]] = outcome
      [] outcome = "NotSent" -> executed[asked[i]] = "No"
      [] outcome = "Unknown" -> TRUE

\* Answers for the next one or more commands; several only when the modem is
\* switched off.
Answer(upto) ==
    /\ upto \in Len(answers) + 1 .. Len(asked)
    /\ \E o \in [Len(answers) + 1 .. upto -> {"Ok", "Failed", "Unknown", "NotSent"}] :
          /\ \A i \in DOMAIN o : Truth(i, o[i])
          /\ answers' = [i \in 1 .. upto |-> IF i \in DOMAIN answers THEN answers[i] ELSE o[i]]
    /\ UNCHANGED <<asked, executed>>

Next ==
    \/ \E c \in Commands : Ask(c) \/ Refuse(c)
    \/ \E i \in DOMAIN asked : Execute(i) \/ Answer(i)

Spec == Init /\ [][Next]_vars
=============================================================================
