------------------------------ MODULE Console ------------------------------
(***************************************************************************)
(* What u3-tool and its user say to each other: the password prompts of    *)
(* main() and secure_input(), confirm(), and the hashing of what was       *)
(* typed.  One process at a time, from one terminal or pipe; a process     *)
(* killed while it hides the input leaves the terminal as it is.           *)
(*                                                                         *)
(* Input goes through two buffers: "typed" is what the terminal, or the    *)
(* pipe, holds, and TCSAFLUSH drops it on a terminal; "buf" is the line    *)
(* stdio has taken from it, which nothing but fgetc() empties.             *)
(***************************************************************************)
EXTENDS PasswordHash

CONSTANTS Lines,        \* what a user may type before return or end of file
          TypeAhead,    \* how many lines the terminal holds (a bound)
          KnownLength   \* strlen of the password of do_reset_security()

Chars == {"y", "n", "a", "FF"}    \* yes, no, any other, and byte 0xFF

LineEnds == {"NL", "EOF"}

ASSUME ConsoleAssumption ==
  /\ Lines \subseteq Seq(Chars)
  /\ TypeAhead \in Nat /\ KnownLength \in 0 .. MaxPassword

VARIABLES tty,       \* is stdin a terminal?
          echo,      \* does the terminal show what is typed?
          typed,     \* the lines typed and not yet read
          buf,       \* stdio's buffer of stdin
          shown,     \* was the line in buf shown while it was typed?
          eof,       \* stdio's end-of-file flag of stdin
          pc,        \* where the process is
          action,    \* what it was asked to do
          asking,    \* which password secure_input() was called for
          field,     \* buf[] of secure_input()
          given,     \* password[]
          new,       \* new_password[]
          c,         \* c of confirm()
          sure,      \* retval of confirm(), and whether it is done
          todo       \* the lengths still to be handed to u3_pass_to_hash()

terminal == <<tty, echo, typed>>
stdio == <<buf, shown, eof>>
prompts == <<asking, field, given, new>>
answers == <<c, sure>>
consoleVars == <<terminal, stdio, pc, action, prompts, answers, todo>>
vars == <<consoleVars, hashVars>>

Guesses == {"unlock", "change", "disable"}
Destroying == {"partition", "enable", "reset"}
Asks == Guesses \cup {"enable"}    \* the actions that ask for a password

Labels == {"idle", "hide", "read", "flush", "unhide", "switch", "sure", "drop", "hash", "close"}

Entry == [text : {Append(line, end) : line \in Lines, end \in LineEnds}, shown : BOOLEAN]

Fields == {f \in Seq(Chars) : Len(f) <= MaxPassword}

ConsoleTypeOK ==
  /\ tty \in BOOLEAN /\ echo \in BOOLEAN
  /\ typed \in Seq(Entry) /\ Len(typed) <= TypeAhead
  /\ buf \in Seq(Chars \cup LineEnds) /\ shown \in BOOLEAN /\ eof \in BOOLEAN
  /\ pc \in Labels /\ action \in Guesses \cup Destroying \cup {"none"}
  /\ asking \in {"password", "new", "validate"}
  /\ {field, given, new} \subseteq Fields
  /\ c \in Chars \cup LineEnds \cup {"none"} /\ sure \in {"asking", "yes", "no"}
  /\ todo \in Seq(0 .. MaxPassword)

TypeOK == HashTypeOK /\ ConsoleTypeOK

Init ==
  /\ tty \in BOOLEAN /\ echo = TRUE /\ typed = <<>>
  /\ buf = <<>> /\ shown = FALSE /\ eof = FALSE
  /\ pc = "idle" /\ action = "none"
  /\ asking = "password" /\ field = <<>> /\ given = <<>> /\ new = <<>>
  /\ c = "none" /\ sure = "asking" /\ todo = <<>>
  /\ HashInit

(* The process is gone, and its memory and stdio buffers with it.  The     *)
(* next one has the same terminal, or a pipe of its own.                   *)
Gone ==
  /\ typed' = IF tty THEN typed ELSE <<>>
  /\ buf' = <<>> /\ shown' = FALSE /\ eof' = FALSE
  /\ pc' = "idle" /\ action' = "none"
  /\ asking' = "password" /\ field' = <<>> /\ given' = <<>> /\ new' = <<>>
  /\ c' = "none" /\ sure' = "asking" /\ todo' = <<>>
  /\ HashGone
  /\ UNCHANGED <<tty, echo>>

GoTo(label) == pc' = label

-----------------------------------------------------------------------------
(* The user, or whatever writes to the pipe.                               *)

Type ==
  /\ Len(typed) < TypeAhead
  /\ \E line \in Lines, end \in LineEnds :
       typed' = Append(typed, [text |-> Append(line, end), shown |-> echo])
  /\ UNCHANGED <<tty, echo, stdio, pc, action, prompts, answers, todo, hashVars>>

(* ch is what fgetc(stdin) returns: the end of file once it was met, the   *)
(* next character stdio holds, or the first one of a line it waits for.    *)
NextIs(ch) ==
  \/ eof /\ ch = "EOF" /\ UNCHANGED <<stdio, typed>>
  \/ /\ ~eof /\ buf # <<>>
     /\ ch = Head(buf) /\ buf' = Tail(buf) /\ eof' = (ch = "EOF")
     /\ UNCHANGED <<shown, typed>>
  \/ /\ ~eof /\ buf = <<>> /\ typed # <<>>
     /\ LET line == Head(typed)
        IN  /\ ch = Head(line.text) /\ buf' = Tail(line.text) /\ eof' = (ch = "EOF")
            /\ shown' = line.shown
     /\ typed' = Tail(typed)

(* Mutant of SetEcho: TCSANOW, what was typed ahead stays.                 *)
SetEchoNow(on) ==
  /\ echo' = IF tty THEN on ELSE echo
  /\ UNCHANGED <<tty, typed>>

(* tcsetattr(STDIN_FILENO, TCSAFLUSH, ...); it does nothing to a pipe.     *)
SetEcho(on) ==
  /\ echo' = IF tty THEN on ELSE echo
  /\ typed' = IF tty THEN <<>> ELSE typed
  /\ UNCHANGED tty

-----------------------------------------------------------------------------
(* main(): the options are parsed and the device is opened; which prompts  *)
(* come first depends on the action.                                       *)
Start ==
  /\ pc = "idle"
  /\ \E a \in Guesses \cup Destroying :
       /\ action' = a
       /\ asking' = IF a = "enable" THEN "new" ELSE "password"
       /\ GoTo(IF a \in Asks THEN "hide" ELSE "switch")
  /\ UNCHANGED <<terminal, stdio, field, given, new, answers, todo, hashVars>>

-----------------------------------------------------------------------------
(* secure_input()                                                          *)

Hide ==
  /\ pc = "hide"
  /\ SetEcho(FALSE)
  /\ field' = <<>>
  /\ GoTo("read")
  /\ UNCHANGED <<stdio, action, asking, given, new, answers, todo, hashVars>>

(* Mutant of Room: the byte for the final NUL is not kept.                 *)
RoomForAll == Len(field) <= MaxPassword

Room == Len(field) < MaxPassword

Read ==
  /\ pc = "read"
  /\ \E ch \in Chars \cup LineEnds :
       /\ NextIs(ch)
       /\ \/ ch \in LineEnds /\ GoTo("unhide") /\ UNCHANGED field
          \/ ch \notin LineEnds /\ Room /\ field' = Append(field, ch) /\ UNCHANGED pc
          \/ ch \notin LineEnds /\ ~Room /\ GoTo("flush") /\ UNCHANGED field
  /\ UNCHANGED <<tty, echo, action, asking, given, new, answers, todo, hashVars>>

(* Mutant of Flush: the rest of the line is left where it is.              *)
FlushNothing ==
  /\ pc = "flush"
  /\ GoTo("unhide")
  /\ UNCHANGED <<terminal, stdio, action, prompts, answers, todo, hashVars>>

(* Mutant of Flush: it only ends at the end of a line.                     *)
FlushPastEof ==
  /\ pc = "flush"
  /\ \E ch \in Chars \cup LineEnds :
       /\ NextIs(ch)
       /\ IF ch = "NL" THEN GoTo("unhide") ELSE UNCHANGED pc
  /\ UNCHANGED <<tty, echo, action, prompts, answers, todo, hashVars>>

Flush ==
  /\ pc = "flush"
  /\ \E ch \in Chars \cup LineEnds :
       /\ NextIs(ch)
       /\ IF ch \in LineEnds THEN GoTo("unhide") ELSE UNCHANGED pc
  /\ UNCHANGED <<tty, echo, action, prompts, answers, todo, hashVars>>

(* What main() does with a password: an empty one, or two that differ, are *)
(* asked for again.                                                        *)
TakePassword ==
  /\ asking = "password"
  /\ given' = field /\ UNCHANGED new
  /\ \/ field = <<>> /\ GoTo("hide") /\ UNCHANGED asking
     \/ field # <<>> /\ action = "change" /\ asking' = "new" /\ GoTo("hide")
     \/ field # <<>> /\ action # "change" /\ GoTo("switch") /\ UNCHANGED asking

TakeNew ==
  /\ asking = "new"
  /\ new' = field /\ UNCHANGED given
  /\ GoTo("hide")
  /\ asking' = IF field = <<>> THEN "new" ELSE "validate"

Validate ==
  /\ asking = "validate"
  /\ \/ field = new /\ GoTo("switch") /\ UNCHANGED asking
     \/ field # new /\ GoTo("hide") /\ asking' = "new"
  /\ UNCHANGED <<given, new>>

(* Mutant of Unhide: the mode is set to what tcgetattr() said and hidden.  *)
UnhideNothing ==
  /\ pc = "unhide"
  /\ SetEcho(FALSE)
  /\ TakePassword \/ TakeNew \/ Validate
  /\ UNCHANGED <<stdio, action, field, answers, todo, hashVars>>

Unhide ==
  /\ pc = "unhide"
  /\ SetEcho(TRUE)
  /\ TakePassword \/ TakeNew \/ Validate
  /\ UNCHANGED <<stdio, action, field, answers, todo, hashVars>>

-----------------------------------------------------------------------------
(* main()'s switch: confirm() before what destroys data, and before a      *)
(* password's last try; a stick with no try left, or that does not answer, *)
(* ends the action.                                                        *)

Switch ==
  /\ pc = "switch"
  /\ \/ GoTo("sure")
     \/ action \in Guesses /\ GoTo("hash")
     \/ action \in Guesses /\ GoTo("close")
  /\ todo' = CASE action = "change" -> <<Len(given), Len(new)>>
               [] action = "enable" -> <<Len(new)>>
               [] action = "reset" -> <<KnownLength, KnownLength>>
               [] action = "partition" -> <<>>
               [] OTHER -> <<Len(given)>>
  /\ UNCHANGED <<terminal, stdio, action, prompts, answers, hashVars>>

(* c is a char: byte 0xFF compares equal to EOF.                           *)
EndsAnswer(ch) == ch \in LineEnds \cup {"FF"}

Decided(ch) == CASE ch = "y" -> "yes" [] ch = "n" -> "no" [] OTHER -> "asking"

(* Where the answer's last character leads: another question, or on.       *)
Answered(verdict) ==
  CASE verdict = "asking" -> "sure"
    [] verdict = "yes" -> "hash"
    [] verdict = "no" -> "close"

Sure ==
  /\ pc = "sure"
  /\ \E ch \in Chars \cup LineEnds :
       /\ NextIs(ch)
       /\ c' = ch /\ sure' = Decided(ch)
       /\ GoTo(IF EndsAnswer(ch) THEN Answered(Decided(ch)) ELSE "drop")
  /\ UNCHANGED <<tty, echo, action, prompts, todo, hashVars>>

Drop ==
  /\ pc = "drop"
  /\ \E ch \in Chars \cup LineEnds :
       /\ NextIs(ch)
       /\ c' = ch
       /\ GoTo(IF EndsAnswer(ch) THEN Answered(sure) ELSE "drop")
  /\ UNCHANGED <<tty, echo, action, prompts, sure, todo, hashVars>>

-----------------------------------------------------------------------------
(* The action's commands.  What destroys data may fail before a password   *)
(* is hashed, -R also between its two; the others hash first.              *)

Hash ==
  /\ pc = "hash"
  /\ \/ todo # <<>> /\ md5_starts(Head(todo)) /\ todo' = Tail(todo)
     \/ md5 /\ UNCHANGED todo
  /\ UNCHANGED <<terminal, stdio, pc, action, prompts, answers>>

Act ==
  /\ pc = "hash" /\ stage \in {"idle", "done"}
  /\ \/ todo = <<>>
     \/ action \in Destroying /\ stage = "idle"
     \/ action = "reset"
  /\ GoTo("close")
  /\ UNCHANGED <<terminal, stdio, action, prompts, answers, todo, hashVars>>

Close == pc = "close" /\ Gone

(* SIGKILL; SIGINT and SIGTERM only set "quit", which no prompt looks at.  *)
Killed == pc # "idle" /\ Gone

secure_input == Hide \/ Read \/ Flush \/ Unhide

confirm == Sure \/ Drop

Tool == secure_input \/ Switch \/ confirm \/ Hash \/ Act \/ Close

Next == Type \/ Start \/ Tool \/ Killed

Spec == Init /\ [][Next]_vars

(* The process runs, and the user answers a prompt that waits.             *)
FairSpec == Spec /\ WF_vars(Tool) /\ WF_vars(Type)

-----------------------------------------------------------------------------
(* Properties                                                              *)

(* A prompt is not answered by what is left of the line that answered the  *)
(* one before it, but for an answer to confirm() that has byte 0xFF in it. *)
LinesAreApart == pc \in {"hide", "switch"} \/ (pc = "sure" /\ c # "FF") => buf = <<>>

(* No character of a password was shown on the terminal while it was       *)
(* typed: what was typed ahead of the prompt, or between two prompts, is   *)
(* never taken for one.                                                    *)
PasswordNeverShown == tty /\ pc \in {"read", "flush", "unhide"} /\ field # <<>> => ~shown

(* A run that asked for a password and was not killed leaves the terminal  *)
(* showing what is typed, even one that found it hidden by a killed one.   *)
EchoComesBack ==
  action \in Asks /\ pc \in {"switch", "sure", "drop", "hash", "close"} => echo

(* The loops of secure_input() and confirm() wait for the user at most     *)
(* once, for the line a password begins with: then every turn takes one    *)
(* character of the rest of it, and a loop that goes on has one more.      *)
InLine == {"read", "flush", "drop"}

PromptAdvances ==
  [][ Tool /\ pc \in InLine /\ pc' \in InLine =>
        /\ buf' # <<>>
        /\ \/ Len(buf') < Len(buf)
           \/ buf = <<>> /\ pc = "read" /\ field = <<>> ]_vars

(* Every call of secure_input() and every loop of confirm() ends, also     *)
(* when the line is too long or the input ends in the middle of it.        *)
PromptEnds == pc \in InLine ~> pc \notin InLine

-----------------------------------------------------------------------------
(* The inductive invariant behind these properties.                        *)

(* At most one line, which ends where its only line end is.                *)
OneLine(text) == \A i \in 1 .. Len(text) : text[i] \in LineEnds <=> i = Len(text)

(* stdio holds the rest of one line, and none between two prompts.         *)
LineInv ==
  /\ \A i \in 1 .. Len(typed) : OneLine(typed[i].text) /\ typed[i].text # <<>>
  /\ OneLine(buf)
  /\ eof \/ pc \in {"idle", "hide", "unhide", "switch"} \/ (pc = "sure" /\ c # "FF") => buf = <<>>

(* While a password is typed, nothing that was shown can be read.          *)
HiddenInv ==
  tty /\ pc \in {"read", "flush", "unhide"} =>
    /\ ~echo
    /\ \A i \in 1 .. Len(typed) : ~typed[i].shown
    /\ field # <<>> \/ buf # <<>> => ~shown

(* Behind a prompt's first character there is the rest of its line.        *)
RestInv == pc \in {"flush", "drop"} \/ (pc = "read" /\ field # <<>>) => buf # <<>>

ConsoleInv == TypeOK /\ LineInv /\ RestInv /\ HiddenInv /\ EchoComesBack /\ (tty \/ echo)
=============================================================================
