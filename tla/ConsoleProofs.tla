--------------------------- MODULE ConsoleProofs ---------------------------
(* Proofs about Console, for any lines a user may type, any type-ahead,    *)
(* and passwords of any length.                                            *)
EXTENDS Console, PasswordHashProofs

-----------------------------------------------------------------------------
(* Types.                                                                  *)

(* What fgetc() may return.                                                *)
Symbols == Chars \cup LineEnds

(* The initial values are of their types.                                  *)
LEMMA InitTypes ==
  /\ <<>> \in Fields /\ <<>> \in Seq(Entry) /\ <<>> \in Seq(Symbols)
  /\ <<>> \in Seq(0 .. MaxPassword) /\ 0 <= TypeAhead /\ Len(<<>>) = 0
<1>1. MaxPassword \in Nat /\ TypeAhead \in Nat
  BY PasswordHashAssumption, ConsoleAssumption
<1> QED BY <1>1 DEF Fields

(* Characters are read from lines, and lines from what was typed.          *)
LEMMA NextIsType ==
  ASSUME ConsoleTypeOK, NEW ch \in Symbols, NextIs(ch)
  PROVE  /\ buf' \in Seq(Symbols) /\ shown' \in BOOLEAN /\ eof' \in BOOLEAN
         /\ typed' \in Seq(Entry) /\ Len(typed') <= TypeAhead
<1>1. /\ buf \in Seq(Symbols) /\ shown \in BOOLEAN /\ eof \in BOOLEAN
      /\ typed \in Seq(Entry) /\ Len(typed) <= TypeAhead /\ TypeAhead \in Nat
  BY ConsoleAssumption DEF ConsoleTypeOK, Symbols
<1>2. CASE UNCHANGED <<stdio, typed>>
  BY <1>1, <1>2 DEF stdio
<1>3. CASE /\ buf # <<>> /\ buf' = Tail(buf) /\ eof' = (ch = "EOF")
           /\ UNCHANGED <<shown, typed>>
  BY <1>1, <1>3
<1>4. CASE /\ typed # <<>> /\ buf' = Tail(Head(typed).text) /\ eof' = (ch = "EOF")
           /\ shown' = Head(typed).shown /\ typed' = Tail(typed)
  <2>1. Head(typed) \in Entry
    BY <1>1, <1>4
  <2>2. PICK line \in Lines, end \in LineEnds : Head(typed).text = Append(line, end)
    BY <2>1 DEF Entry
  <2>3. line \in Seq(Symbols) /\ end \in Symbols
    BY <2>2, ConsoleAssumption DEF Symbols
  <2>4. Append(line, end) \in Seq(Symbols) /\ Append(line, end) # <<>>
    BY <2>3, AppendProperties
  <2>5. Tail(Head(typed).text) \in Seq(Symbols) /\ Head(typed).shown \in BOOLEAN
    BY <2>1, <2>2, <2>4 DEF Entry
  <2>6. Tail(typed) \in Seq(Entry) /\ Len(Tail(typed)) <= TypeAhead
    BY <1>1, <1>4
  <2> QED BY <1>4, <2>5, <2>6
<1> QED BY <1>2, <1>3, <1>4 DEF NextIs

(* A password's length is one u3_pass_to_hash() can be called with.        *)
LEMMA FieldLength ==
  ASSUME NEW f \in Fields
  PROVE  Len(f) \in 0 .. MaxPassword
BY PasswordHashAssumption DEF Fields

(* Every action keeps the types of the console.                            *)
LEMMA TypeType ==
  ASSUME ConsoleTypeOK, Type
  PROVE  ConsoleTypeOK'
<1>1. PICK line \in Lines, end \in LineEnds :
        typed' = Append(typed, [text |-> Append(line, end), shown |-> echo])
  BY DEF Type
<1>2. [text |-> Append(line, end), shown |-> echo] \in Entry
  BY DEF Entry, ConsoleTypeOK
<1>3. typed' \in Seq(Entry) /\ Len(typed') <= TypeAhead
  BY <1>1, <1>2, ConsoleAssumption DEF ConsoleTypeOK, Type
<1> QED BY <1>3 DEF ConsoleTypeOK, Type, stdio, prompts, answers

(* Starting and ending a run keep the types of the console.                *)
LEMMA RunType ==
  ASSUME ConsoleTypeOK, Start \/ Close \/ Killed
  PROVE  ConsoleTypeOK'
<1>1. CASE Start
  BY <1>1 DEF Start, ConsoleTypeOK, terminal, stdio, answers, Labels, GoTo
<1>2. CASE Gone
  <2>1. typed' \in Seq(Entry) /\ Len(typed') <= TypeAhead
    BY <1>2, InitTypes DEF Gone, ConsoleTypeOK
  <2>2. /\ buf' \in Seq(Symbols) /\ {field', given', new'} \subseteq Fields /\ todo' \in Seq(0 .. MaxPassword)
    BY <1>2, InitTypes DEF Gone
  <2> QED BY <1>2, <2>1, <2>2 DEF Gone, ConsoleTypeOK, Labels, Symbols
<1> QED BY <1>1, <1>2 DEF Close, Killed

(* secure_input() keeps the types of the console.                          *)
LEMMA SecureInputType ==
  ASSUME ConsoleTypeOK, secure_input
  PROVE  ConsoleTypeOK'
<1>1. CASE Hide
  <2>1. typed' \in Seq(Entry) /\ Len(typed') <= TypeAhead /\ echo' \in BOOLEAN /\ UNCHANGED tty
    BY <1>1, InitTypes DEF Hide, SetEcho, ConsoleTypeOK
  <2>2. field' \in Fields
    BY <1>1, InitTypes DEF Hide
  <2> QED BY <1>1, <2>1, <2>2 DEF Hide, ConsoleTypeOK, stdio, answers, Labels, GoTo
<1>2. CASE Read
  <2>1. PICK ch \in Symbols :
          /\ NextIs(ch)
          /\ \/ ch \in LineEnds /\ GoTo("unhide") /\ UNCHANGED field
             \/ ch \notin LineEnds /\ Room /\ field' = Append(field, ch) /\ UNCHANGED pc
             \/ ch \notin LineEnds /\ ~Room /\ GoTo("flush") /\ UNCHANGED field
    BY <1>2 DEF Read, Symbols
  <2>2. field' \in Fields /\ pc' \in Labels
    <3>1. CASE ch \notin LineEnds /\ Room /\ field' = Append(field, ch) /\ UNCHANGED pc
      <4>1. ch \in Chars /\ field \in Seq(Chars) /\ Len(field) < MaxPassword /\ MaxPassword \in Nat
        BY <3>1, PasswordHashAssumption DEF Symbols, Room, ConsoleTypeOK, Fields
      <4> QED BY <3>1, <4>1 DEF Fields, ConsoleTypeOK
    <3> QED BY <2>1, <3>1 DEF ConsoleTypeOK, Labels, GoTo
  <2>3. /\ buf' \in Seq(Symbols) /\ shown' \in BOOLEAN /\ eof' \in BOOLEAN
        /\ typed' \in Seq(Entry) /\ Len(typed') <= TypeAhead
    BY <2>1, NextIsType
  <2> QED BY <1>2, <2>2, <2>3 DEF Read, ConsoleTypeOK, answers, Symbols
<1>3. CASE Flush
  <2>1. PICK ch \in Symbols : NextIs(ch) /\ IF ch \in LineEnds THEN GoTo("unhide") ELSE UNCHANGED pc
    BY <1>3 DEF Flush, Symbols
  <2>2. pc' \in Labels
    BY <2>1 DEF ConsoleTypeOK, Labels, GoTo
  <2>3. /\ buf' \in Seq(Symbols) /\ shown' \in BOOLEAN /\ eof' \in BOOLEAN
        /\ typed' \in Seq(Entry) /\ Len(typed') <= TypeAhead
    BY <2>1, NextIsType
  <2> QED BY <1>3, <2>2, <2>3 DEF Flush, ConsoleTypeOK, answers, prompts, Symbols
<1>4. CASE Unhide
  <2>1. typed' \in Seq(Entry) /\ Len(typed') <= TypeAhead /\ echo' \in BOOLEAN /\ UNCHANGED tty
    BY <1>4, InitTypes DEF Unhide, SetEcho, ConsoleTypeOK
  <2>2. /\ given' \in Fields /\ new' \in Fields /\ pc' \in Labels
        /\ asking' \in {"password", "new", "validate"}
    BY <1>4 DEF Unhide, TakePassword, TakeNew, Validate, ConsoleTypeOK, Labels, GoTo
  <2> QED BY <1>4, <2>1, <2>2 DEF Unhide, ConsoleTypeOK, stdio, answers
<1> QED BY <1>1, <1>2, <1>3, <1>4 DEF secure_input

(* The switch and confirm() keep the types of the console.                 *)
LEMMA ConfirmType ==
  ASSUME ConsoleTypeOK, Switch \/ confirm
  PROVE  ConsoleTypeOK'
<1>1. CASE Switch
  <2>1. /\ Len(given) \in 0 .. MaxPassword /\ Len(new) \in 0 .. MaxPassword
        /\ KnownLength \in 0 .. MaxPassword
    BY FieldLength, ConsoleAssumption DEF ConsoleTypeOK
  <2>2. todo' \in Seq(0 .. MaxPassword)
    <3> DEFINE S == 0 .. MaxPassword
    <3>1. <<Len(given), Len(new)>> \in Seq(S) /\ <<Len(new)>> \in Seq(S) /\ <<Len(given)>> \in Seq(S)
          /\ <<KnownLength, KnownLength>> \in Seq(S) /\ <<>> \in Seq(S)
      <4> HIDE DEF S
      <4>1. Len(given) \in S /\ Len(new) \in S /\ KnownLength \in S
        BY <2>1 DEF S
      <4> QED BY <4>1
    <3>2. todo' \in {<<Len(given), Len(new)>>, <<Len(new)>>, <<Len(given)>>, <<KnownLength, KnownLength>>, <<>>}
      BY <1>1, Zenon DEF Switch
    <3> QED BY <3>1, <3>2
  <2>3. pc' \in Labels
    BY <1>1 DEF Switch, GoTo, Labels
  <2> QED BY <1>1, <2>2, <2>3 DEF Switch, ConsoleTypeOK, terminal, stdio, prompts, answers
<1>2. CASE Sure
  <2>1. PICK ch \in Symbols : /\ NextIs(ch) /\ c' = ch /\ sure' = Decided(ch)
                             /\ GoTo(IF EndsAnswer(ch) THEN Answered(Decided(ch)) ELSE "drop")
    BY <1>2 DEF Sure, Symbols
  <2>2. pc' \in Labels /\ sure' \in {"asking", "yes", "no"}
    BY <2>1 DEF Labels, GoTo, Answered, Decided
  <2>3. /\ buf' \in Seq(Symbols) /\ shown' \in BOOLEAN /\ eof' \in BOOLEAN
        /\ typed' \in Seq(Entry) /\ Len(typed') <= TypeAhead
    BY <2>1, NextIsType
  <2> QED BY <1>2, <2>1, <2>2, <2>3 DEF Sure, ConsoleTypeOK, prompts, Symbols
<1>3. CASE Drop
  <2>1. PICK ch \in Symbols : /\ NextIs(ch) /\ c' = ch
                             /\ GoTo(IF EndsAnswer(ch) THEN Answered(sure) ELSE "drop")
    BY <1>3 DEF Drop, Symbols
  <2>2. pc' \in Labels
    BY <2>1 DEF Labels, GoTo, Answered, ConsoleTypeOK
  <2>3. /\ buf' \in Seq(Symbols) /\ shown' \in BOOLEAN /\ eof' \in BOOLEAN
        /\ typed' \in Seq(Entry) /\ Len(typed') <= TypeAhead
    BY <2>1, NextIsType
  <2> QED BY <1>3, <2>1, <2>2, <2>3 DEF Drop, ConsoleTypeOK, prompts, Symbols
<1> QED BY <1>1, <1>2, <1>3 DEF confirm

(* Hashing and sending keep the types of the console.                      *)
LEMMA ActType ==
  ASSUME ConsoleTypeOK, Hash \/ Act
  PROVE  ConsoleTypeOK'
<1>1. todo' \in Seq(0 .. MaxPassword)
  <2> DEFINE S == 0 .. MaxPassword
  <2>1. todo \in Seq(S) /\ (todo' = todo \/ (todo # <<>> /\ todo' = Tail(todo)))
    BY DEF Hash, Act, ConsoleTypeOK
  <2> HIDE DEF S
  <2>2. todo' \in Seq(S)
    BY <2>1
  <2> QED BY <2>2 DEF S
<1>2. pc' \in Labels
  BY DEF Hash, Act, ConsoleTypeOK, Labels, GoTo
<1> QED BY <1>1, <1>2 DEF Hash, Act, ConsoleTypeOK, terminal, stdio, prompts, answers

(* The console starts type-correct and stays so.                           *)
LEMMA ConsoleTypeStep ==
  ASSUME ConsoleTypeOK, [Next]_vars
  PROVE  ConsoleTypeOK'
<1>1. CASE UNCHANGED vars
  BY <1>1 DEF vars, consoleVars, terminal, stdio, prompts, answers, ConsoleTypeOK
<1> QED BY <1>1, TypeType, RunType, SecureInputType, ConfirmType, ActType DEF Next, Tool
-----------------------------------------------------------------------------
(* The console computes hashes, and does nothing else to them.             *)

(* Every step of the console is one of the hash, or leaves it alone.       *)
LEMMA StepHashes ==
  ASSUME ConsoleTypeOK, [Next]_vars
  PROVE  [HashNext]_hashVars
<1>1. CASE Type \/ Start \/ secure_input \/ Switch \/ confirm \/ Act \/ UNCHANGED vars
  BY <1>1 DEF Type, Start, secure_input, Hide, Read, Flush, Unhide, Switch, confirm, Sure, Drop, Act, vars
<1>2. CASE Gone
  BY <1>2 DEF Gone, HashNext
<1>3. CASE Hash
  <2>1. CASE todo # <<>> /\ md5_starts(Head(todo))
    <3>1. Head(todo) \in 0 .. MaxPassword
      <4> DEFINE S == 0 .. MaxPassword
      <4>1. todo \in Seq(S)
        BY DEF ConsoleTypeOK
      <4> HIDE DEF S
      <4>2. Head(todo) \in S
        BY <2>1, <4>1
      <4> QED BY <4>2 DEF S
    <3> QED BY <2>1, <3>1 DEF HashNext
  <2> QED BY <1>3, <2>1 DEF Hash, HashNext
<1> QED BY <1>1, <1>2, <1>3 DEF Next, Tool, Close, Killed

-----------------------------------------------------------------------------
(* Lines.                                                                  *)

(* What is left of a line is one, and nothing is left behind its end.      *)
LEMMA TailOfLine ==
  ASSUME NEW S, NEW text \in Seq(S), text # <<>>, OneLine(text)
  PROVE  /\ OneLine(Tail(text))
         /\ Head(text) \in LineEnds => Tail(text) = <<>>
         /\ Head(text) \notin LineEnds => Tail(text) # <<>>
         /\ Len(Tail(text)) < Len(text)
<1> DEFINE n == Len(text)
<1>1. n \in Nat /\ n >= 1 /\ Len(Tail(text)) = n - 1
  OBVIOUS
<1>2. Head(text) = text[1] /\ \A i \in 1 .. n - 1 : Tail(text)[i] = text[i + 1]
  BY <1>1
<1>3. \A j \in 1 .. n : (text[j] \in LineEnds) <=> (j = n)
  BY DEF OneLine
<1> HIDE DEF n
<1>4. OneLine(Tail(text))
  <2>1. ASSUME NEW i \in 1 .. n - 1 PROVE (Tail(text)[i] \in LineEnds) <=> (i = n - 1)
    <3>1. i + 1 \in 1 .. n
      BY <1>1
    <3>2. (text[i + 1] \in LineEnds) <=> (i + 1 = n)
      BY ONLY <1>3, <3>1
    <3>3. (i + 1 = n) <=> (i = n - 1)
      BY <1>1
    <3> QED BY ONLY <1>2, <3>2, <3>3, <2>1
  <2> QED BY <1>1, <2>1 DEF OneLine
<1>5. ASSUME Head(text) \in LineEnds PROVE Tail(text) = <<>>
  <2>1. 1 \in 1 .. n
    BY <1>1
  <2>2. n = 1
    <3>1. text[1] \in LineEnds
      BY <1>2, <1>5
    <3>2. (text[1] \in LineEnds) <=> (1 = n)
      BY ONLY <1>3, <2>1
    <3>3. 1 = n
      BY <3>1, <3>2, Zenon
    <3> QED BY <3>3, Zenon
  <2>3. Len(Tail(text)) = 0 /\ Tail(text) \in Seq(S)
    <3>1. Tail(text) \in Seq(S)
      OBVIOUS
    <3> QED BY <1>1, <2>2, <3>1
  <2> QED BY <2>3, EmptySeq
<1>6. ASSUME Head(text) \notin LineEnds PROVE Tail(text) # <<>>
  <2>1. 1 \in 1 .. n
    BY <1>1
  <2>2. (text[1] \in LineEnds) <=> (1 = n)
    BY ONLY <1>3, <2>1
  <2>3. n # 1
    BY <1>2, <1>6, <2>2
  <2>4. n - 1 # 0
    BY <1>1, <2>3
  <2> QED BY <1>1, <2>4, EmptySeq
<1>7. Len(Tail(text)) < Len(text)
  BY <1>1 DEF n
<1> QED BY <1>4, <1>5, <1>6, <1>7

(* The conditions on the two buffers.                                      *)
LinesTyped == \A i \in 1 .. Len(typed) : OneLine(typed[i].text) /\ typed[i].text # <<>>

(* fgetc() reads on in one line, and leaves nothing behind its end.        *)
LEMMA NextIsLine ==
  ASSUME ConsoleTypeOK, LinesTyped, OneLine(buf), eof => buf = <<>>, NEW ch \in Symbols, NextIs(ch)
  PROVE  /\ LinesTyped' /\ OneLine(buf') /\ (eof' => buf' = <<>>)
         /\ ch \in LineEnds => buf' = <<>>
<1>1. buf \in Seq(Symbols) /\ typed \in Seq(Entry) /\ eof \in BOOLEAN
  BY DEF ConsoleTypeOK, Symbols
<1>2. CASE eof /\ ch = "EOF" /\ UNCHANGED <<stdio, typed>>
  BY <1>2 DEF stdio, LinesTyped, OneLine
<1>3. CASE /\ ~eof /\ buf # <<>> /\ ch = Head(buf) /\ buf' = Tail(buf) /\ eof' = (ch = "EOF")
           /\ UNCHANGED <<shown, typed>>
  <2>1. OneLine(buf') /\ (ch \in LineEnds => buf' = <<>>)
    BY <1>1, <1>3, TailOfLine
  <2>2. eof' => buf' = <<>>
    BY <1>3, <2>1 DEF LineEnds
  <2>3. LinesTyped'
    BY <1>3 DEF LinesTyped
  <2> QED BY <2>1, <2>2, <2>3
<1>4. CASE /\ ~eof /\ buf = <<>> /\ typed # <<>>
           /\ ch = Head(Head(typed).text) /\ buf' = Tail(Head(typed).text)
           /\ eof' = (ch = "EOF") /\ shown' = Head(typed).shown
           /\ typed' = Tail(typed)
  <2> DEFINE line == Head(typed).text
  <2>1. /\ Head(typed) = typed[1] /\ 1 \in 1 .. Len(typed) /\ Head(typed) \in Entry
        /\ Len(Tail(typed)) = Len(typed) - 1 /\ Len(typed) \in Nat
        /\ \A i \in 1 .. Len(Tail(typed)) : Tail(typed)[i] = typed[i + 1] /\ i + 1 \in 1 .. Len(typed)
    BY <1>1, <1>4
  <2>2. OneLine(line) /\ line # <<>>
    BY <2>1 DEF LinesTyped
  <2>3. line \in Seq(Symbols)
    <3>1. PICK l \in Lines, end \in LineEnds : line = Append(l, end)
      BY <2>1 DEF Entry
    <3>2. l \in Seq(Symbols) /\ end \in Symbols
      BY <3>1, ConsoleAssumption DEF Symbols
    <3> QED BY <3>1, <3>2, AppendProperties
  <2> HIDE DEF line
  <2>4. buf' = Tail(line) /\ ch = Head(line)
    BY <1>4 DEF line
  <2>5. OneLine(buf') /\ (ch \in LineEnds => buf' = <<>>)
    BY <2>2, <2>3, <2>4, TailOfLine
  <2>6. eof' => buf' = <<>>
    BY <1>4, <2>5 DEF LineEnds
  <2>7. LinesTyped'
    BY <1>4, <2>1 DEF LinesTyped
  <2> QED BY <2>5, <2>6, <2>7
<1> QED BY <1>2, <1>3, <1>4 DEF NextIs

(* What is read is the end of a line, or there is more of the line, less   *)
(* than there was if the line had begun.                                   *)
LEMMA NextIsRest ==
  ASSUME ConsoleTypeOK, LineInv, NEW ch \in Symbols, NextIs(ch), ch \notin LineEnds
  PROVE  /\ buf' # <<>>
         /\ buf # <<>> => Len(buf') < Len(buf)
<1>1. buf \in Seq(Symbols) /\ typed \in Seq(Entry) /\ OneLine(buf) /\ LinesTyped
  BY DEF ConsoleTypeOK, Symbols, LineInv, LinesTyped
<1>2. CASE buf # <<>> /\ ch = Head(buf) /\ buf' = Tail(buf)
  BY <1>1, <1>2, TailOfLine
<1>3. CASE buf = <<>> /\ typed # <<>> /\ ch = Head(Head(typed).text) /\ buf' = Tail(Head(typed).text)
  <2> DEFINE line == Head(typed).text
  <2>1. Head(typed) = typed[1] /\ 1 \in 1 .. Len(typed) /\ Head(typed) \in Entry
    BY <1>1, <1>3
  <2>2. OneLine(line) /\ line # <<>>
    BY <1>1, <2>1 DEF LinesTyped
  <2>3. line \in Seq(Symbols)
    <3>1. PICK l \in Lines, end \in LineEnds : line = Append(l, end)
      BY <2>1 DEF Entry
    <3>2. l \in Seq(Symbols) /\ end \in Symbols
      BY <3>1, ConsoleAssumption DEF Symbols
    <3> QED BY <3>1, <3>2, AppendProperties
  <2>4. ch = Head(line) /\ buf' = Tail(line)
    BY <1>3
  <2> HIDE DEF line
  <2> QED BY <1>3, <2>2, <2>3, <2>4, TailOfLine
<1>4. ch # "EOF"
  BY DEF LineEnds
<1> QED BY <1>2, <1>3, <1>4 DEF NextIs, LineEnds

(* A line that was typed is one line.                                      *)
LEMMA TypedLine ==
  ASSUME NEW line \in Lines, NEW end \in LineEnds
  PROVE  OneLine(Append(line, end)) /\ Append(line, end) # <<>>
<1>1. line \in Seq(Symbols) /\ end \in Symbols /\ line \in Seq(Chars)
  BY ConsoleAssumption DEF Symbols
<1>2. /\ Len(Append(line, end)) = Len(line) + 1 /\ Append(line, end) # <<>>
      /\ \A i \in 1 .. Len(line) : Append(line, end)[i] = line[i]
      /\ Append(line, end)[Len(line) + 1] = end /\ Len(line) \in Nat
  BY <1>1, AppendProperties
<1>3. \A i \in 1 .. Len(line) : line[i] \in Chars
  BY <1>1
<1>4. Chars \cap LineEnds = {}
  BY DEF Chars, LineEnds
<1>5. ASSUME NEW i \in 1 .. Len(line) + 1
      PROVE  (Append(line, end)[i] \in LineEnds) <=> (i = Len(line) + 1)
  <2>1. CASE i = Len(line) + 1
    BY <1>2, <2>1
  <2>2. CASE i # Len(line) + 1
    <3>1. i \in 1 .. Len(line)
      BY <1>2, <2>2
    <3>2. Append(line, end)[i] \in Chars
      BY <1>2, <1>3, <3>1
    <3> QED BY <1>4, <2>2, <3>2
  <2> QED BY <2>1, <2>2
<1> QED BY <1>2, <1>5 DEF OneLine

(* Every step keeps the lines apart.                                       *)
LEMMA LineStep ==
  ASSUME ConsoleTypeOK, LineInv, [Next]_vars
  PROVE  LineInv'
<1>1. LinesTyped /\ OneLine(buf) /\ (eof => buf = <<>>)
  BY DEF LineInv, LinesTyped
<1>2. OneLine(<<>>)
  BY DEF OneLine
<1>3. (LinesTyped /\ OneLine(buf) /\ (eof \/ pc \in {"idle", "hide", "unhide", "switch"} \/ (pc = "sure" /\ c # "FF") => buf = <<>>))'
        => LineInv'
  BY DEF LineInv, LinesTyped
<1>4. CASE Type
  <2>1. PICK line \in Lines, end \in LineEnds :
          typed' = Append(typed, [text |-> Append(line, end), shown |-> echo])
    BY <1>4 DEF Type
  <2> DEFINE entry == [text |-> Append(line, end), shown |-> echo]
  <2>2. entry \in Entry /\ OneLine(entry.text) /\ entry.text # <<>> /\ typed \in Seq(Entry)
    <3>1. entry.text = Append(line, end) /\ echo \in BOOLEAN /\ typed \in Seq(Entry)
      BY DEF ConsoleTypeOK
    <3>2. entry \in Entry
      BY <3>1 DEF Entry
    <3> QED BY <3>1, <3>2, TypedLine
  <2> HIDE DEF entry
  <2>3. /\ Len(typed') = Len(typed) + 1 /\ Len(typed) \in Nat
        /\ \A i \in 1 .. Len(typed) : typed'[i] = typed[i]
        /\ typed'[Len(typed) + 1] = entry
    BY <2>1, <2>2, AppendProperties DEF entry
  <2>4. LinesTyped'
    <3> SUFFICES ASSUME NEW i \in 1 .. Len(typed') PROVE OneLine(typed'[i].text) /\ typed'[i].text # <<>>
      BY DEF LinesTyped, OneLine
    <3>1. i \in 1 .. Len(typed) \/ i = Len(typed) + 1
      BY <2>3
    <3> QED BY <1>1, <2>2, <2>3, <3>1 DEF LinesTyped
  <2> QED BY <1>1, <1>3, <1>4, <2>4 DEF Type, stdio, answers, LineInv, OneLine
<1>5. CASE Gone
  <2>1. LinesTyped'
    BY <1>1, <1>5 DEF Gone, LinesTyped, OneLine
  <2>2. buf' = <<>> /\ OneLine(buf')
    BY <1>2, <1>5 DEF Gone
  <2> QED BY <1>3, <2>1, <2>2
<1>6. CASE Start
  <2>1. UNCHANGED <<typed, buf, eof, c>> /\ pc = "idle"
    BY <1>6 DEF Start, terminal, stdio, answers
  <2>2. buf' = <<>> /\ OneLine(buf')
    BY <1>2, <2>1 DEF LineInv
  <2>3. LinesTyped'
    BY <1>1, <2>1 DEF LinesTyped, OneLine
  <2> QED BY <1>3, <2>2, <2>3
<1>7. CASE Hide \/ Unhide
  <2>1. UNCHANGED <<buf, eof, c>> /\ pc \in {"hide", "unhide"} /\ (typed' = typed \/ typed' = <<>>)
    BY <1>7 DEF Hide, Unhide, SetEcho, stdio, answers
  <2>2. buf' = <<>> /\ OneLine(buf')
    BY <1>2, <2>1 DEF LineInv
  <2>3. LinesTyped'
    BY <1>1, <2>1 DEF LinesTyped, OneLine
  <2> QED BY <1>3, <2>2, <2>3
<1>8. CASE Read
  <2>1. PICK ch \in Symbols : NextIs(ch) /\ (pc' \in {"read", "flush"} \/ ch \in LineEnds)
    BY <1>8 DEF Read, Symbols, GoTo
  <2>2. LinesTyped' /\ OneLine(buf') /\ (eof' => buf' = <<>>) /\ (ch \in LineEnds => buf' = <<>>)
    BY <1>1, <2>1, NextIsLine
  <2> QED BY <1>3, <2>1, <2>2
<1>9. CASE Flush
  <2>1. PICK ch \in Symbols : NextIs(ch) /\ (pc' = "flush" \/ ch \in LineEnds)
    BY <1>9 DEF Flush, Symbols, GoTo
  <2>2. LinesTyped' /\ OneLine(buf') /\ (eof' => buf' = <<>>) /\ (ch \in LineEnds => buf' = <<>>)
    BY <1>1, <2>1, NextIsLine
  <2> QED BY <1>3, <2>1, <2>2
<1>10. CASE Sure \/ Drop
  <2>1. PICK ch \in Symbols : NextIs(ch) /\ c' = ch /\ (pc' \in {"drop", "hash", "close"} \/ pc' = "sure")
                               /\ (pc' = "sure" => ch \in LineEnds \cup {"FF"})
    BY <1>10 DEF Sure, Drop, Symbols, GoTo, EndsAnswer, Answered, Decided, ConsoleTypeOK
  <2>2. LinesTyped' /\ OneLine(buf') /\ (eof' => buf' = <<>>) /\ (ch \in LineEnds => buf' = <<>>)
    BY <1>1, <2>1, NextIsLine
  <2> QED BY <1>3, <2>1, <2>2
<1>11. CASE Switch
  <2>1. UNCHANGED <<typed, buf, eof, c>> /\ pc = "switch"
    BY <1>11 DEF Switch, terminal, stdio, answers
  <2>2. buf' = <<>> /\ OneLine(buf')
    BY <1>2, <2>1 DEF LineInv
  <2>3. LinesTyped'
    BY <1>1, <2>1 DEF LinesTyped, OneLine
  <2> QED BY <1>3, <2>2, <2>3
<1>12. CASE Hash \/ Act \/ UNCHANGED vars
  <2>1. UNCHANGED <<typed, buf, eof, c>> /\ (pc' = pc \/ pc' = "close")
    BY <1>12 DEF Hash, Act, vars, consoleVars, terminal, stdio, answers, GoTo
  <2>2. LinesTyped' /\ OneLine(buf')
    BY <1>1, <2>1 DEF LinesTyped, OneLine
  <2> QED BY <1>3, <2>1, <2>2 DEF LineInv
<1> QED BY <1>4, <1>5, <1>6, <1>7, <1>8, <1>9, <1>10, <1>11, <1>12
        DEF Next, Tool, secure_input, confirm, Close, Killed

(* A prompt that has begun with a line has the rest of it before it.       *)
LEMMA MoreStep ==
  ASSUME ConsoleTypeOK, LineInv, RestInv, [Next]_vars
  PROVE  RestInv'
<1>1. CASE Type \/ Hash \/ Act \/ UNCHANGED vars
  <2>1. UNCHANGED <<buf, field>> /\ (pc' = pc \/ pc' = "close")
    BY <1>1 DEF Type, Hash, Act, vars, consoleVars, stdio, prompts, GoTo
  <2> QED BY <2>1 DEF RestInv
<1>2. CASE Start \/ Unhide \/ Switch \/ Gone
  <2>1. pc' \notin {"read", "flush", "drop"}
    BY <1>2 DEF Start, Unhide, TakePassword, TakeNew, Validate, Switch, Gone, GoTo
  <2> QED BY <2>1 DEF RestInv
<1>3. CASE Hide
  BY <1>3 DEF Hide, GoTo, RestInv
<1>4. CASE Read \/ Flush \/ Sure \/ Drop
  <2>1. PICK ch \in Symbols : NextIs(ch) /\ (ch \in LineEnds => pc' \notin {"read", "flush", "drop"})
    BY <1>4 DEF Read, Flush, Sure, Drop, Symbols, GoTo, EndsAnswer, Answered, Decided, ConsoleTypeOK
  <2>2. ch \notin LineEnds => buf' # <<>>
    BY <2>1, NextIsRest
  <2> QED BY <2>1, <2>2 DEF RestInv
<1> QED BY <1>1, <1>2, <1>3, <1>4 DEF Next, Tool, secure_input, confirm, Close, Killed

(* Every turn of a prompt's loop that does not end it takes a character.   *)
LEMMA PromptStep ==
  ASSUME ConsoleTypeOK, LineInv, RestInv, Tool, pc \in InLine, pc' \in InLine
  PROVE  /\ buf' # <<>>
         /\ Len(buf') < Len(buf) \/ (buf = <<>> /\ pc = "read" /\ field = <<>>)
<1>1. Read \/ Flush \/ Drop
  BY DEF Tool, secure_input, confirm, Hide, Unhide, Switch, Sure, Hash, Act, Close, InLine
<1>2. PICK ch \in Symbols : NextIs(ch) /\ (ch \in LineEnds => pc' \notin InLine)
  BY <1>1 DEF Read, Flush, Drop, Symbols, GoTo, EndsAnswer, Answered, ConsoleTypeOK, InLine
<1>3. buf' # <<>> /\ (buf # <<>> => Len(buf') < Len(buf))
  BY <1>2, NextIsRest
<1> QED BY <1>3 DEF RestInv, InLine

-----------------------------------------------------------------------------
(* The echo.                                                               *)

(* What the lines waiting to be read were typed under.                     *)
NoneShown == \A i \in 1 .. Len(typed) : ~typed[i].shown

(* Reading shown or hidden lines, one by one.                              *)
LEMMA NextIsHidden ==
  ASSUME ConsoleTypeOK, NoneShown, buf # <<>> => ~shown, NEW ch \in Symbols, NextIs(ch)
  PROVE  NoneShown' /\ (ch # "EOF" \/ buf' # <<>> => ~shown')
<1>1. typed \in Seq(Entry)
  BY DEF ConsoleTypeOK
<1>2. CASE eof /\ ch = "EOF" /\ UNCHANGED <<stdio, typed>>
  BY <1>2 DEF stdio, NoneShown
<1>3. CASE buf # <<>> /\ UNCHANGED <<shown, typed>>
  BY <1>3 DEF NoneShown
<1>4. CASE typed # <<>> /\ shown' = Head(typed).shown /\ typed' = Tail(typed)
  <2>1. /\ Head(typed) = typed[1] /\ 1 \in 1 .. Len(typed)
        /\ \A i \in 1 .. Len(Tail(typed)) : Tail(typed)[i] = typed[i + 1] /\ i + 1 \in 1 .. Len(typed)
    BY <1>1, <1>4
  <2> QED BY <1>4, <2>1 DEF NoneShown
<1> QED BY <1>2, <1>3, <1>4 DEF NextIs

(* While a password is read, nothing shown gets to where it is read from.  *)
LEMMA HiddenStep ==
  ASSUME ConsoleTypeOK, LineInv, HiddenInv, [Next]_vars
  PROVE  HiddenInv'
<1> DEFINE Reading == {"read", "flush", "unhide"}
<1>1. SUFFICES ASSUME tty', pc' \in Reading
               PROVE  /\ ~echo' /\ NoneShown'
                      /\ field' # <<>> \/ buf' # <<>> => ~shown'
  BY DEF HiddenInv, NoneShown
<1>2. ASSUME tty, pc \in Reading
      PROVE  ~echo /\ NoneShown /\ (field # <<>> \/ buf # <<>> => ~shown)
  BY <1>2 DEF HiddenInv, NoneShown
<1>3. CASE Type
  <2>1. PICK line \in Lines, end \in LineEnds :
          typed' = Append(typed, [text |-> Append(line, end), shown |-> echo])
    BY <1>3 DEF Type
  <2> DEFINE entry == [text |-> Append(line, end), shown |-> echo]
  <2>2. UNCHANGED <<tty, echo, buf, shown, pc, field>>
    BY <1>3 DEF Type, stdio, prompts
  <2>3. ~entry.shown /\ ~echo /\ NoneShown /\ entry \in Entry /\ typed \in Seq(Entry)
    <3>1. echo \in BOOLEAN /\ typed \in Seq(Entry)
      BY DEF ConsoleTypeOK
    <3> QED BY <1>1, <1>2, <2>2, <3>1 DEF Entry
  <2> HIDE DEF entry
  <2>4. /\ Len(typed') = Len(typed) + 1 /\ Len(typed) \in Nat
        /\ \A i \in 1 .. Len(typed) : typed'[i] = typed[i]
        /\ typed'[Len(typed) + 1] = entry
    BY <2>1, <2>3, AppendProperties DEF entry
  <2>5. NoneShown'
    <3> SUFFICES ASSUME NEW i \in 1 .. Len(typed') PROVE ~typed'[i].shown
      BY DEF NoneShown
    <3>1. i \in 1 .. Len(typed) \/ i = Len(typed) + 1
      BY <2>4
    <3> QED BY <2>3, <2>4, <3>1 DEF NoneShown
  <2> QED BY <1>1, <1>2, <2>2, <2>5
<1>4. CASE Hide
  <2>1. buf = <<>> /\ tty
    BY <1>1, <1>4 DEF LineInv, Hide, SetEcho
  <2>2. echo' = FALSE /\ typed' = <<>> /\ field' = <<>> /\ buf' = <<>>
    BY <1>4, <2>1 DEF Hide, SetEcho, stdio
  <2> QED BY <2>2 DEF NoneShown
<1>5. CASE Read
  <2>1. PICK ch \in Symbols : NextIs(ch) /\ (field' # <<>> => field # <<>> \/ ch # "EOF")
    BY <1>5 DEF Read, Symbols, LineEnds
  <2>2. tty /\ pc \in Reading /\ UNCHANGED echo
    BY <1>1, <1>5 DEF Read
  <2>3. NoneShown' /\ (ch # "EOF" \/ buf' # <<>> => ~shown')
    BY <1>2, <2>1, <2>2, NextIsHidden
  <2>4. ASSUME ch = "EOF", buf' = <<>>, field' # <<>> PROVE ~shown'
    <3>1. ~shown
      BY <1>2, <2>1, <2>2, <2>4
    <3>2. CASE shown' = shown
      BY <3>1, <3>2
    <3>3. CASE typed # <<>> /\ shown' = Head(typed).shown
      <4>1. typed \in Seq(Entry)
        BY DEF ConsoleTypeOK
      <4>2. Head(typed) = typed[1] /\ 1 \in 1 .. Len(typed)
        BY <3>3, <4>1
      <4> QED BY <1>2, <2>2, <3>3, <4>2 DEF NoneShown
    <3> QED BY <2>1, <3>2, <3>3 DEF NextIs, stdio
  <2> QED BY <1>2, <2>2, <2>3, <2>4
<1>6. CASE Flush
  <2>1. PICK ch \in Symbols : NextIs(ch)
    BY <1>6 DEF Flush, Symbols
  <2>2. tty /\ pc \in Reading /\ UNCHANGED <<echo, field>>
    BY <1>1, <1>6 DEF Flush, prompts
  <2>3. NoneShown' /\ (ch # "EOF" \/ buf' # <<>> => ~shown')
    BY <1>2, <2>1, <2>2, NextIsHidden
  <2>4. ASSUME ch = "EOF", buf' = <<>>, field' # <<>> PROVE ~shown'
    <3>1. ~shown
      BY <1>2, <2>1, <2>2, <2>4
    <3>2. CASE shown' = shown
      BY <3>1, <3>2
    <3>3. CASE typed # <<>> /\ shown' = Head(typed).shown
      <4>1. typed \in Seq(Entry)
        BY DEF ConsoleTypeOK
      <4>2. Head(typed) = typed[1] /\ 1 \in 1 .. Len(typed)
        BY <3>3, <4>1
      <4> QED BY <1>2, <2>2, <3>3, <4>2 DEF NoneShown
    <3> QED BY <2>1, <3>2, <3>3 DEF NextIs, stdio
  <2> QED BY <1>2, <2>2, <2>3, <2>4
<1>7. CASE Start \/ Unhide \/ Switch \/ confirm \/ Act \/ Gone
  <2>1. pc' \notin Reading
    BY <1>7 DEF Start, Unhide, TakePassword, TakeNew, Validate, Switch, confirm, Sure, Drop, Act, Gone,
                GoTo, EndsAnswer, Answered, Decided, ConsoleTypeOK
  <2> QED BY <1>1, <2>1
<1>8. CASE Hash \/ UNCHANGED vars
  <2>1. UNCHANGED <<tty, echo, typed, buf, shown, pc, field>>
    BY <1>8 DEF Hash, vars, consoleVars, terminal, stdio, prompts
  <2>2. ~echo /\ NoneShown /\ (field # <<>> \/ buf # <<>> => ~shown)
    BY <1>1, <1>2, <2>1
  <2> QED BY <2>1, <2>2 DEF NoneShown
<1> QED BY <1>3, <1>4, <1>5, <1>6, <1>7, <1>8 DEF Next, Tool, secure_input, Close, Killed

(* A pipe has no echo to lose, and a terminal gets it back at the end of   *)
(* secure_input().                                                         *)
LEMMA EchoStep ==
  ASSUME ConsoleTypeOK, EchoComesBack, tty \/ echo, [Next]_vars
  PROVE  EchoComesBack' /\ (tty' \/ echo')
<1> DEFINE After == {"switch", "sure", "drop", "hash", "close"}
<1>1. CASE Hide
  BY <1>1 DEF Hide, SetEcho, EchoComesBack, GoTo
<1>6. CASE Unhide
  <2>1. echo' /\ (tty' \/ echo')
    BY <1>6 DEF Unhide, SetEcho
  <2> QED BY <2>1 DEF EchoComesBack
<1>2. CASE Start
  BY <1>2 DEF Start, EchoComesBack, terminal, GoTo, Asks, Guesses, Destroying
<1>3. CASE Gone
  BY <1>3 DEF Gone, EchoComesBack, Asks, Guesses
<1>4. CASE Type \/ Read \/ Flush \/ Hash \/ UNCHANGED vars
  <2>1. UNCHANGED <<tty, echo, action>> /\ (pc' \in After => pc \in After)
    BY <1>4 DEF Type, Read, Flush, Hash, vars, consoleVars, terminal, GoTo
  <2> QED BY <2>1 DEF EchoComesBack
<1>5. CASE Switch \/ Sure \/ Drop \/ Act
  <2>1. UNCHANGED <<tty, echo, action>> /\ pc \in After
    BY <1>5 DEF Switch, Sure, Drop, Act, terminal
  <2> QED BY <2>1 DEF EchoComesBack
<1> QED BY <1>1, <1>2, <1>3, <1>4, <1>5, <1>6 DEF Next, Tool, secure_input, confirm, Close, Killed

-----------------------------------------------------------------------------
(* The theorems.                                                           *)

(* The invariant holds at the start.                                       *)
LEMMA ConsoleInit ==
  ASSUME Init
  PROVE  ConsoleInv
<1>1. ConsoleTypeOK
  <2>1. /\ typed \in Seq(Entry) /\ Len(typed) <= TypeAhead /\ buf \in Seq(Symbols)
        /\ {field, given, new} \subseteq Fields /\ todo \in Seq(0 .. MaxPassword)
    BY InitTypes DEF Init
  <2> QED BY <2>1 DEF Init, ConsoleTypeOK, Labels, Symbols
<1>2. HashTypeOK
  BY HashInvStarts DEF Init, HashInv
<1>3. LineInv
  BY DEF Init, LineInv, OneLine
<1>4. RestInv /\ HiddenInv /\ EchoComesBack /\ echo
  BY DEF Init, RestInv, HiddenInv, EchoComesBack
<1> QED BY <1>1, <1>2, <1>3, <1>4 DEF ConsoleInv, TypeOK

(* ... and after every step.                                               *)
LEMMA ConsoleStep ==
  ASSUME ConsoleInv, [Next]_vars
  PROVE  ConsoleInv'
<1>1. ConsoleTypeOK' /\ HashTypeOK'
  BY ConsoleTypeStep, StepHashes, HashTypeStep DEF ConsoleInv, TypeOK
<1> QED BY <1>1, LineStep, MoreStep, HiddenStep, EchoStep DEF ConsoleInv, TypeOK

(* The inductive invariant of the prompts.                                 *)
THEOREM ConsoleCorrect == Spec => []ConsoleInv
BY ConsoleInit, ConsoleStep, PTL DEF Spec

(* The console is type-correct.                                            *)
THEOREM TypeCorrect == Spec => []TypeOK
<1>1. ConsoleInv => TypeOK
  BY DEF ConsoleInv
<1> QED BY <1>1, ConsoleCorrect, PTL

(* No prompt is answered by the rest of another one's line.                *)
THEOREM LinesStayApart == Spec => []LinesAreApart
<1>1. ConsoleInv => LinesAreApart
  BY DEF ConsoleInv, LineInv, LinesAreApart
<1> QED BY <1>1, ConsoleCorrect, PTL

(* No password was shown on the terminal, whatever was typed when, and     *)
(* however the run before ended.                                           *)
THEOREM PasswordsStayHidden == Spec => []PasswordNeverShown
<1>1. ConsoleInv => PasswordNeverShown
  BY DEF ConsoleInv, HiddenInv, PasswordNeverShown
<1> QED BY <1>1, ConsoleCorrect, PTL

(* The echo is back when the prompts are over.                             *)
THEOREM EchoReturns == Spec => []EchoComesBack
<1>1. ConsoleInv => EchoComesBack
  BY DEF ConsoleInv
<1> QED BY <1>1, ConsoleCorrect, PTL

(* A prompt reads on in the line it has, and every turn of its loops       *)
(* leaves less of it: what is left to show that it ends is that it is      *)
(* scheduled and that the line comes.                                      *)
THEOREM PromptsAdvance == Spec => PromptAdvances
<1>1. ConsoleInv /\ [Next]_vars =>
        [ Tool /\ pc \in InLine /\ pc' \in InLine =>
            /\ buf' # <<>>
            /\ \/ Len(buf') < Len(buf)
               \/ buf = <<>> /\ pc = "read" /\ field = <<>> ]_vars
  BY PromptStep DEF ConsoleInv, TypeOK
<1> QED BY <1>1, ConsoleCorrect, PTL DEF Spec, PromptAdvances

(* What the console does to the hash is what PasswordHash specifies, for   *)
(* every password that gets past the prompts.                              *)
THEOREM ConsoleHashes == Spec => HashSpec
<1>1. Init => HashInit
  BY DEF Init
<1>2. ConsoleInv /\ [Next]_vars => [HashNext]_hashVars
  BY StepHashes DEF ConsoleInv, TypeOK
<1> QED BY <1>1, <1>2, ConsoleCorrect, PTL DEF Spec, HashSpec

(* Whatever was typed, md5_update() is in step with the padded message.    *)
THEOREM TypedStaysInStep == Spec => []HashInv
BY ConsoleHashes, HashStaysInStep, PTL

(* Every password that gets past the prompts is padded as the standard     *)
(* says before it is hashed.                                               *)
THEOREM TypedIsPadded == Spec => []HashIsPadded
BY ConsoleHashes, HashCorrect, PTL

(* ... and no copy of a part of it leaves md5_update()'s buffer.           *)
THEOREM TypedStaysInside == Spec => []BufferFits
BY ConsoleHashes, HashStaysInside, PTL
=============================================================================
