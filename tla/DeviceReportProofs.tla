------------------------- MODULE DeviceReportProofs -------------------------
(* Proofs about DeviceReport, for every size of the structures and every   *)
(* length a stick may give its pages.                                      *)
EXTENDS DeviceReport, TLAPS

(* No reader asks for anything twice.                                      *)
LEMMA QuestionFacts ==
  ASSUME NEW c \in {"info", "dump", "tries", "partition"}
  PROVE  /\ Len(Questions[c]) \in 1 .. 5
         /\ \A i \in 1 .. Len(Questions[c]) : Questions[c][i] \in AllQuestions
         /\ \A i, j \in 1 .. Len(Questions[c]) : Questions[c][i] = Questions[c][j] => i = j
<1>1. CASE c = "info"
  BY <1>1 DEF Questions, AllQuestions, Pages
<1>2. CASE c = "dump"
  BY <1>2 DEF Questions, AllQuestions, Pages
<1>3. CASE c = "tries"
  BY <1>3 DEF Questions, AllQuestions, Pages
<1>4. CASE c = "partition"
  BY <1>4 DEF Questions, AllQuestions, Pages
<1> QED BY <1>1, <1>2, <1>3, <1>4

(* The question at hand is a new one, and what is answered grows by it.    *)
LEMMA AnsweredFacts ==
  ASSUME TypeOK
  PROVE  /\ Len(Questions[caller]) \in 1 .. 5 /\ pos \in 1 .. 5
         /\ pos <= Len(Questions[caller])
         /\ Question \in AllQuestions /\ Question \notin Answered
         /\ {Questions[caller][i] : i \in 1 .. pos} = Answered \cup {Question}
         /\ Last => Asked = Answered \cup {Question}
         /\ Answered \subseteq AllQuestions
<1>1. caller \in {"info", "dump", "tries", "partition"}
  BY DeviceReportAssumption DEF TypeOK
<1> DEFINE n == Len(Questions[caller])
<1>2. /\ n \in 1 .. 5
      /\ \A i \in 1 .. n : Questions[caller][i] \in AllQuestions
      /\ \A i, j \in 1 .. n : Questions[caller][i] = Questions[caller][j] => i = j
  BY <1>1, QuestionFacts
<1> HIDE DEF n
<1>3. pos \in 1 .. n
  BY DEF TypeOK, n
<1>4. /\ pos \in 1 .. 5 /\ pos <= n
      /\ \A i \in 1 .. (pos - 1) : i \in 1 .. n /\ i # pos
      /\ 1 .. pos = (1 .. (pos - 1)) \cup {pos}
  BY <1>2, <1>3
<1>5. Question \in AllQuestions /\ Question \notin Answered
  BY <1>2, <1>3, <1>4 DEF Question, Answered
<1>6. {Questions[caller][i] : i \in 1 .. pos} = Answered \cup {Question}
  BY <1>4 DEF Question, Answered
<1>7. Last => Asked = Answered \cup {Question}
  BY <1>6 DEF Last, Asked, n
<1>8. Answered \subseteq AllQuestions
  BY <1>2, <1>4 DEF Answered
<1> QED BY <1>2, <1>4, <1>5, <1>6, <1>7, <1>8 DEF n

(* The types of the constants, and no more read than there is room for.    *)
LEMMA SizeFacts ==
  ASSUME NEW page \in Pages, NEW length \in Nat
  PROVE  /\ Header \in Nat /\ Size[page] \in Nat /\ Header <= Size[page]
         /\ ReadLength(length, Size[page]) \in Nat
         /\ ReadLength(length, Size[page]) <= Size[page]
         /\ length = Size[page] => ReadLength(length, Size[page]) = Size[page]
<1>1. Header \in Nat /\ Size[page] \in Nat /\ Header <= Size[page]
  BY DeviceReportAssumption
<1> QED BY <1>1 DEF ReadLength

-----------------------------------------------------------------------------
(* Moving on leads to the next question, or to the end with what all the   *)
(* questions came to.                                                      *)
LEMMA MovesOn ==
  ASSUME TypeOK, Accounted, WholeUnlessShort, step # "returned",
         caller' = caller, Uses \/ Fails
  PROVE  /\ caller' = caller /\ used' \subseteq AllQuestions /\ failed' \subseteq AllQuestions
         /\ retval' \in {"unset", "success", "failure"}
         /\ step' \in {"ask", "returned"} /\ pos' \in 1 .. Len(Questions[caller])
         /\ Accounted' /\ ExitTells'
<1> DEFINE qs == {Questions[caller][i] : i \in 1 .. pos}
<1>1. /\ pos \in Nat /\ pos >= 1 /\ pos <= Len(Questions[caller])
      /\ Len(Questions[caller]) \in Nat
      /\ Question \in AllQuestions /\ Question \notin Answered
      /\ qs = Answered \cup {Question}
      /\ Last => Asked = Answered \cup {Question}
  BY AnsweredFacts
<1>2. /\ used \cup failed = Answered /\ used \cap failed = {}
      /\ caller # "dump" => failed = {}
      /\ retval = IF failed = {} THEN "unset" ELSE "failure"
  BY DEF Accounted
<1>3. pos' = pos + 1 => Answered' = qs
  BY <1>1 DEF Answered
<1>4. Asked' = Asked
  BY DEF Asked
<1>5. used \subseteq AllQuestions /\ failed \subseteq AllQuestions
  BY DEF TypeOK
<1> HIDE DEF qs
<1>6. CASE Uses
  <2>1. used' = used \cup {Question} /\ failed' = failed
    BY <1>6 DEF Uses
  <2>2. CASE ~Last /\ step' = "ask" /\ pos' = pos + 1 /\ UNCHANGED retval
    <3>1. pos' \in 1 .. Len(Questions[caller])
      BY <1>1, <2>2 DEF Last
    <3> QED BY <1>1, <1>2, <1>3, <1>5, <2>1, <2>2, <3>1 DEF Accounted, ExitTells
  <2>3. CASE Last /\ retval = "unset" /\ Return
    <3>1. step' = "returned" /\ pos' = pos /\ retval' \in {"success", "failure"}
      BY <2>3 DEF Return
    <3>2. failed = {}
      BY <1>2, <2>3
    <3> QED BY <1>1, <1>2, <1>4, <1>5, <2>1, <2>3, <3>1, <3>2 DEF Accounted, ExitTells
  <2>4. CASE Last /\ retval # "unset" /\ step' = "returned" /\ UNCHANGED <<pos, retval>>
    BY <1>1, <1>2, <1>4, <1>5, <2>1, <2>4 DEF Accounted, ExitTells
  <2> QED BY <1>6, <2>2, <2>3, <2>4 DEF Uses, GoOn
<1>7. CASE Fails
  <2>1. failed' = failed \cup {Question} /\ used' = used /\ retval' = "failure"
    BY <1>7 DEF Fails
  <2>2. CASE caller = "dump" /\ ~Last /\ step' = "ask" /\ pos' = pos + 1
    <3>1. pos' \in 1 .. Len(Questions[caller])
      BY <1>1, <2>2 DEF Last
    <3> QED BY <1>1, <1>2, <1>3, <1>5, <2>1, <2>2, <3>1 DEF Accounted, ExitTells
  <2>3. CASE ~(caller = "dump" /\ ~Last) /\ step' = "returned" /\ pos' = pos
    BY <1>1, <1>2, <1>4, <1>5, <2>1, <2>3 DEF Accounted, ExitTells
  <2> QED BY <1>7, <2>2, <2>3 DEF Fails
<1> QED BY <1>6, <1>7

(* Every initial state satisfies the inductive invariant, and so does the  *)
(* stack frame of every further call.                                      *)
LEMMA FreshFrame ==
  ASSUME Init PROVE ReportInv
<1>1. caller \in {"info", "dump", "tries", "partition"}
  BY DeviceReportAssumption DEF Init
<1>2. TypeOK
  <2>1. 1 \in 1 .. Len(Questions[caller])
    <3> DEFINE n == Len(Questions[caller])
    <3>1. n \in 1 .. 5
      BY <1>1, QuestionFacts
    <3> HIDE DEF n
    <3>2. 1 \in 1 .. n
      BY <3>1
    <3> QED BY <3>2 DEF n
  <2>2. filled \in [Pages -> Nat]
    BY DEF Init
  <2> QED BY <2>1, <2>2 DEF Init, TypeOK
<1>3. ReadsFit
  <2>1. ASSUME NEW page \in Pages PROVE 0 <= Size[page]
    BY SizeFacts
  <2> QED BY <2>1 DEF Init, ReadsFit
<1>4. Accounted
  BY DEF Init, Accounted, Answered
<1> QED BY <1>2, <1>3, <1>4 DEF Init, ReportInv, WholeUnlessShort, WholePage, PageInHand, ExitTells

-----------------------------------------------------------------------------
(* A page is read anew only while it is not in use.                        *)
LEMMA PageRead ==
  ASSUME TypeOK, ReadsFit, WholeUnlessShort, Accounted, step # "returned",
         Question \in Pages, NEW n \in Nat, n <= Size[Question], Holds(n),
         NEW m, NEW wanted, Came(m, wanted), caller' = caller, used' = used
  PROVE  /\ filled' \in [Pages -> Nat] /\ filled'[Question] = n
         /\ hdrLength' \in Nat /\ (n >= Header => hdrLength' = pageLength[Question])
         /\ short \subseteq short' /\ short' \subseteq Pages
         /\ Question \notin short' => Question \notin short /\ ~(m < wanted)
         /\ ReadsFit' /\ WholeUnlessShort'
<1>1. Question \notin used
  BY AnsweredFacts DEF Accounted
<1>2. filled' = [filled EXCEPT ![Question] = n]
  BY DEF Holds
<1>3. filled' \in [Pages -> Nat] /\ filled'[Question] = n
  BY <1>2 DEF TypeOK
<1>4. hdrLength' \in Nat /\ (n >= Header => hdrLength' = pageLength[Question])
  BY DeviceReportAssumption DEF TypeOK, Holds
<1>5. /\ short \subseteq short' /\ short' \subseteq Pages
      /\ Question \notin short' => Question \notin short /\ ~(m < wanted)
  BY DEF TypeOK, Came
<1>6. ReadsFit'
  BY <1>2 DEF TypeOK, ReadsFit
<1>7. WholeUnlessShort'
  BY <1>1, <1>2, <1>5 DEF TypeOK, WholeUnlessShort, WholePage
<1> QED BY <1>3, <1>4, <1>5, <1>6, <1>7

(* Every step preserves the inductive invariant.                           *)
LEMMA ReportStep ==
  ASSUME ReportInv, [Next]_vars
  PROVE  ReportInv'
<1> USE DEF ReportInv
<1>1. CASE Start
  <2>1. Init'
    BY <1>1 DEF Start, Init
  <2> QED BY <2>1, FreshFrame, PTL
<1>2. CASE AskInfo
  <2>1. /\ step = "ask" /\ Question \notin Pages /\ (Uses \/ Fails)
        /\ UNCHANGED <<caller, pageLength, hdrLength, asked, filled, short>>
    BY <1>2 DEF AskInfo
  <2>2. /\ step' \in {"ask", "returned"} /\ pos' \in 1 .. Len(Questions[caller])
        /\ used' \subseteq AllQuestions /\ failed' \subseteq AllQuestions
        /\ retval' \in {"unset", "success", "failure"}
        /\ Accounted' /\ ExitTells'
    BY <2>1, MovesOn
  <2>3. TypeOK'
    BY <2>1, <2>2 DEF TypeOK
  <2>4. used' \subseteq used \cup {Question}
    BY <2>1 DEF Uses, Fails
  <2>5. ReadsFit' /\ WholeUnlessShort'
    BY <2>1, <2>4 DEF ReadsFit, WholeUnlessShort, WholePage
  <2> QED BY <2>2, <2>3, <2>5 DEF PageInHand
<1>3. CASE ReadHeader
  <2>1. step = "ask" /\ Question \in Pages /\ caller' = caller /\ pageLength' = pageLength
    BY <1>3 DEF ReadHeader
  <2>2. pageLength[Question] \in Nat
    BY <2>1, DeviceReportAssumption DEF TypeOK
  <2>3. Header \in Nat /\ Size[Question] \in Nat /\ Header <= Size[Question]
    BY <2>1, <2>2, SizeFacts
  <2>4. CASE Fails /\ UNCHANGED <<hdrLength, asked, filled, short>>
    <3>1. /\ step' \in {"ask", "returned"} /\ pos' \in 1 .. Len(Questions[caller])
          /\ used' \subseteq AllQuestions /\ failed' \subseteq AllQuestions
          /\ retval' \in {"unset", "success", "failure"}
          /\ Accounted' /\ ExitTells'
      BY <2>1, <2>4, MovesOn
    <3>2. used' = used
      BY <2>4 DEF Fails
    <3>3. TypeOK'
      BY <2>1, <2>4, <3>1 DEF TypeOK
    <3>4. ReadsFit' /\ WholeUnlessShort'
      BY <2>1, <2>4, <3>2 DEF ReadsFit, WholeUnlessShort, WholePage
    <3> QED BY <3>1, <3>3, <3>4 DEF PageInHand
  <2>5. ASSUME NEW n \in 0 .. Header, Holds(n), Came(n, Header),
               hdrLength' < Header /\ Fails /\ asked' = Header
        PROVE  ReportInv'
    <3>1. /\ step' \in {"ask", "returned"} /\ pos' \in 1 .. Len(Questions[caller])
          /\ used' \subseteq AllQuestions /\ failed' \subseteq AllQuestions
          /\ retval' \in {"unset", "success", "failure"}
          /\ Accounted' /\ ExitTells'
      BY <2>1, <2>5, MovesOn
    <3>2. used' = used
      BY <2>5 DEF Fails
    <3>3. n \in Nat /\ n <= Size[Question]
      BY <2>3
    <3>4. /\ filled' \in [Pages -> Nat] /\ hdrLength' \in Nat /\ short' \subseteq Pages
          /\ ReadsFit' /\ WholeUnlessShort'
      BY <2>1, <2>5, <3>2, <3>3, PageRead
    <3>5. TypeOK'
      BY <2>1, <2>3, <2>5, <3>1, <3>4 DEF TypeOK
    <3> QED BY <3>1, <3>4, <3>5 DEF PageInHand
  <2>6. ASSUME NEW n \in 0 .. Header, Holds(n), Came(n, Header), hdrLength' >= Header,
               asked' = ReadLength(hdrLength', Size[Question]), step' = "page",
               UNCHANGED <<pos, used, failed, retval>>
        PROVE  ReportInv'
    <3>1. n \in Nat /\ n <= Size[Question]
      BY <2>3
    <3>2. /\ filled' \in [Pages -> Nat] /\ filled'[Question] = n
          /\ hdrLength' \in Nat /\ (n >= Header => hdrLength' = pageLength[Question])
          /\ short' \subseteq Pages /\ (Question \notin short' => ~(n < Header))
          /\ ReadsFit' /\ WholeUnlessShort'
      BY <2>1, <2>6, <3>1, PageRead
    <3>3. asked' \in Nat /\ asked' <= Size[Question] /\ asked' >= Header
      BY <2>1, <2>3, <2>6, <3>2 DEF ReadLength
    <3>4. Question' = Question
      BY <2>1, <2>6 DEF Question
    <3>5. TypeOK'
      BY <2>1, <2>6, <3>2, <3>3, <3>4 DEF TypeOK
    <3>6. Question \notin short' =>
            /\ hdrLength' = pageLength[Question]
            /\ filled'[Question] <= ReadLength(pageLength[Question], Size[Question])
      BY <2>2, <2>3, <2>6, <3>2 DEF ReadLength
    <3>7. PageInHand'
      BY <2>1, <2>6, <3>3, <3>4, <3>6 DEF PageInHand
    <3>8. Accounted' /\ ExitTells'
      BY <2>1, <2>6 DEF Accounted, Answered, ExitTells
    <3> QED BY <3>2, <3>5, <3>7, <3>8
  <2> QED BY <1>3, <2>4, <2>5, <2>6 DEF ReadHeader
<1>4. CASE ReadPage
  <2>1. /\ step = "page" /\ Question \in Pages
        /\ UNCHANGED <<caller, pageLength, asked>>
    BY <1>4 DEF ReadPage, TypeOK
  <2>2. /\ asked \in Nat /\ asked <= Size[Question] /\ Size[Question] \in Nat
        /\ filled[Question] \in Nat /\ filled[Question] <= Size[Question]
    BY <2>1, SizeFacts DEF PageInHand, TypeOK, ReadsFit
  <2>3. CASE Fails /\ UNCHANGED <<hdrLength, filled, short>>
    <3>1. /\ step' \in {"ask", "returned"} /\ pos' \in 1 .. Len(Questions[caller])
          /\ used' \subseteq AllQuestions /\ failed' \subseteq AllQuestions
          /\ retval' \in {"unset", "success", "failure"}
          /\ Accounted' /\ ExitTells'
      BY <2>1, <2>3, MovesOn
    <3>2. used' = used
      BY <2>3 DEF Fails
    <3>3. TypeOK'
      BY <2>1, <2>3, <3>1 DEF TypeOK
    <3>4. ReadsFit' /\ WholeUnlessShort'
      BY <2>1, <2>3, <3>2 DEF ReadsFit, WholeUnlessShort, WholePage
    <3> QED BY <3>1, <3>3, <3>4 DEF PageInHand
  <2>4. ASSUME NEW n \in 0 .. asked, Holds(Larger(n, filled[Question])), Came(n, asked),
               step' = "look", UNCHANGED <<pos, used, failed, retval>>
        PROVE  ReportInv'
    <3> DEFINE held == Larger(n, filled[Question])
    <3>1. /\ held \in Nat /\ held <= Size[Question] /\ held >= filled[Question]
          /\ n = asked /\ filled[Question] <= asked => held = asked
      BY <2>2 DEF Larger
    <3>2. Holds(held)
      BY <2>4
    <3> HIDE DEF held
    <3>3. /\ filled' \in [Pages -> Nat] /\ filled'[Question] = held
          /\ hdrLength' \in Nat /\ (held >= Header => hdrLength' = pageLength[Question])
          /\ short' \subseteq Pages
          /\ Question \notin short' => Question \notin short /\ ~(n < asked)
          /\ ReadsFit' /\ WholeUnlessShort'
      BY <2>1, <2>4, <3>1, <3>2, PageRead
    <3>4. Question' = Question
      BY <2>1, <2>4 DEF Question
    <3>5. TypeOK'
      BY <2>1, <2>4, <3>3, <3>4 DEF TypeOK
    <3> DEFINE whole == ReadLength(pageLength[Question], Size[Question])
    <3>6. Question \notin short' => n = asked /\ asked = whole /\ filled[Question] <= whole
      <4>1. Question \notin short => asked = whole /\ filled[Question] <= whole
        BY <2>1 DEF PageInHand
      <4>2. Question \notin short' => n = asked
        BY <2>2, <3>3
      <4> QED BY <3>3, <4>1, <4>2
    <3>7. Question \notin short' => held = whole
      BY <3>1, <3>6
    <3>8. Question \notin short' => hdrLength' = pageLength[Question]
      <4>1. asked >= Header
        BY <2>1 DEF PageInHand
      <4>2. Question \notin short' => held = asked
        BY <3>1, <3>6
      <4> QED BY <3>3, <4>1, <4>2
    <3>9. PageInHand'
      BY <2>1, <2>4, <3>3, <3>4, <3>7, <3>8 DEF PageInHand
    <3>10. Accounted' /\ ExitTells'
      BY <2>1, <2>4 DEF Accounted, Answered, ExitTells
    <3> QED BY <3>3, <3>5, <3>9, <3>10
  <2> QED BY <1>4, <2>3, <2>4 DEF ReadPage
<1>5. CASE Look
  <2>1. /\ step = "look" /\ Question \in Pages /\ (Uses \/ Fails)
        /\ Uses => Accepts(hdrLength, Size[Question]) \/ Fails
        /\ UNCHANGED <<caller, pageLength, hdrLength, asked, filled, short>>
    BY <1>5 DEF Look, TypeOK
  <2>2. /\ step' \in {"ask", "returned"} /\ pos' \in 1 .. Len(Questions[caller])
        /\ used' \subseteq AllQuestions /\ failed' \subseteq AllQuestions
        /\ retval' \in {"unset", "success", "failure"}
        /\ Accounted' /\ ExitTells'
    BY <2>1, MovesOn
  <2>3. TypeOK'
    BY <2>1, <2>2 DEF TypeOK
  <2>4. ReadsFit'
    BY <2>1 DEF ReadsFit
  <2>5. WholeUnlessShort'
    <3>1. CASE Fails
      <4>1. used' = used
        BY <3>1 DEF Fails
      <4> QED BY <2>1, <4>1 DEF WholeUnlessShort, WholePage
    <3>2. CASE Uses /\ Accepts(hdrLength, Size[Question])
      <4>1. used' = used \cup {Question}
        BY <3>2 DEF Uses
      <4>2. caller \in {"dump", "partition"} => hdrLength = Size[Question]
        BY <3>2 DEF Accepts
      <4>3. hdrLength \in Nat
        BY DEF TypeOK
      <4>4. caller \in {"dump", "partition"} /\ Question \notin short =>
              filled[Question] = Size[Question]
        BY <2>1, <4>2, <4>3, SizeFacts DEF PageInHand
      <4> QED BY <2>1, <4>1, <4>4 DEF WholeUnlessShort, WholePage
    <3> QED BY <2>1, <3>1, <3>2
  <2> QED BY <2>2, <2>3, <2>4, <2>5 DEF PageInHand
<1>6. CASE UNCHANGED vars
  BY <1>6 DEF vars, TypeOK, ReadsFit, WholeUnlessShort, WholePage, PageInHand, Accounted,
     Answered, ExitTells, Question, Asked
<1> QED BY <1>1, <1>2, <1>3, <1>4, <1>5, <1>6 DEF Next

(* The inductive invariant of the readers.                                 *)
LEMMA ReportInvariant == Spec => []ReportInv
<1>1. Init => ReportInv
  BY FreshFrame
<1>2. ReportInv /\ [Next]_vars => ReportInv'
  BY ReportStep
<1> QED BY <1>1, <1>2, PTL DEF Spec

(* Every variable of do_info(), do_dump(), get_tries_left() and            *)
(* u3_partition() has its type, whatever the stick answers.                *)
THEOREM TypeCorrect == Spec => []TypeOK
<1>1. ReportInv => TypeOK
  BY DEF ReportInv
<1> QED BY <1>1, ReportInvariant, PTL

(* u3_read_device_property() never reads more than its buffer holds,       *)
(* whatever length the header of a page gives.                             *)
THEOREM BuffersHold == Spec => []ReadsFit
<1>1. ReportInv => ReadsFit
  BY DEF ReportInv
<1> QED BY <1>1, ReportInvariant, PTL

(* What do_dump() prints and u3_partition() computes with was read, unless *)
(* a transfer of the page brought fewer bytes than it was asked for.       *)
THEOREM PagesAreWholeUnlessShort == Spec => []WholeUnlessShort
<1>1. ReportInv => WholeUnlessShort
  BY DEF ReportInv
<1> QED BY <1>1, ReportInvariant, PTL

(* A failure is always returned, and a success means that every answer was *)
(* taken, even where do_dump() returns a value it never set.               *)
THEOREM ExitIsTrue == Spec => []ExitTells
<1>1. ReportInv => ExitTells
  BY DEF ReportInv
<1> QED BY <1>1, ReportInvariant, PTL

-----------------------------------------------------------------------------
(* Sticks whose pages fill the structures.                                 *)

LongPages == \A page \in Pages : pageLength[page] >= Size[page]

(* With such a stick it does not matter who compares the length.           *)
LongInv == LongPages => \A page \in Pages \ short : WholePage(page)

(* Every step keeps the pages whole.                                       *)
LEMMA LongStep ==
  ASSUME ReportInv, LongInv, [Next]_vars
  PROVE  LongInv'
<1>1. TypeOK /\ Accounted /\ PageInHand
  BY DEF ReportInv
<1>2. CASE Start
  BY <1>2 DEF Start, LongInv, WholePage
<1>3. ASSUME Uses \/ Fails
      PROVE  /\ step' \in {"ask", "returned"} /\ used' \subseteq used \cup {Question}
             /\ Fails => used' = used
  BY <1>3 DEF Uses, Fails, GoOn, Return
<1>4. ASSUME UNCHANGED pageLength PROVE LongPages' <=> LongPages
  BY <1>4 DEF LongPages
<1>5. CASE AskInfo
  BY <1>3, <1>4, <1>5 DEF AskInfo, LongInv, WholePage
<1>6. ASSUME Question \in Pages, step # "returned", UNCHANGED <<used, pageLength>>,
             NEW n, Holds(n), NEW m, NEW wanted, Came(m, wanted)
      PROVE  LongInv'
  <2>1. Question \notin used
    BY <1>1, <1>6, AnsweredFacts DEF Accounted
  <2>2. filled' = [filled EXCEPT ![Question] = n] /\ short \subseteq short'
    BY <1>6 DEF Holds, Came
  <2> QED BY <1>1, <1>4, <1>6, <2>1, <2>2 DEF TypeOK, LongInv, WholePage
<1>7. CASE ReadHeader
  <2>1. step = "ask" /\ Question \in Pages /\ UNCHANGED <<caller, pageLength>>
    BY <1>7 DEF ReadHeader
  <2>2. CASE Fails /\ UNCHANGED <<hdrLength, asked, filled, short>>
    BY <1>3, <1>4, <2>1, <2>2 DEF LongInv, WholePage
  <2>3. ASSUME NEW n \in 0 .. Header, Holds(n), Came(n, Header), Fails \/ UNCHANGED used
        PROVE  LongInv'
    BY <1>3, <1>6, <2>1, <2>3
  <2> QED BY <1>7, <2>2, <2>3 DEF ReadHeader
<1>8. CASE ReadPage
  <2>1. step = "page" /\ Question \in Pages /\ UNCHANGED <<caller, pageLength>>
    BY <1>1, <1>8 DEF ReadPage, TypeOK
  <2>2. CASE Fails /\ UNCHANGED <<hdrLength, filled, short>>
    BY <1>3, <1>4, <2>1, <2>2 DEF LongInv, WholePage
  <2>3. ASSUME NEW n \in 0 .. asked, Holds(Larger(n, filled[Question])), Came(n, asked),
               UNCHANGED used
        PROVE  LongInv'
    BY <1>6, <2>1, <2>3
  <2> QED BY <1>8, <2>2, <2>3 DEF ReadPage
<1>9. CASE Look
  <2>1. /\ step = "look" /\ Question \in Pages /\ (Uses \/ Fails)
        /\ UNCHANGED <<pageLength, filled, short>>
    BY <1>1, <1>9 DEF Look, TypeOK
  <2>2. LongPages /\ Question \notin short => filled[Question] = Size[Question]
    <3>1. pageLength[Question] \in Nat /\ Size[Question] \in Nat
      BY <1>1, <2>1, DeviceReportAssumption DEF TypeOK
    <3>2. LongPages => pageLength[Question] >= Size[Question]
      BY <2>1 DEF LongPages
    <3> QED BY <1>1, <2>1, <3>1, <3>2 DEF PageInHand, ReadLength
  <2> QED BY <1>3, <1>4, <2>1, <2>2 DEF LongInv, WholePage
<1>10. CASE UNCHANGED vars
  BY <1>10 DEF vars, LongInv, LongPages, WholePage
<1> QED BY <1>2, <1>5, <1>7, <1>8, <1>9, <1>10 DEF Next

(* A page that is missing its end is used only when the stick gives a      *)
(* shorter page than the structure, or a transfer of it brought fewer      *)
(* bytes than it was asked for: where neither happens the two readers that *)
(* do not compare the length are as good as the two that do.               *)
THEOREM LongPagesAreWholeUnlessShort == Spec => [](LongPages => EveryReaderChecks)
<1>1. Init => LongInv
  BY DEF Init, LongInv, WholePage
<1>2. ReportInv /\ LongInv /\ [Next]_vars => LongInv'
  BY LongStep
<1>3. LongInv => (LongPages => EveryReaderChecks)
  BY DEF LongInv, EveryReaderChecks
<1> QED BY <1>1, <1>2, <1>3, ReportInvariant, PTL DEF Spec
=============================================================================
