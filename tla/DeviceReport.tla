---------------------------- MODULE DeviceReport ----------------------------
(***************************************************************************)
(* What the tool asks a stick about itself, and what it makes of the       *)
(* answers: do_info() (-i), do_dump() (-D), and the two other readers of   *)
(* property pages, get_tries_left() and u3_partition().                    *)
(*                                                                         *)
(* A page has whatever length the stick says in its header.  It is read    *)
(* into a structure on the caller's stack that nothing has initialised, so *)
(* that what counts of it is how many of its bytes were filled in.  A      *)
(* transfer that brings fewer bytes than it was asked for is as good as    *)
(* any other to u3_send_cmd(), which tells nobody how many came.  The      *)
(* other answers go into structures that are zeroed first.                 *)
(***************************************************************************)
EXTENDS Naturals, Sequences

Pages == {"property03", "property0C"}

CONSTANTS Callers,    \* the readers that run
          Header,     \* sizeof(struct property_header)
          Size,       \* the size of the structure for each page
          Lengths     \* the page lengths of the sticks there are, which are also what
                      \* hdr->length may be where it was not read

ASSUME DeviceReportAssumption ==
  /\ Callers \subseteq {"info", "dump", "tries", "partition"}
  /\ Header \in Nat
  /\ Size \in [Pages -> Nat]
  /\ \A page \in Pages : Header <= Size[page]
  /\ Lengths \subseteq Nat

VARIABLES caller,        \* who asks
          pos, step,     \* which of its questions, and how far it is with it
          pageLength,    \* the page lengths of this stick
          hdrLength,     \* hdr->length, as it was read
          asked,         \* property_command->length
          filled,        \* bytes read into the structure of each page
          short,         \* the pages of which a transfer brought fewer bytes than asked:
                         \* no code keeps this, and only properties look at it
          used,          \* those whose answers were taken, to print or decide on
          failed,        \* those that failed, or had an unexpected length
          retval         \* what is returned, "unset" while there is nothing

vars == <<caller, pos, step, pageLength, hdrLength, asked, filled, short, used, failed, retval>>

AllQuestions == {"partitions", "data", "chip"} \cup Pages

(* What each reader asks for, in this order.                               *)
Questions ==
  [info      |-> <<"partitions", "data", "chip", "property03", "property0C">>,
   dump      |-> <<"partitions", "data", "chip", "property03", "property0C">>,
   tries     |-> <<"data", "property0C">>,
   partition |-> <<"property03">>]

Question == Questions[caller][pos]

Asked == {Questions[caller][i] : i \in 1 .. Len(Questions[caller])}

Last == pos = Len(Questions[caller])

TypeOK ==
  /\ caller \in Callers
  /\ pos \in 1 .. Len(Questions[caller])
  /\ step \in {"ask", "page", "look", "returned"}
  /\ step \in {"page", "look"} => Question \in Pages
  /\ pageLength \in [Pages -> Lengths]
  /\ hdrLength \in Nat /\ asked \in Nat
  /\ filled \in [Pages -> Nat] /\ short \subseteq Pages
  /\ used \subseteq AllQuestions /\ failed \subseteq AllQuestions
  /\ retval \in {"unset", "success", "failure"}

(* A reader starts with an empty stack frame.                              *)
Init ==
  /\ caller \in Callers
  /\ pos = 1 /\ step = "ask"
  /\ pageLength \in [Pages -> Lengths]
  /\ hdrLength = 0 /\ asked = 0
  /\ filled = [page \in Pages |-> 0] /\ short = {}
  /\ used = {} /\ failed = {} /\ retval = "unset"

-----------------------------------------------------------------------------
(* do_dump() has no value for retval when nothing failed: it returns what  *)
(* is on the stack.                                                        *)
Return ==
  /\ step' = "returned"
  /\ pos' = pos
  /\ IF caller = "dump" THEN retval' \in {"success", "failure"}
                        ELSE retval' = "success"

(* Mutant of GoOn: one question more than there are.                       *)
GoOnPast == step' = "ask" /\ pos' = pos + 1 /\ UNCHANGED retval

(* On to the next question, if there is one.                               *)
GoOn ==
  \/ ~Last /\ step' = "ask" /\ pos' = pos + 1 /\ UNCHANGED retval
  \/ Last /\ retval = "unset" /\ Return
  \/ Last /\ retval # "unset" /\ step' = "returned" /\ UNCHANGED <<pos, retval>>

(* Mutant of Fails: do_dump() goes on and keeps nothing of the failure.    *)
FailsSilently ==
  /\ failed' = failed \cup {Question}
  /\ \/ caller = "dump" /\ GoOn
     \/ caller # "dump" /\ step' = "returned" /\ pos' = pos /\ retval' = "failure"
  /\ UNCHANGED used

(* Every reader but do_dump() gives up.                                    *)
Fails ==
  /\ failed' = failed \cup {Question}
  /\ IF caller = "dump" /\ ~Last
       THEN step' = "ask" /\ pos' = pos + 1
       ELSE step' = "returned" /\ pos' = pos
  /\ retval' = "failure"
  /\ UNCHANGED used

Uses ==
  /\ used' = used \cup {Question}
  /\ GoOn
  /\ UNCHANGED failed

(* u3_partition_info(), u3_data_partition_info(), u3_chip_info().          *)
AskInfo ==
  /\ step = "ask" /\ Question \notin Pages
  /\ Uses \/ Fails
  /\ UNCHANGED <<caller, pageLength, hdrLength, asked, filled, short>>

(* Mutant of ReadLength: as much as the page has.                          *)
ReadLengthUncapped(length, size) == length

ReadLength(length, size) == IF length > size THEN size ELSE length

(* The structure holds n bytes of the page.  The length is the last field  *)
(* of the header: less than a header leaves it to what was on the stack.   *)
Holds(n) ==
  /\ filled' = [filled EXCEPT ![Question] = n]
  /\ hdrLength' \in IF n >= Header THEN {pageLength[Question]} ELSE Lengths

(* u3_send_cmd() succeeds whatever number of bytes comes.                  *)
Came(n, wanted) == short' = IF n < wanted THEN short \cup {Question} ELSE short

(* u3_read_device_property(): the header ...                               *)
ReadHeader ==
  /\ step = "ask" /\ Question \in Pages
  /\ \/ Fails /\ UNCHANGED <<hdrLength, asked, filled, short>>
     \/ /\ \E n \in 0 .. Header : Holds(n) /\ Came(n, Header)
        /\ \/ hdrLength' < Header /\ Fails /\ asked' = Header
           \/ /\ hdrLength' >= Header
              /\ asked' = ReadLength(hdrLength', Size[Question])
              /\ step' = "page"
              /\ UNCHANGED <<pos, used, failed, retval>>
  /\ UNCHANGED <<caller, pageLength>>

Larger(m, n) == IF m > n THEN m ELSE n

(* ... and the page from its start, or as much of it as there is room for. *)
ReadPage ==
  /\ step = "page"
  /\ \/ Fails /\ UNCHANGED <<hdrLength, filled, short>>
     \/ /\ \E n \in 0 .. asked : Holds(Larger(n, filled[Question])) /\ Came(n, asked)
        /\ step' = "look"
        /\ UNCHANGED <<pos, used, failed, retval>>
  /\ UNCHANGED <<caller, pageLength, asked>>

(* Mutant of Accepts: a page that is too short goes through as well.       *)
AcceptsShort(length, size) == caller \in {"info", "tries"} \/ length <= size

(* do_dump() and u3_partition() compare the length with the structure,     *)
(* do_info() and get_tries_left() do not.                                  *)
Accepts(length, size) == caller \in {"info", "tries"} \/ length = size

Look ==
  /\ step = "look"
  /\ \/ Accepts(hdrLength, Size[Question]) /\ Uses
     \/ ~Accepts(hdrLength, Size[Question]) /\ Fails
  /\ UNCHANGED <<caller, pageLength, hdrLength, asked, filled, short>>

(* The next use of the tool, perhaps with another stick.                   *)
Start ==
  /\ step = "returned"
  /\ caller' \in Callers
  /\ pos' = 1 /\ step' = "ask"
  /\ pageLength' \in [Pages -> Lengths]
  /\ hdrLength' = 0 /\ asked' = 0
  /\ filled' = [page \in Pages |-> 0] /\ short' = {}
  /\ used' = {} /\ failed' = {} /\ retval' = "unset"

Next == Start \/ AskInfo \/ ReadHeader \/ ReadPage \/ Look

Spec == Init /\ [][Next]_vars

-----------------------------------------------------------------------------
(* Properties                                                              *)

(* No length a stick puts into a header makes the tool read more than its  *)
(* structure holds.                                                        *)
ReadsFit == \A page \in Pages : filled[page] <= Size[page]

WholePage(page) == page \in used => filled[page] = Size[page]

(* do_dump() prints, and u3_partition() computes with, nothing but bytes   *)
(* that were read, of every page whose transfers brought what was asked.   *)
(* A transfer that did not is a success as well, and its page is used.     *)
WholeUnlessShort ==
  caller \in {"dump", "partition"} => \A page \in Pages \ short : WholePage(page)

(* The same for every reader that reports success: "The caller should      *)
(* check if the full page fitted into the buffer".                         *)
EveryReaderChecks ==
  step = "returned" /\ retval = "success" => \A page \in Pages \ short : WholePage(page)

(* Where u3_read_device_property() is with the page, and what there is of  *)
(* it in the structure.                                                    *)
PageInHand ==
  LET whole == ReadLength(pageLength[Question], Size[Question]) IN
  /\ step = "page" => Header <= asked /\ asked <= Size[Question]
  /\ step \in {"page", "look"} /\ Question \notin short => hdrLength = pageLength[Question]
  /\ step = "page" /\ Question \notin short => asked = whole /\ filled[Question] <= whole
  /\ step = "look" /\ Question \notin short => filled[Question] = whole

Answered == {Questions[caller][i] : i \in 1 .. (pos - 1)}

(* Every question so far is either taken or failed, and retval knows.      *)
Accounted ==
  step # "returned" =>
    /\ used \cup failed = Answered /\ used \cap failed = {}
    /\ caller # "dump" => failed = {}
    /\ retval = IF failed = {} THEN "unset" ELSE "failure"

(* Success means that every answer was there and was used; a failure of    *)
(* any question is returned, by do_dump() too, which goes on to ask all    *)
(* the others: each is either printed or reported.                         *)
ExitTells ==
  step = "returned" =>
    /\ failed # {} => retval = "failure"
    /\ retval = "success" => used = Asked
    /\ caller = "dump" => used \cup failed = Asked
    /\ used \cap failed = {}

(* The inductive invariant behind these properties.                        *)
ReportInv ==
  TypeOK /\ ReadsFit /\ WholeUnlessShort /\ PageInHand /\ Accounted /\ ExitTells
=============================================================================
