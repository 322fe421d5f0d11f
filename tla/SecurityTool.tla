---------------------------- MODULE SecurityTool ----------------------------
(***************************************************************************)
(* The security actions of u3-tool (-u unlock, -c change password, -e      *)
(* enable, -d disable, -R reset security), from main() down to             *)
(* u3_send_cmd(), run by any number of tool processes against one stick.   *)
(*                                                                         *)
(* One step is one prompt answered or one u3_send_cmd() call, so that two  *)
(* processes, a kill, or the owner of the stick can come between any two   *)
(* of them.  With the libusb subsystem u3_open() claims the USB interface  *)
(* and fails while another process holds it (Exclusive = TRUE); the sg and *)
(* spt subsystems open the device without any claim (Exclusive = FALSE).   *)
(***************************************************************************)
EXTENDS SecureZone

CONSTANTS Procs,           \* tool processes
          Actions,         \* the actions users ask for
          KnownPassword,   \* the literal "password" of do_reset_security()
          RoundedTotal,    \* what the stick rounds TotalSize up to
          Exclusive        \* does u3_open() claim the device?

Guesses == {"unlock", "change", "disable"}

ASSUME SecurityToolAssumption ==
  /\ Actions \subseteq Guesses \cup {"enable", "reset"}
  /\ KnownPassword \in Passwords
  /\ RoundedTotal \in Nat /\ RoundedTotal >= TotalSize
  /\ Exclusive \in BOOLEAN

VARIABLES pc,        \* where in main() each process is
          action,    \* the action parsed from its command line
          given,     \* password[]: the current password, as typed
          new,       \* new_password[], as typed
          seen,      \* dpinfo.pass_try as read by get_tries_left()
          consent,   \* has its user answered 'y' to a data loss warning?
          result     \* what it reports: the message and exit status

procVars == <<pc, action, given, new, seen, consent, result>>
vars == <<zoneVars, procVars>>

Labels == {"idle", "open", "ask", "confirm", "tries", "maxtry", "last",
           "guess", "size", "round", "secure", "remove", "close"}

Results == {"none", "ok", "incorrect", "failed", "declined"}

TypeOK ==
  /\ ZoneTypeOK
  /\ pc \in [Procs -> Labels]
  /\ action \in [Procs -> Guesses \cup {"enable", "reset", "none"}]
  /\ given \in [Procs -> Passwords \cup {NoPassword}]
  /\ new \in [Procs -> Passwords \cup {NoPassword}]
  /\ seen \in [Procs -> 0 .. MaxTry]
  /\ consent \in [Procs -> BOOLEAN]
  /\ result \in [Procs -> Results]

Init ==
  /\ ZoneInit
  /\ pc = [p \in Procs |-> "idle"]
  /\ action = [p \in Procs |-> "none"]
  /\ given = [p \in Procs |-> NoPassword]
  /\ new = [p \in Procs |-> NoPassword]
  /\ seen = [p \in Procs |-> 0]
  /\ consent = [p \in Procs |-> FALSE]
  /\ result = [p \in Procs |-> "none"]

(* A process holds the device from a successful u3_open() until u3_close() *)
(* or until it dies.                                                       *)
Holds(p) == pc[p] \notin {"idle", "open"}

At(p, label) == pc[p] = label

GoTo(p, label) ==
  /\ pc' = [pc EXCEPT ![p] = label]
  /\ UNCHANGED result

(* The action has returned to main() and printed its message.              *)
Finish(p, outcome) ==
  /\ pc' = [pc EXCEPT ![p] = "close"]
  /\ result' = [result EXCEPT ![p] = outcome]

(* The process is gone, and its memory with it.                            *)
Gone(p) ==
  /\ pc' = [pc EXCEPT ![p] = "idle"]
  /\ action' = [action EXCEPT ![p] = "none"]
  /\ given' = [given EXCEPT ![p] = NoPassword]
  /\ new' = [new EXCEPT ![p] = NoPassword]
  /\ seen' = [seen EXCEPT ![p] = 0]
  /\ consent' = [consent EXCEPT ![p] = FALSE]
  /\ result' = [result EXCEPT ![p] = "none"]
  /\ UNCHANGED zoneVars

SendCmd(p, Command(_), OnStatus(_)) ==
  ScsiCall(Command, UNCHANGED zoneVars, OnStatus, Finish(p, "failed"))

(* A command that only asks: its failure and its non-zero status both end  *)
(* the action.                                                             *)
Query(p, next) ==
  /\ UNCHANGED zoneVars
  /\ GoTo(p, next) \/ Finish(p, "failed")

-----------------------------------------------------------------------------
(* main()                                                                  *)

(* A user starts the tool; the options are parsed.                         *)
Start(p) ==
  /\ At(p, "idle")
  /\ \E a \in Actions : action' = [action EXCEPT ![p] = a]
  /\ GoTo(p, "open")
  /\ UNCHANGED <<zoneVars, given, new, seen, consent>>

(* Mutant of Open: the claim is not looked at.                             *)
OpenUnclaimed(p) ==
  /\ At(p, "open")
  /\ GoTo(p, "ask")
  /\ UNCHANGED <<zoneVars, action, given, new, seen, consent>>

(* u3_open() succeeds.                                                     *)
Open(p) ==
  /\ At(p, "open")
  /\ Exclusive => \A q \in Procs : ~Holds(q)
  /\ GoTo(p, "ask")
  /\ UNCHANGED <<zoneVars, action, given, new, seen, consent>>

(* u3_open() fails, the device being busy, absent or unknown.              *)
OpenFails(p) == At(p, "open") /\ Gone(p)

NeedsConfirmation == {"enable", "reset"}

(* The password prompts; each is repeated until something is typed.        *)
AskPasswords(p) ==
  /\ At(p, "ask")
  /\ \E pw \in IF action[p] \in Guesses THEN Passwords ELSE {NoPassword} :
       given' = [given EXCEPT ![p] = pw]
  /\ \E pw \in IF action[p] \in {"change", "enable"} THEN Passwords ELSE {NoPassword} :
       new' = [new EXCEPT ![p] = pw]
  /\ GoTo(p, IF action[p] \in NeedsConfirmation THEN "confirm" ELSE "tries")
  /\ UNCHANGED <<zoneVars, action, seen, consent>>

(* Mutant of Confirm: any answer is taken for a yes.                       *)
ConfirmAnyway(p) ==
  /\ At(p, "confirm")
  /\ \E yes \in BOOLEAN : consent' = [consent EXCEPT ![p] = yes]
  /\ GoTo(p, "size")
  /\ UNCHANGED <<zoneVars, action, given, new, seen>>

(* confirm() in main(), before enable and reset.  Declining leaves retval  *)
(* at EXIT_SUCCESS.                                                        *)
Confirm(p) ==
  /\ At(p, "confirm")
  /\ \/ consent' = [consent EXCEPT ![p] = TRUE] /\ GoTo(p, "size")
     \/ UNCHANGED consent /\ Finish(p, "declined")
  /\ UNCHANGED <<zoneVars, action, given, new, seen>>

(* u3_close() and the return from main().                                  *)
Close(p) == At(p, "close") /\ Gone(p)

(* The process is killed: SIGINT and SIGTERM are caught, SIGKILL is not.   *)
Killed(p) == Holds(p) /\ Gone(p)

-----------------------------------------------------------------------------
(* get_tries_left(): the try counter, then the maximum from property 0x0C. *)

(* Mutant of ReadTries: the try about to be made is counted already.       *)
ReadTriesOffByOne(p) ==
  /\ At(p, "tries")
  /\ seen' = [seen EXCEPT ![p] = passTry + 1]
  /\ Query(p, "maxtry")
  /\ UNCHANGED <<action, given, new, consent>>

ReadTries(p) ==
  /\ At(p, "tries")
  /\ seen' = [seen EXCEPT ![p] = passTry]
  /\ Query(p, "maxtry")
  /\ UNCHANGED <<action, given, new, consent>>

TriesLeft(p) == MaxTry - seen[p]

(* Mutant of AfterTries: the last try is like any other.                   *)
AfterTriesUnwarned(p) ==
  \/ TriesLeft(p) = 0 /\ Finish(p, "failed")
  \/ TriesLeft(p) # 0 /\ GoTo(p, "guess")

(* ... and the decision each of do_unlock(), do_change_password() and      *)
(* do_disable_security() takes on it.                                      *)
AfterTries(p) ==
  \/ TriesLeft(p) = 0 /\ Finish(p, "failed")
  \/ TriesLeft(p) = 1 /\ GoTo(p, "last")
  \/ TriesLeft(p) \notin {0, 1} /\ GoTo(p, "guess")

ReadMaxTry(p) ==
  /\ At(p, "maxtry")
  /\ AfterTries(p) \/ Finish(p, "failed")
  /\ UNCHANGED <<zoneVars, action, given, new, seen, consent>>

(* The warning that this is the last try.                                  *)
WarnLastTry(p) ==
  /\ At(p, "last")
  /\ \/ consent' = [consent EXCEPT ![p] = TRUE] /\ GoTo(p, "guess")
     \/ UNCHANGED consent /\ Finish(p, "failed")
  /\ UNCHANGED <<zoneVars, action, given, new, seen>>

(* u3_unlock(), u3_change_password() and u3_disable_security(): "result"   *)
(* says whether the status was zero, and any other is reported as          *)
(* "Password incorrect".                                                   *)
GuessCommand(p, status) ==
  \/ action[p] = "unlock" /\ Unlock(given[p], status)
  \/ action[p] = "change" /\ ChangePassword(given[p], new[p], status)
  \/ action[p] = "disable" /\ RemoveZone(given[p], status)

(* Mutant of GuessStatus: "result" is not looked at.                       *)
GuessAnyStatus(p, status) == status \in Statuses /\ Finish(p, "ok")

GuessStatus(p, status) == Finish(p, IF status = 0 THEN "ok" ELSE "incorrect")

Guess(p) ==
  /\ At(p, "guess")
  /\ SendCmd(p, LAMBDA status : GuessCommand(p, status), LAMBDA status : GuessStatus(p, status))
  /\ UNCHANGED <<action, given, new, seen, consent>>

-----------------------------------------------------------------------------
(* u3_enable_security(): ask the size, have it rounded unless it is zero,  *)
(* make the zone.  do_reset_security() calls it with the known password    *)
(* and then removes the zone with it.                                      *)

ZoneSize == IF TotalSize # 0 THEN RoundedTotal ELSE 0

ReadSize(p) ==
  /\ At(p, "size")
  /\ Query(p, IF TotalSize # 0 THEN "round" ELSE "secure")
  /\ UNCHANGED <<action, given, new, seen, consent>>

RoundSize(p) ==
  /\ At(p, "round")
  /\ Query(p, "secure")
  /\ UNCHANGED <<action, given, new, seen, consent>>

(* Mutant of NewPassword: -R secures with the password buffer of main().   *)
NewPasswordTyped(p) == new[p]

NewPassword(p) == IF action[p] = "reset" THEN KnownPassword ELSE new[p]

(* Mutant of SecureStatus: -R is done when the zone is made.               *)
SecureStatusOnly(p, status) ==
  Finish(p, IF status = 0 THEN "ok" ELSE "failed")

SecureStatus(p, status) ==
  \/ status # 0 /\ Finish(p, "failed")
  \/ status = 0 /\ action[p] = "reset" /\ GoTo(p, "remove")
  \/ status = 0 /\ action[p] = "enable" /\ Finish(p, "ok")

Secure(p) ==
  /\ At(p, "secure")
  /\ SendCmd(p, LAMBDA status : MakeZone(ZoneSize, NewPassword(p), status),
                LAMBDA status : SecureStatus(p, status))
  /\ UNCHANGED <<action, given, new, seen, consent>>

(* The second half of do_reset_security(): a wrong password prints Failed. *)
RemoveStatus(p, status) == Finish(p, IF status = 0 THEN "ok" ELSE "failed")

Remove(p) ==
  /\ At(p, "remove")
  /\ SendCmd(p, LAMBDA status : RemoveZone(KnownPassword, status),
                LAMBDA status : RemoveStatus(p, status))
  /\ UNCHANGED <<action, given, new, seen, consent>>

-----------------------------------------------------------------------------
(* The owner puts files on the stick, unless the tool has taken the        *)
(* interface from the operating system, or replugs it between two uses.    *)
Owner ==
  /\ \/ (Exclusive => \A p \in Procs : ~Holds(p)) /\ StoreFiles
     \/ (\A p \in Procs : ~Holds(p)) /\ Replug
  /\ UNCHANGED procVars

Main(p) ==
  Start(p) \/ Open(p) \/ OpenFails(p) \/ AskPasswords(p) \/ Confirm(p) \/ Close(p)

Act(p) ==
  \/ ReadTries(p) \/ ReadMaxTry(p) \/ WarnLastTry(p) \/ Guess(p)
  \/ ReadSize(p) \/ RoundSize(p) \/ Secure(p) \/ Remove(p)

Next == Owner \/ \E p \in Procs : Main(p) \/ Act(p) \/ Killed(p)

Spec == Init /\ [][Next]_vars

-----------------------------------------------------------------------------
(* Properties                                                              *)

(* Files are lost, or the stick becomes blocked, only in a step of a       *)
(* process whose user was warned of that very risk and said yes: the       *)
(* confirm() calls before enable, reset and the last password try are      *)
(* where they have to be, and what was read before them is still true.     *)
ConsentBeforeLoss ==
  [][ (data' = "lost" /\ data = "present") \/ (Blocked' /\ ~Blocked)
        => \E p \in Procs : consent[p] /\ pc'[p] # pc[p] ]_vars

TriesTrue(p) == pc[p] \in {"maxtry", "last", "guess"} => seen[p] = passTry

(* While a process holds the stick, the number of tries it decided on is   *)
(* the number the stick would give now: get_tries_left()'s answer does not *)
(* go stale between the read and the password it guards.                   *)
TriesStayTrue == \A p \in Procs : TriesTrue(p)

(* What "OK" means for each action, in terms of the stick.                 *)
OkHolds(p) ==
  /\ action[p] = "unlock" => unlocked = 1
  /\ action[p] = "change" => passwd = new[p] /\ zone # 0
  /\ action[p] = "enable" => passwd = new[p] /\ zone = ZoneSize
  /\ action[p] \in {"disable", "reset"} => zone = 0

OkTrue(p) == At(p, "close") /\ result[p] = "ok" => OkHolds(p)

(* A reported OK is still true when the process lets go of the stick,      *)
(* whatever happened between the last command and u3_close().              *)
ReportedOkIsTrue == \A p \in Procs : OkTrue(p)

ResetReady(p) ==
  At(p, "remove") => passwd = KnownPassword /\ passTry = 0 /\ zone = ZoneSize

(* -R never spends a password try: when it comes to removing the zone, the *)
(* zone is the full one it just made, under the password it will give.     *)
ResetKnowsThePassword == \A p \in Procs : ResetReady(p)

(* Without the claim the warning still comes before every loss other than  *)
(* the one a stale try counter causes: replacing a zone takes a 'y'.       *)
ConsentBeforeReplacing ==
  [][ data' = "lost" /\ data = "present" /\ ~Blocked'
        => \E p \in Procs : consent[p] /\ pc'[p] # pc[p] ]_vars

(* u3_change_password() returns "False if old password incorrect".         *)
FalseMeansWrongPassword ==
  [][ \A p \in Procs :
        /\ action[p] = "change" /\ At(p, "guess")
        /\ result'[p] = "incorrect"
        => given[p] # passwd ]_vars

-----------------------------------------------------------------------------
(* The inductive invariant behind these properties.                        *)

(* At most one process is past u3_open().                                  *)
SingleHolder == \A p, q \in Procs : Holds(p) /\ Holds(q) => p = q

(* Which actions get where in main().                                      *)
ActionAtLabel ==
  \A p \in Procs :
    /\ pc[p] \in {"open", "ask"} => action[p] # "none"
    /\ pc[p] \in {"tries", "maxtry", "last", "guess"} => action[p] \in Guesses
    /\ pc[p] \in {"confirm", "size", "round", "secure"} => action[p] \in NeedsConfirmation
    /\ At(p, "remove") => action[p] = "reset"

(* Every destructive stretch of the code is behind its confirm().          *)
ConsentAtLabel ==
  \A p \in Procs :
    /\ pc[p] \in {"size", "round", "secure", "remove"} => consent[p]
    /\ At(p, "guess") => TriesLeft(p) > 1 \/ consent[p]

(* Sound for any number of processes, with the claim or without.           *)
LocalInv == TypeOK /\ ActionAtLabel /\ ConsentAtLabel

(* With the claim.                                                         *)
ClaimInv ==
  LocalInv /\ SingleHolder /\ TriesStayTrue /\ ReportedOkIsTrue /\ ResetKnowsThePassword

-----------------------------------------------------------------------------
(* Fairness: the operating system runs every process, and no step of the   *)
(* reset sequence is killed, refused, failed or declined every time it is  *)
(* tried.  Nothing is assumed of any one run of the tool.                  *)

Advance(p, label) ==
  /\ At(p, label)
  /\ Main(p) \/ Act(p)
  /\ result'[p] \notin {"failed", "declined"}
  /\ ~At(p, "idle")'

ResetSteps == {"open", "ask", "confirm", "size", "round", "secure", "remove"}

Fairness ==
  /\ \A p \in Procs : WF_vars(Main(p) \/ Act(p))
  /\ \A label \in ResetSteps : SF_vars(\E p \in Procs : Advance(p, label))

FairSpec == Spec /\ Fairness

OnlyReset == \A p \in Procs : action[p] \in {"none", "reset"}

(* While nothing but -R is run, a stick that is not blocked stays so,      *)
(* whatever was run before: nobody who has spent tries, or put a password  *)
(* of his own on the stick, gets in between the zone do_reset_security()   *)
(* makes and the removal it sends with the password it has just set.       *)
StaysUsable == [][OnlyReset /\ ~Blocked => ~Blocked']_vars

(* Whatever was run before: a blocked stick on which nothing but -R is run *)
(* any more is usable again in the end, whatever is killed, lost or        *)
(* answered busy on the way.                                               *)
ResetRecovers == <>[]OnlyReset => (Blocked ~> zone = 0 /\ ~Blocked)
=============================================================================
