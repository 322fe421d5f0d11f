------------------------- MODULE SecurityToolProofs -------------------------
(* Proofs about SecurityTool, for every set of processes and passwords,    *)
(* every size and every maximum of password tries.                         *)
EXTENDS SecurityTool, TLAPS

USE SecureZoneAssumption, SecurityToolAssumption

(* A password command keeps the state of the stick well-typed.             *)
LEMMA GuessTypes ==
  ASSUME TypeOK, NEW p \in Procs, NEW status \in Statuses, GuessCommand(p, status)
  PROVE  ZoneTypeOK'
<1> USE DEF TypeOK, ZoneTypeOK, Serves, Blocked, Refuse, CountTry, ClearTries, zoneVars
<1>1. CASE Unlock(given[p], status)
  BY <1>1 DEF Unlock
<1>2. CASE ChangePassword(given[p], new[p], status)
  BY <1>2 DEF ChangePassword
<1>3. CASE RemoveZone(given[p], status)
  BY <1>3 DEF RemoveZone, Dissolvable
<1> QED BY <1>1, <1>2, <1>3 DEF GuessCommand

(* Removing a zone keeps the state of the stick well-typed.                *)
LEMMA RemoveTypes ==
  ASSUME TypeOK, NEW status \in Statuses, RemoveZone(KnownPassword, status)
  PROVE  ZoneTypeOK'
  BY DEF TypeOK, ZoneTypeOK, RemoveZone, Dissolvable, Serves, Blocked,
         Refuse, CountTry, ClearTries, zoneVars

(* Making a zone keeps the state of the stick well-typed.                  *)
LEMMA MakeTypes ==
  ASSUME TypeOK, NEW p \in Procs, NEW status \in Statuses,
         MakeZone(ZoneSize, NewPassword(p), status)
  PROVE  ZoneTypeOK'
<1>1. NewPassword(p) \in Passwords \cup {NoPassword}
  BY DEF TypeOK, NewPassword
<1>2. ZoneSize \in Nat
  BY DEF ZoneSize
<1> QED
  BY <1>1, <1>2 DEF TypeOK, ZoneTypeOK, MakeZone, Refuse, zoneVars

(* Every step keeps the types.                                             *)
LEMMA TypeStep ==
  ASSUME TypeOK, [Next]_vars
  PROVE  TypeOK'
<1> USE DEF TypeOK, Labels, Results, At, GoTo, Finish
<1>1. CASE Owner
  BY <1>1 DEF Owner, StoreFiles, Replug, ZoneTypeOK, procVars
<1>2. ASSUME NEW p \in Procs, Gone(p) PROVE TypeOK'
  BY <1>2 DEF Gone, ZoneTypeOK, zoneVars
<1>3. ASSUME NEW p \in Procs, Start(p) PROVE TypeOK'
  BY <1>3 DEF Start, ZoneTypeOK, zoneVars
<1>4. ASSUME NEW p \in Procs, Open(p) PROVE TypeOK'
  BY <1>4 DEF Open, ZoneTypeOK, zoneVars
<1>5. ASSUME NEW p \in Procs, AskPasswords(p) PROVE TypeOK'
  BY <1>5 DEF AskPasswords, ZoneTypeOK, zoneVars
<1>6. ASSUME NEW p \in Procs, Confirm(p) PROVE TypeOK'
  BY <1>6 DEF Confirm, ZoneTypeOK, zoneVars
<1>7. ASSUME NEW p \in Procs, ReadTries(p) PROVE TypeOK'
  BY <1>7 DEF ReadTries, Query, ZoneTypeOK, zoneVars
<1>8. ASSUME NEW p \in Procs, ReadMaxTry(p) PROVE TypeOK'
  BY <1>8 DEF ReadMaxTry, AfterTries, ZoneTypeOK, zoneVars
<1>9. ASSUME NEW p \in Procs, WarnLastTry(p) PROVE TypeOK'
  BY <1>9 DEF WarnLastTry, ZoneTypeOK, zoneVars
<1>10. ASSUME NEW p \in Procs, Guess(p) PROVE TypeOK'
  <2>1. ZoneTypeOK'
    BY <1>10, GuessTypes DEF Guess, SendCmd, ScsiCall, ZoneTypeOK, zoneVars
  <2> QED BY <1>10, <2>1 DEF Guess, SendCmd, ScsiCall, GuessStatus
<1>11. ASSUME NEW p \in Procs, ReadSize(p) PROVE TypeOK'
  BY <1>11 DEF ReadSize, Query, ZoneTypeOK, zoneVars
<1>12. ASSUME NEW p \in Procs, RoundSize(p) PROVE TypeOK'
  BY <1>12 DEF RoundSize, Query, ZoneTypeOK, zoneVars
<1>13. ASSUME NEW p \in Procs, Secure(p) PROVE TypeOK'
  <2>1. ZoneTypeOK'
    BY <1>13, MakeTypes DEF Secure, SendCmd, ScsiCall, ZoneTypeOK, zoneVars
  <2> QED BY <1>13, <2>1 DEF Secure, SendCmd, ScsiCall, SecureStatus
<1>14. ASSUME NEW p \in Procs, Remove(p) PROVE TypeOK'
  <2>1. ZoneTypeOK'
    BY <1>14, RemoveTypes DEF Remove, SendCmd, ScsiCall, ZoneTypeOK, zoneVars
  <2> QED BY <1>14, <2>1 DEF Remove, SendCmd, ScsiCall, RemoveStatus
<1>15. CASE UNCHANGED vars
  BY <1>15 DEF vars, zoneVars, procVars, ZoneTypeOK
<1> QED
  BY <1>1, <1>2, <1>3, <1>4, <1>5, <1>6, <1>7, <1>8, <1>9, <1>10, <1>11,
     <1>12, <1>13, <1>14, <1>15 DEF Next, Main, Act, Close, Killed, OpenFails

(* Every initial state is well-typed.                                      *)
LEMMA TypeInit == Init => TypeOK
BY DEF Init, TypeOK, ZoneInit, Labels, Results

(* Every state is well-typed: no try counter above the maximum, no zone    *)
(* larger than the partition, no process at an unknown place.              *)
THEOREM TypeCorrect == Spec => []TypeOK
<1>1. TypeOK /\ [Next]_vars => TypeOK'
  BY TypeStep
<1> QED BY TypeInit, <1>1, PTL DEF Spec

-----------------------------------------------------------------------------
(* The part of the invariant that every process keeps for itself, whether  *)
(* or not the device is claimed.                                           *)

(* Labels, actions and consent stay together in every step.                *)
LEMMA LocalStep ==
  ASSUME LocalInv, [Next]_vars
  PROVE  LocalInv'
<1> USE DEF LocalInv, ActionAtLabel, ConsentAtLabel, TypeOK, Labels, Results,
            At, GoTo, Finish, TriesLeft, NeedsConfirmation, Guesses
<1>1. TypeOK'
  BY TypeStep
<1>2. CASE Owner
  BY <1>1, <1>2 DEF Owner, procVars
<1>3. ASSUME NEW p \in Procs, Gone(p) PROVE LocalInv'
  BY <1>1, <1>3 DEF Gone
<1>4. ASSUME NEW p \in Procs, Start(p) PROVE LocalInv'
  BY <1>1, <1>4 DEF Start
<1>5. ASSUME NEW p \in Procs, Open(p) PROVE LocalInv'
  BY <1>1, <1>5 DEF Open
<1>6. ASSUME NEW p \in Procs, AskPasswords(p) PROVE LocalInv'
  BY <1>1, <1>6 DEF AskPasswords
<1>7. ASSUME NEW p \in Procs, Confirm(p) PROVE LocalInv'
  BY <1>1, <1>7 DEF Confirm
<1>8. ASSUME NEW p \in Procs, ReadTries(p) PROVE LocalInv'
  BY <1>1, <1>8 DEF ReadTries, Query
<1>9. ASSUME NEW p \in Procs, ReadMaxTry(p) PROVE LocalInv'
  <2>1. seen' = seen /\ consent' = consent /\ action' = action
    BY <1>9 DEF ReadMaxTry
  <2>2. CASE pc' = [pc EXCEPT ![p] = "close"]
    BY <1>1, <2>1, <2>2
  <2>3. CASE TriesLeft(p) = 1 /\ pc' = [pc EXCEPT ![p] = "last"]
    BY <1>1, <1>9, <2>1, <2>3 DEF ReadMaxTry
  <2>4. CASE TriesLeft(p) \notin {0, 1} /\ pc' = [pc EXCEPT ![p] = "guess"]
    <3>1. MaxTry - seen[p] > 1
      BY <2>4
    <3> QED BY <1>1, <1>9, <2>1, <2>4, <3>1 DEF ReadMaxTry
  <2> QED BY <1>9, <2>2, <2>3, <2>4 DEF ReadMaxTry, AfterTries
<1>10. ASSUME NEW p \in Procs, WarnLastTry(p) PROVE LocalInv'
  BY <1>1, <1>10 DEF WarnLastTry
<1>11. ASSUME NEW p \in Procs, Guess(p) PROVE LocalInv'
  BY <1>1, <1>11 DEF Guess, SendCmd, ScsiCall, GuessStatus
<1>12. ASSUME NEW p \in Procs, ReadSize(p) PROVE LocalInv'
  BY <1>1, <1>12 DEF ReadSize, Query
<1>13. ASSUME NEW p \in Procs, RoundSize(p) PROVE LocalInv'
  BY <1>1, <1>13 DEF RoundSize, Query
<1>14. ASSUME NEW p \in Procs, Secure(p) PROVE LocalInv'
  BY <1>1, <1>14 DEF Secure, SendCmd, ScsiCall, SecureStatus
<1>15. ASSUME NEW p \in Procs, Remove(p) PROVE LocalInv'
  BY <1>1, <1>15 DEF Remove, SendCmd, ScsiCall, RemoveStatus
<1>16. CASE UNCHANGED vars
  BY <1>1, <1>16 DEF vars, procVars
<1> QED
  BY <1>2, <1>3, <1>4, <1>5, <1>6, <1>7, <1>8, <1>9, <1>10, <1>11, <1>12, <1>13,
     <1>14, <1>15, <1>16 DEF Next, Main, Act, Close, Killed, OpenFails

(* With the claim or without, where a process stands tells what it runs,   *)
(* what was agreed to and what it read.                                    *)
THEOREM LocalCorrect == Spec => []LocalInv
<1>1. Init => LocalInv
  BY TypeInit DEF Init, LocalInv, ActionAtLabel, ConsentAtLabel, At
<1>2. LocalInv /\ [Next]_vars => LocalInv'
  BY LocalStep
<1> QED BY <1>1, <1>2, PTL DEF Spec

(* Replacing a zone takes a 'y', with the claim or without: the warnings   *)
(* before -e and -R are in front of every path to the command.             *)
THEOREM ReplacingIsConsented == Spec => ConsentBeforeReplacing
<1>1. Init => LocalInv
  BY TypeInit DEF Init, LocalInv, ActionAtLabel, ConsentAtLabel, At
<1>2. LocalInv /\ [Next]_vars => LocalInv'
  BY LocalStep
<1>3. ASSUME LocalInv, [Next]_vars, data' = "lost", data = "present", ~Blocked'
      PROVE  \E p \in Procs : consent[p] /\ pc'[p] # pc[p]
  <2>1. data' # data
    BY <1>3
  <2>2. ASSUME NEW p \in Procs, Guess(p) PROVE FALSE
    <3>1. passTry' = MaxTry
      BY <1>3, <2>1, <2>2 DEF Guess, SendCmd, ScsiCall, GuessCommand, Unlock, ChangePassword,
         RemoveZone, Refuse, CountTry, ClearTries, zoneVars
    <3> QED BY <1>3, <3>1 DEF Blocked
  <2>3. ASSUME NEW p \in Procs, Remove(p) PROVE FALSE
    <3>1. passTry' = MaxTry
      BY <1>3, <2>1, <2>3 DEF Remove, SendCmd, ScsiCall,
         RemoveZone, Refuse, CountTry, ClearTries, zoneVars
    <3> QED BY <1>3, <3>1 DEF Blocked
  <2>4. ASSUME NEW p \in Procs, Secure(p) PROVE consent[p] /\ pc'[p] # pc[p]
    BY <1>3, <2>4 DEF LocalInv, ConsentAtLabel, TypeOK, Secure, SendCmd, ScsiCall, SecureStatus,
       At, GoTo, Finish
  <2>5. PICK p \in Procs : Secure(p)
    BY <1>3, <2>1, <2>2, <2>3 DEF Next, Main, Act, Close, Killed, OpenFails, Owner,
       StoreFiles, Replug, Gone, Start, Open, AskPasswords, Confirm, ReadTries,
       ReadMaxTry, WarnLastTry, ReadSize, RoundSize, Query, zoneVars, vars
  <2> QED BY <2>4, <2>5
<1>4. LocalInv /\ [Next]_vars =>
        [ data' = "lost" /\ data = "present" /\ ~Blocked'
            => \E p \in Procs : consent[p] /\ pc'[p] # pc[p] ]_vars
  BY <1>3
<1> QED BY <1>1, <1>2, <1>4, PTL DEF Spec, ConsentBeforeReplacing

-----------------------------------------------------------------------------
(* What the claim of u3_open() adds.                                       *)

(* A step leaves the stick and p's own state alone when p holds the stick  *)
(* and another process moves.                                              *)
LEMMA Undisturbed ==
  ASSUME Exclusive, LocalInv, SingleHolder, NEW p \in Procs, Holds(p),
         NEW q \in Procs, q # p, Main(q) \/ Act(q) \/ Killed(q)
  PROVE  /\ UNCHANGED zoneVars
         /\ pc'[p] = pc[p] /\ action'[p] = action[p] /\ new'[p] = new[p]
         /\ seen'[p] = seen[p] /\ result'[p] = result[p]
<1>1. pc[q] \in {"idle", "open"}
  BY DEF SingleHolder, Holds
<1>2. Start(q) \/ OpenFails(q)
  BY <1>1 DEF Main, Act, Killed, Holds, At, Open, AskPasswords, Confirm, Close,
     ReadTries, ReadMaxTry, WarnLastTry, Guess, ReadSize, RoundSize, Secure, Remove
<1> QED
  BY <1>2 DEF Start, OpenFails, Gone, GoTo, LocalInv, TypeOK

(* u3_open() lets nobody in while another process holds the stick.         *)
LEMMA SingleHolderStep ==
  ASSUME Exclusive, LocalInv, SingleHolder, [Next]_vars
  PROVE  SingleHolder'
<1> USE DEF LocalInv, TypeOK, SingleHolder, Holds, At, GoTo, Finish
<1>1. ASSUME NEW p \in Procs, Open(p) PROVE SingleHolder'
  BY <1>1 DEF Open
<1>2. ASSUME NEW p \in Procs, Start(p) \/ Gone(p) PROVE SingleHolder'
  BY <1>2 DEF Start, Gone
<1>3. ASSUME NEW p \in Procs,
             \/ AskPasswords(p) \/ Confirm(p) \/ Act(p)
      PROVE  SingleHolder'
  <2>1. Holds(p)
    BY <1>3 DEF AskPasswords, Confirm, Act, ReadTries, ReadMaxTry, WarnLastTry,
       Guess, ReadSize, RoundSize, Secure, Remove
  <2>2. \E l \in Labels : pc' = [pc EXCEPT ![p] = l]
    BY <1>3 DEF AskPasswords, Confirm, Act, ReadTries, ReadMaxTry, WarnLastTry,
       Guess, ReadSize, RoundSize, Secure, Remove, Query, AfterTries, SendCmd, ScsiCall,
       GuessStatus, SecureStatus, RemoveStatus, Labels
  <2> QED BY <2>1, <2>2
<1>4. CASE Owner \/ UNCHANGED vars
  BY <1>4 DEF Owner, procVars, vars
<1> QED
  BY <1>1, <1>2, <1>3, <1>4 DEF Next, Main, Close, Killed, OpenFails

(* No process is past u3_open() by the step of another.                    *)
LEMMA OthersStayAway ==
  ASSUME LocalInv, NEW p \in Procs, ~Holds(p),
         NEW q \in Procs, q # p, Main(q) \/ Act(q) \/ Killed(q)
  PROVE  ~Holds(p)'
<1>1. \E l \in Labels : pc' = [pc EXCEPT ![q] = l]
  BY DEF Main, Act, Killed, Start, Open, OpenFails, AskPasswords, Confirm, Close, Gone,
     ReadTries, ReadMaxTry, WarnLastTry, Guess, ReadSize, RoundSize, Secure, Remove,
     Query, AfterTries, SendCmd, ScsiCall, GuessStatus, SecureStatus, RemoveStatus,
     GoTo, Finish, Labels
<1> QED BY <1>1 DEF LocalInv, TypeOK, Holds

(* What the command of each action leaves behind when its status is good.  *)
LEMMA GuessOk ==
  ASSUME TypeOK, NEW p \in Procs, GuessCommand(p, 0), action[p] \in Guesses
  PROVE  /\ action[p] = "unlock" => unlocked' = 1
         /\ action[p] = "change" => passwd' = new[p] /\ zone' # 0
         /\ action[p] = "disable" => zone' = 0
BY DEF GuessCommand, Unlock, ChangePassword, RemoveZone, Refuse, CountTry, ClearTries,
   Serves, Guesses

(* What u3_enable_security() leaves behind when its status is good.        *)
LEMMA MakeOk ==
  ASSUME NEW p \in Procs, MakeZone(ZoneSize, NewPassword(p), 0)
  PROVE  zone' = ZoneSize /\ passwd' = NewPassword(p) /\ passTry' = 0
BY DEF MakeZone, Refuse

(* The holder's own step.                                                  *)
LEMMA HolderStep ==
  ASSUME ClaimInv, NEW p \in Procs, Main(p) \/ Act(p) \/ Killed(p)
  PROVE  TriesTrue(p)' /\ OkTrue(p)' /\ ResetReady(p)'
<1> USE DEF ClaimInv, LocalInv, TypeOK, TriesTrue, OkTrue, ResetReady, At, GoTo, Finish
<1>1. TypeOK'
  BY TypeStep DEF Next
<1>2. CASE Start(p) \/ Open(p) \/ AskPasswords(p) \/ Confirm(p) \/ Gone(p)
  BY <1>1, <1>2 DEF Start, Open, AskPasswords, Confirm, Gone
<1>3. CASE ReadTries(p) \/ ReadSize(p) \/ RoundSize(p)
  BY <1>1, <1>3 DEF ReadTries, ReadSize, RoundSize, Query, zoneVars
<1>4. CASE ReadMaxTry(p) \/ WarnLastTry(p)
  BY <1>1, <1>4 DEF ReadMaxTry, WarnLastTry, AfterTries, TriesStayTrue, zoneVars
<1>5. CASE Guess(p)
  <2>1. pc' = [pc EXCEPT ![p] = "close"] /\ action' = action /\ new' = new
    BY <1>5 DEF Guess, SendCmd, ScsiCall, GuessStatus
  <2>2. action[p] \in Guesses
    BY <1>5 DEF Guess, ActionAtLabel
  <2>3. CASE result'[p] = "ok"
    <3>1. GuessCommand(p, 0)
      BY <1>5, <2>3 DEF Guess, SendCmd, ScsiCall, GuessStatus, Statuses
    <3> QED BY <2>1, <2>2, <3>1, GuessOk DEF OkHolds, Guesses
  <2> QED BY <2>1, <2>3
<1>6. CASE Secure(p)
  <2>1. action' = action /\ new' = new
    BY <1>6 DEF Secure
  <2>2. action[p] \in NeedsConfirmation
    BY <1>6 DEF Secure, ActionAtLabel
  <2>3. CASE result'[p] # "ok" /\ pc' = [pc EXCEPT ![p] = "close"]
    BY <2>3
  <2>4. CASE MakeZone(ZoneSize, NewPassword(p), 0) /\ SecureStatus(p, 0)
    <3>1. zone' = ZoneSize /\ passwd' = NewPassword(p) /\ passTry' = 0
      BY <2>4, MakeOk
    <3>2. ZoneSize' = ZoneSize
      BY DEF ZoneSize
    <3>3. CASE action[p] = "reset"
      BY <2>1, <2>4, <3>1, <3>2, <3>3 DEF SecureStatus, NewPassword
    <3>4. CASE action[p] = "enable"
      BY <2>1, <2>4, <3>1, <3>2, <3>4 DEF SecureStatus, NewPassword, OkHolds
    <3> QED BY <2>2, <3>3, <3>4 DEF NeedsConfirmation
  <2> QED BY <1>6, <2>3, <2>4 DEF Secure, SendCmd, ScsiCall, SecureStatus, Statuses
<1>7. CASE Remove(p)
  <2>1. pc' = [pc EXCEPT ![p] = "close"] /\ action' = action
    BY <1>7 DEF Remove, SendCmd, ScsiCall, RemoveStatus
  <2>2. action[p] = "reset"
    BY <1>7 DEF Remove, ActionAtLabel
  <2>3. CASE result'[p] = "ok"
    <3>1. RemoveZone(KnownPassword, 0)
      BY <1>7, <2>3 DEF Remove, SendCmd, ScsiCall, RemoveStatus, Statuses
    <3> QED BY <2>1, <2>2, <3>1 DEF OkHolds, RemoveZone, Refuse, CountTry, ClearTries
  <2> QED BY <2>1, <2>3
<1> QED
  BY <1>2, <1>3, <1>4, <1>5, <1>6, <1>7 DEF Main, Act, Killed, Close, OpenFails

(* With the claim, every step preserves the inductive invariant.           *)
LEMMA ClaimStep ==
  ASSUME Exclusive, ClaimInv, [Next]_vars
  PROVE  ClaimInv'
<1> USE DEF ClaimInv
<1>1. LocalInv' /\ SingleHolder'
  BY LocalStep, SingleHolderStep
<1>2. ASSUME NEW p \in Procs PROVE TriesTrue(p)' /\ OkTrue(p)' /\ ResetReady(p)'
  <2> USE <1>2
  <2> DEFINE Safe == TriesTrue(p)' /\ OkTrue(p)' /\ ResetReady(p)'
  <2>1. ASSUME ~Holds(p)' PROVE Safe
    BY <2>1 DEF Holds, TriesTrue, OkTrue, ResetReady, At
  <2>2. ASSUME UNCHANGED zoneVars,
               pc'[p] = pc[p], action'[p] = action[p], new'[p] = new[p],
               seen'[p] = seen[p], result'[p] = result[p]
        PROVE  Safe
    BY <2>2 DEF TriesStayTrue, ReportedOkIsTrue, ResetKnowsThePassword, TriesTrue,
       OkTrue, ResetReady, OkHolds, ZoneSize, At, zoneVars
  <2>3. CASE Owner
    BY <2>1, <2>3 DEF Owner, Holds, procVars
  <2>4. CASE UNCHANGED vars
    BY <2>2, <2>4 DEF vars, procVars
  <2>5. CASE Main(p) \/ Act(p) \/ Killed(p)
    BY <2>5, HolderStep
  <2>6. ASSUME NEW q \in Procs, q # p, Main(q) \/ Act(q) \/ Killed(q) PROVE Safe
    <3>1. CASE Holds(p)
      BY <2>2, <2>6, <3>1, Undisturbed
    <3>2. CASE ~Holds(p)
      BY <2>1, <2>6, <3>2, OthersStayAway
    <3> QED BY <3>1, <3>2
  <2> QED BY <2>3, <2>4, <2>5, <2>6 DEF Next
<1> QED
  BY <1>1, <1>2 DEF TriesStayTrue, ReportedOkIsTrue, ResetKnowsThePassword

(* With the claim, the holder is alone, what it read stays true, an OK it  *)
(* prints is true of the stick, and -R removes its zone with the password  *)
(* it has just set: for any number of processes and any maximum of tries.  *)
THEOREM ClaimCorrect == ASSUME Exclusive PROVE Spec => []ClaimInv
<1>1. Init => ClaimInv
  BY TypeInit DEF Init, ClaimInv, LocalInv, ActionAtLabel, ConsentAtLabel, At,
     SingleHolder, Holds, TriesStayTrue, TriesTrue, ReportedOkIsTrue, OkTrue,
     ResetKnowsThePassword, ResetReady
<1>2. ClaimInv /\ [Next]_vars => ClaimInv'
  BY ClaimStep
<1> QED BY <1>1, <1>2, PTL DEF Spec

(* The number of tries the last-try warning is decided on never goes stale *)
(* between get_tries_left() and the password command.                      *)
THEOREM TriesAreTrue == ASSUME Exclusive PROVE Spec => []TriesStayTrue
<1>1. ClaimInv => TriesStayTrue
  BY DEF ClaimInv
<1> QED BY <1>1, ClaimCorrect, PTL

(* "OK" and exit status 0 are true of the stick until u3_close().          *)
THEOREM OkIsTrue == ASSUME Exclusive PROVE Spec => []ReportedOkIsTrue
<1>1. ClaimInv => ReportedOkIsTrue
  BY DEF ClaimInv
<1> QED BY <1>1, ClaimCorrect, PTL

(* do_reset_security() removes the zone it made with the password it set.  *)
THEOREM ResetIsSure == ASSUME Exclusive PROVE Spec => []ResetKnowsThePassword
<1>1. ClaimInv => ResetKnowsThePassword
  BY DEF ClaimInv
<1> QED BY <1>1, ClaimCorrect, PTL

(* Nothing is lost and nothing blocked without a 'y' to the warning that   *)
(* names the loss: the try counter that decided whether to warn is the one *)
(* the wrong password meets, and -R never gives a wrong one.               *)
THEOREM LossIsConsented == ASSUME Exclusive PROVE Spec => ConsentBeforeLoss
<1>1. ASSUME ClaimInv, [Next]_vars,
             (data' = "lost" /\ data = "present") \/ (Blocked' /\ ~Blocked)
      PROVE  \E p \in Procs : consent[p] /\ pc'[p] # pc[p]
  <2> USE DEF ClaimInv, LocalInv, At
  <2>1. data' # data \/ passTry' # passTry
    BY <1>1 DEF Blocked
  <2>2. ASSUME NEW p \in Procs, Guess(p) PROVE consent[p] /\ pc'[p] # pc[p]
    <3>1. pc[p] = "guess" /\ pc' = [pc EXCEPT ![p] = "close"]
      BY <2>2 DEF Guess, SendCmd, ScsiCall, GuessStatus, Finish
    <3>2. PICK status \in Statuses : GuessCommand(p, status)
      BY <2>1, <2>2 DEF Guess, SendCmd, ScsiCall, zoneVars
    <3>3. passTry + 1 = MaxTry
      BY <1>1, <3>2 DEF GuessCommand, Unlock, ChangePassword, RemoveZone, Refuse,
         CountTry, ClearTries, Serves, Dissolvable, Blocked, zoneVars
    <3>4. TriesLeft(p) = 1
      <4>1. seen[p] = passTry
        BY <1>1, <3>1 DEF TriesStayTrue, TriesTrue
      <4> QED BY <1>1, <3>3, <4>1 DEF TriesLeft, TypeOK, ZoneTypeOK
    <3> QED BY <1>1, <3>1, <3>4 DEF ConsentAtLabel, TypeOK
  <2>3. ASSUME NEW p \in Procs, Secure(p) PROVE consent[p] /\ pc'[p] # pc[p]
    BY <1>1, <2>3 DEF ConsentAtLabel, TypeOK, Secure, SendCmd, ScsiCall, SecureStatus, GoTo, Finish
  <2>4. ASSUME NEW p \in Procs, Remove(p) PROVE FALSE
    <3>1. passwd = KnownPassword /\ passTry = 0
      BY <1>1, <2>4 DEF Remove, ResetKnowsThePassword, ResetReady
    <3>2. PICK status \in Statuses : RemoveZone(KnownPassword, status)
      BY <2>1, <2>4 DEF Remove, SendCmd, ScsiCall, zoneVars
    <3> QED BY <2>1, <3>1, <3>2 DEF RemoveZone, Refuse, CountTry, ClearTries, zoneVars
  <2>5. PICK p \in Procs : Guess(p) \/ Secure(p)
    BY <1>1, <2>1, <2>4 DEF Next, Main, Act, Close, Killed, OpenFails, Owner,
       StoreFiles, Replug, Gone, Start, Open, AskPasswords, Confirm, ReadTries,
       ReadMaxTry, WarnLastTry, ReadSize, RoundSize, Query, Blocked, zoneVars, vars
  <2> QED BY <2>2, <2>3, <2>5
<1>2. ClaimInv /\ [Next]_vars =>
        [ (data' = "lost" /\ data = "present") \/ (Blocked' /\ ~Blocked)
            => \E p \in Procs : consent[p] /\ pc'[p] # pc[p] ]_vars
  BY <1>1
<1> QED BY <1>2, ClaimCorrect, PTL DEF Spec, ConsentBeforeLoss

-----------------------------------------------------------------------------
(* Recovering with -R.                                                     *)

(* The safety half of ResetRecovers: nothing -R does, killed or failing    *)
(* anywhere, takes back what it has reached, because the only password it  *)
(* ever gives is the one it has just set.                                  *)
THEOREM ResetNeverBlocks == ASSUME Exclusive PROVE Spec => StaysUsable
<1>1. ASSUME ClaimInv, [Next]_vars, OnlyReset, ~Blocked PROVE ~Blocked'
  <2> USE DEF ClaimInv, LocalInv, At
  <2>0. MaxTry # 0
    BY SecureZoneAssumption
  <2>1. UNCHANGED passTry => ~Blocked'
    BY <1>1 DEF Blocked
  <2>2. passTry' = 0 => ~Blocked'
    BY <2>0 DEF Blocked
  <2>3. ASSUME NEW p \in Procs, Guess(p) PROVE FALSE
    BY <1>1, <2>3 DEF Guess, ActionAtLabel, OnlyReset, Guesses
  <2>4. ASSUME NEW p \in Procs, Secure(p) PROVE passTry' = 0 \/ UNCHANGED passTry
    BY <2>4 DEF Secure, SendCmd, ScsiCall, MakeZone, Refuse, zoneVars
  <2>5. ASSUME NEW p \in Procs, Remove(p) PROVE passTry' = 0 \/ UNCHANGED passTry
    <3>1. passwd = KnownPassword
      BY <1>1, <2>5 DEF Remove, ResetKnowsThePassword, ResetReady
    <3> QED
      BY <2>5, <3>1 DEF Remove, SendCmd, ScsiCall, RemoveZone, Refuse, CountTry, ClearTries,
         zoneVars
  <2>6. \/ UNCHANGED passTry
        \/ \E p \in Procs : Guess(p) \/ Secure(p) \/ Remove(p)
    BY <1>1 DEF Next, Main, Act, Close, Killed, OpenFails, Owner,
       StoreFiles, Replug, Gone, Start, Open, AskPasswords, Confirm, ReadTries,
       ReadMaxTry, WarnLastTry, ReadSize, RoundSize, Query, zoneVars, vars
  <2> QED BY <2>1, <2>2, <2>3, <2>4, <2>5, <2>6
<1>2. ClaimInv /\ [Next]_vars => [OnlyReset /\ ~Blocked => ~Blocked']_vars
  BY <1>1
<1> QED BY <1>2, ClaimCorrect, PTL DEF Spec, StaysUsable

-----------------------------------------------------------------------------
(* The claim as a lock.                                                    *)

Stick == "stick"

Holders == {p \in Procs : Holds(p)}

(* The lock u3_open() and u3_close() implement, on the one stick there is. *)
Lock == INSTANCE StickLock WITH Devices <- {Stick}, linked <- [d \in {Stick} |-> Holders]

(* An action that is under way goes on or comes to its end.                *)
LEMMA HolderGoesOn ==
  ASSUME LocalInv, NEW p \in Procs, AskPasswords(p) \/ Confirm(p) \/ Act(p)
  PROVE  UNCHANGED Holders
<1>1. pc[p] \notin {"idle", "open"}
  BY DEF AskPasswords, Confirm, Act, ReadTries, ReadMaxTry, WarnLastTry,
     Guess, ReadSize, RoundSize, Secure, Remove, At
<1>2. \E l \in Labels \ {"idle", "open"} : pc' = [pc EXCEPT ![p] = l]
  BY DEF AskPasswords, Confirm, Act, ReadTries, ReadMaxTry, WarnLastTry,
     Guess, ReadSize, RoundSize, Secure, Remove, Query, AfterTries, SendCmd, ScsiCall,
     GuessStatus, SecureStatus, RemoveStatus, GoTo, Finish, Labels
<1>3. pc \in [Procs -> Labels]
  BY DEF LocalInv, TypeOK
<1> QED BY <1>1, <1>2, <1>3 DEF Holders, Holds

(* With the claim, the security actions take and give back the stick as    *)
(* the lock of StickLock says, which u3_open() and u3_close() implement.   *)
THEOREM ImplementsLock == ASSUME Exclusive PROVE Spec => Lock!Spec
<1> DEFINE links == [d \in {Stick} |-> Holders]
<1>1. Init => Lock!Init
  BY DEF Init, Lock!Init, Holders, Holds
<1>2. ASSUME ClaimInv, [Next]_vars PROVE [Lock!Next]_links
  <2>1. pc \in [Procs -> Labels] /\ SingleHolder /\ LocalInv
    BY <1>2 DEF ClaimInv, LocalInv, TypeOK
  <2>2. ASSUME UNCHANGED Holders PROVE UNCHANGED links
    BY <2>2
  <2>3. CASE Owner \/ UNCHANGED vars
    <3>1. UNCHANGED pc
      BY <2>3 DEF Owner, vars, procVars
    <3> QED BY <2>2, <3>1 DEF Holders, Holds
  <2>4. ASSUME NEW p \in Procs, Start(p) PROVE UNCHANGED links
    <3>1. pc[p] = "idle" /\ pc' = [pc EXCEPT ![p] = "open"]
      BY <2>4 DEF Start, At, GoTo
    <3> QED BY <2>1, <2>2, <3>1 DEF Holders, Holds
  <2>5. ASSUME NEW p \in Procs, Open(p) PROVE Lock!Acquire(p, Stick)
    <3>1. Holders = {} /\ pc' = [pc EXCEPT ![p] = "ask"]
      BY <2>5 DEF Open, GoTo, Holders
    <3>2. Holders' = {p}
      BY <2>1, <3>1 DEF Holders, Holds
    <3> QED BY <3>1, <3>2 DEF Lock!Acquire
  <2>6. ASSUME NEW p \in Procs, Gone(p) PROVE Lock!Release(Stick) \/ UNCHANGED links
    <3>1. pc' = [pc EXCEPT ![p] = "idle"]
      BY <2>6 DEF Gone
    <3>2. CASE Holds(p)
      <4>1. Holders' = {}
        BY <2>1, <3>1, <3>2 DEF SingleHolder, Holders, Holds
      <4> QED BY <4>1 DEF Lock!Release
    <3>3. CASE ~Holds(p)
      BY <2>1, <2>2, <3>1, <3>3 DEF Holders, Holds
    <3> QED BY <3>2, <3>3
  <2>7. ASSUME NEW p \in Procs, AskPasswords(p) \/ Confirm(p) \/ Act(p) PROVE UNCHANGED links
    BY <2>1, <2>2, <2>7, HolderGoesOn
  <2> HIDE DEF links
  <2> QED BY <1>2, <2>3, <2>4, <2>5, <2>6, <2>7
          DEF Next, Main, Close, Killed, OpenFails, Lock!Next
<1>3. Spec => Lock!Init /\ [][Lock!Next]_links
  BY <1>1, <1>2, ClaimCorrect, PTL DEF Spec
<1> QED BY <1>3 DEF Lock!Spec
=============================================================================
