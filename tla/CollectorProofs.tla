---------------------------- MODULE CollectorProofs ----------------------------
(***************************************************************************)
(* Proofs about Collector for any runs, number of attempts and faults: the *)
(* reports the command collects are true, and the collector has more than  *)
(* one copy of a run only after a lost answer.  The invariant follows each *)
(* run through its place in todo: not yet sent, being sent, reported.      *)
(***************************************************************************)
EXTENDS Collector, FiniteSetTheorems, TLAPS

AnyReport == [run_id : RunIds, status : {"accepted", "failed"},
              detail : Details \cup {None}]

Types ==
  /\ pc \in {"next", "send", "sent", "exited", "raised"}
  /\ todo \in Seq(RunIds)
  /\ attempt \in Nat
  /\ reports \in Seq(AnyReport)
  /\ received \in [RunIds -> Nat]

(* The runs are listed once each, and reported when they leave the list.   *)
EachRunOnce ==
  /\ \A i, j \in 1 .. Len(todo) : i # j => todo[i] # todo[j]
  /\ \A i \in 1 .. Len(reports), j \in 1 .. Len(todo) : reports[i].run_id # todo[j]

Requesting == pc \in {"send", "sent"}

(* A run that waits was never sent.                                        *)
WaitingRunsAreNotReceived ==
  \A j \in 1 .. Len(todo) : received[todo[j]] = 0 \/ (j = 1 /\ pc # "next")

(* Each attempt sends the run once; an attempt after one that arrived      *)
(* follows a lost answer.                                                  *)
AttemptsAreCounted ==
  /\ Requesting => todo # << >> /\ attempt < Attempts
  /\ pc = "send" => /\ received[Current] <= attempt
                    /\ received[Current] > 0 => Current \in lost
  /\ pc = "sent" => /\ received[Current] \in 1 .. attempt + 1
                    /\ received[Current] > 1 => Current \in lost

IInv ==
  /\ Types /\ EachRunOnce /\ WaitingRunsAreNotReceived /\ AttemptsAreCounted
  /\ ReportsAreTrue /\ DuplicatesAreLostAnswers

-----------------------------------------------------------------------------
(* The list the command starts with names each run once. *)
LEMMA InitIInv == Init => IInv
<1> SUFFICES ASSUME Init PROVE IInv
  OBVIOUS
<1>1. Cardinality(RunIds) \in Nat
  BY CollectorAssumption, FS_CardinalityType
<1>2. /\ todo \in Seq(RunIds)
      /\ \A i, j \in 1 .. Len(todo) : i # j => todo[i] # todo[j]
  BY <1>1 DEF Init, SetToSeqs
<1>3. QED
  BY <1>2, CollectorAssumption
  DEF Init, IInv, Types, EachRunOnce, WaitingRunsAreNotReceived, AttemptsAreCounted,
      Requesting, ReportsAreTrue, DuplicatesAreLostAnswers

USE CollectorAssumption

-----------------------------------------------------------------------------
(* What becomes of a run that is being sent.                               *)

LEMMA CurrentIsFirst ==
  ASSUME todo \in Seq(RunIds), todo # << >>
  PROVE  /\ Current = todo[1] /\ Current \in RunIds /\ 1 \in 1 .. Len(todo)
         /\ Tail(todo) \in Seq(RunIds)
         /\ Len(Tail(todo)) = Len(todo) - 1
         /\ \A j \in 1 .. Len(Tail(todo)) : Tail(todo)[j] = todo[j + 1] /\ j + 1 \in 1 .. Len(todo)
BY DEF Current

(* A report that says what became of the run keeps the invariant. *)
LEMMA ExportKeeps ==
  ASSUME IInv, Requesting, NEW status \in {"accepted", "failed"}, Export(status),
         detail' \in Details \cup {None}, attempt' \in Nat, received' = received,
         lost \subseteq lost', redirected \subseteq redirected',
         status = "accepted" => received[Current] > 0 \/ Current \in redirected',
         status = "failed" /\ received[Current] > 0 => Current \in lost',
         received[Current] <= Attempts,
         received[Current] > 1 => Current \in lost'
  PROVE  IInv'
<1> DEFINE report == [run_id |-> Current, status |-> status, detail |-> detail']
<1>1. todo \in Seq(RunIds) /\ todo # << >>
  BY DEF IInv, Types, AttemptsAreCounted
<1>2. /\ todo' = Tail(todo) /\ reports' = Append(reports, report) /\ pc' = "next"
  BY DEF Export
<1>3. /\ Len(reports') = Len(reports) + 1
      /\ reports'[Len(reports) + 1] = report
      /\ \A i \in 1 .. Len(reports) : reports'[i] = reports[i]
  BY <1>2 DEF IInv, Types
<1>4. Types'
  <2>1. report \in AnyReport
    BY <1>1, CurrentIsFirst DEF AnyReport
  <2>2. QED
    BY <1>1, <1>2, <2>1, CurrentIsFirst DEF IInv, Types
<1>5. EachRunOnce'
  <2>1. \A i, j \in 1 .. Len(todo') : i # j => todo'[i] # todo'[j]
    BY <1>1, <1>2, CurrentIsFirst DEF IInv, EachRunOnce
  <2>2. ASSUME NEW i \in 1 .. Len(reports'), NEW j \in 1 .. Len(todo')
        PROVE  reports'[i].run_id # todo'[j]
    <3>1. CASE i = Len(reports) + 1
      BY <1>1, <1>2, <1>3, <3>1, CurrentIsFirst DEF IInv, EachRunOnce
    <3>2. CASE i \in 1 .. Len(reports)
      BY <1>1, <1>2, <1>3, <3>2, CurrentIsFirst DEF IInv, EachRunOnce
    <3>3. QED
      BY <1>3, <3>1, <3>2 DEF IInv, Types
  <2>3. QED
    BY <2>1, <2>2 DEF EachRunOnce
<1>6. WaitingRunsAreNotReceived'
  BY <1>1, <1>2, CurrentIsFirst DEF IInv, WaitingRunsAreNotReceived
<1>7. AttemptsAreCounted'
  BY <1>2 DEF AttemptsAreCounted, Requesting
<1>8. ReportsAreTrue'
  <2>1. ASSUME NEW i \in 1 .. Len(reports')
        PROVE  LET r == reports'[i].run_id
               IN  /\ reports'[i].status = "accepted" => received'[r] > 0 \/ r \in redirected'
                   /\ reports'[i].status = "failed" /\ received'[r] > 0 => r \in lost'
    <3>1. CASE i = Len(reports) + 1
      BY <1>3, <3>1
    <3>2. CASE i \in 1 .. Len(reports)
      BY <1>3, <3>2 DEF IInv, ReportsAreTrue
    <3>3. QED
      BY <1>3, <3>1, <3>2 DEF IInv, Types
  <2>2. QED
    BY <2>1 DEF ReportsAreTrue
<1>9. DuplicatesAreLostAnswers'
  BY DEF IInv, DuplicatesAreLostAnswers
<1>10. QED
  BY <1>4, <1>5, <1>6, <1>7, <1>8, <1>9 DEF IInv

(* A failed attempt after which a copy that arrived counts as lost. *)
LEMMA FailsKeeps ==
  ASSUME IInv, Requesting, NEW why \in Details, Fails(why), received' = received,
         lost \subseteq lost', redirected \subseteq redirected',
         received[Current] <= attempt + 1,
         received[Current] > 0 => Current \in lost'
  PROVE  IInv'
<1>1. attempt' = attempt + 1 /\ attempt + 1 <= Attempts /\ attempt' \in Nat
  BY DEF Fails, IInv, Types, AttemptsAreCounted
<1>2. CASE attempt' < Attempts
  <2>1. pc' = "send" /\ UNCHANGED <<todo, reports>> /\ Current' = Current
    BY <1>2 DEF Fails, Current
  <2>2. Types' /\ EachRunOnce' /\ WaitingRunsAreNotReceived'
    BY <1>1, <2>1 DEF IInv, Types, EachRunOnce, WaitingRunsAreNotReceived, Requesting
  <2>3. AttemptsAreCounted'
    BY <1>1, <1>2, <2>1 DEF IInv, AttemptsAreCounted, Requesting
  <2>4. ReportsAreTrue' /\ DuplicatesAreLostAnswers'
    BY <2>1 DEF IInv, ReportsAreTrue, DuplicatesAreLostAnswers
  <2>5. QED
    BY <2>2, <2>3, <2>4 DEF IInv
<1>3. CASE ~(attempt' < Attempts)
  <2>1. Export("failed") /\ detail' = why
    BY <1>3 DEF Fails
  <2>2. Current \in RunIds /\ received[Current] \in Nat
    BY CurrentIsFirst DEF IInv, Types, AttemptsAreCounted
  <2>3. QED
    BY <1>1, <2>1, <2>2, ExportKeeps
<1>4. QED
  BY <1>2, <1>3

(* A success counts if a copy arrived or a redirect hid that none did. *)
LEMMA AcceptedKeeps ==
  ASSUME IInv, Requesting, Accepted, received' = received,
         lost \subseteq lost', redirected \subseteq redirected',
         received[Current] <= Attempts,
         received[Current] > 0 \/ Current \in redirected',
         received[Current] > 1 => Current \in lost
  PROVE  IInv'
<1>1. Export("accepted") /\ detail' = None /\ attempt' \in Nat
  BY DEF Accepted, IInv, Types
<1>2. QED
  BY <1>1, ExportKeeps

-----------------------------------------------------------------------------
(* The steps.                                                              *)

(* What the counts of a run being sent are. *)
LEMMA BeingSent ==
  ASSUME IInv, Requesting
  PROVE  /\ received[Current] \in Nat /\ attempt \in Nat /\ attempt < Attempts
         /\ received[Current] <= attempt + 1
         /\ received[Current] <= Attempts
         /\ received[Current] > 1 => Current \in lost
         /\ pc = "send" /\ received[Current] > 0 => Current \in lost
         /\ pc = "sent" => received[Current] > 0
BY CurrentIsFirst DEF IInv, Types, AttemptsAreCounted, Requesting

LEMMA LoadKeeps == ASSUME IInv, Load PROVE IInv'
<1>1. /\ pc = "next" /\ todo # << >> /\ pc' = "send" /\ attempt' = 0
      /\ UNCHANGED <<todo, reports, received, lost, redirected>> /\ Current' = Current
  BY DEF Load, world, Current
<1>2. received[Current] = 0
  BY <1>1, CurrentIsFirst DEF IInv, Types, WaitingRunsAreNotReceived
<1>3. QED
  BY <1>1, <1>2
  DEF IInv, Types, EachRunOnce, WaitingRunsAreNotReceived, AttemptsAreCounted, Requesting,
      ReportsAreTrue, DuplicatesAreLostAnswers

LEMMA DeliverKeeps == ASSUME IInv, Deliver PROVE IInv'
<1>1. /\ pc = "send" /\ pc' = "sent" /\ received' = [received EXCEPT ![Current] = @ + 1]
      /\ UNCHANGED <<todo, attempt, reports, lost, redirected>> /\ Current' = Current
  BY DEF Deliver, Current
<1>2. todo \in Seq(RunIds) /\ todo # << >> /\ Current \in RunIds
  BY <1>1, CurrentIsFirst DEF IInv, Types, AttemptsAreCounted, Requesting
<1>3. /\ received'[Current] = received[Current] + 1
      /\ \A r \in RunIds : r # Current => received'[r] = received[r]
  BY <1>1, <1>2 DEF IInv, Types
<1>4. received[Current] \in Nat /\ attempt \in Nat /\ attempt < Attempts
      /\ received[Current] <= attempt /\ (received[Current] > 0 => Current \in lost)
  BY <1>1, <1>2 DEF IInv, Types, AttemptsAreCounted, Requesting
<1>5. Types' /\ EachRunOnce'
  BY <1>1, <1>2 DEF IInv, Types, EachRunOnce
<1>6. WaitingRunsAreNotReceived'
  BY <1>1, <1>2, <1>3, CurrentIsFirst DEF IInv, Types, EachRunOnce, WaitingRunsAreNotReceived
<1>7. AttemptsAreCounted'
  BY <1>1, <1>2, <1>3, <1>4 DEF AttemptsAreCounted, Requesting
<1>8. ReportsAreTrue'
  <2>1. \A i \in 1 .. Len(reports) : reports[i].run_id # Current
    BY <1>2, CurrentIsFirst DEF IInv, EachRunOnce
  <2>2. ASSUME NEW i \in 1 .. Len(reports) PROVE reports[i].run_id \in RunIds
    <3>1. reports \in Seq(AnyReport)
      BY DEF IInv, Types
    <3>2. reports[i] \in AnyReport
      BY <3>1
    <3>3. QED
      BY <3>2 DEF AnyReport
  <2>3. QED
    BY <1>1, <1>3, <2>1, <2>2 DEF IInv, ReportsAreTrue
<1>9. DuplicatesAreLostAnswers'
  BY <1>1, <1>3, <1>4 DEF IInv, DuplicatesAreLostAnswers
<1>10. QED
  BY <1>5, <1>6, <1>7, <1>8, <1>9 DEF IInv

LEMMA FailuresKeep == ASSUME IInv, Refused \/ HTTPError \/ NoAnswer PROVE IInv'
<1>1. Requesting
  BY DEF Refused, HTTPError, NoAnswer, Requesting
<1>2. received' = received /\ lost \subseteq lost' /\ redirected \subseteq redirected'
  BY DEF Refused, HTTPError, NoAnswer, world
<1>3. received[Current] > 0 => Current \in lost'
  BY <1>1, BeingSent DEF Refused, HTTPError, NoAnswer, world
<1>4. PICK why \in Details : Fails(why)
  BY DEF Refused, HTTPError, NoAnswer, Details
<1>5. QED
  BY <1>1, <1>2, <1>3, <1>4, BeingSent, FailsKeeps

LEMMA SucceedsKeeps == ASSUME IInv, Succeeds PROVE IInv'
<1>1. /\ Requesting /\ pc = "sent" /\ Accepted
      /\ received' = received /\ lost' = lost /\ redirected' = redirected
  BY DEF Succeeds, world, Requesting
<1>2. QED
  BY <1>1, BeingSent, AcceptedKeeps

LEMMA RedirectedKeeps == ASSUME IInv, Redirected PROVE IInv'
<1>1. /\ Requesting /\ pc = "send" /\ received' = received /\ lost' = lost
      /\ redirected' = redirected \cup {Current}
  BY DEF Redirected, Requesting
<1>2. CASE Accepted
  BY <1>1, <1>2, BeingSent, AcceptedKeeps
<1>3. CASE Fails("HTTP error")
  BY <1>1, <1>3, BeingSent, FailsKeeps DEF Details
<1>4. QED
  BY <1>2, <1>3 DEF Redirected

(* The command ends, or only the library changes. *)
LEMMA OthersKeep ==
  ASSUME IInv, RunNotFound \/ PrintReports \/ NotHTTP \/ Prune \/ UNCHANGED vars
  PROVE  IInv'
<1>1. /\ UNCHANGED <<todo, attempt, reports, received, lost, redirected>>
      /\ pc' = pc \/ (pc \in {"next", "send"} /\ pc' \in {"exited", "raised"}
                      /\ (pc = "next" => pc' = "exited"))
      /\ Current' = Current
  BY DEF RunNotFound, PrintReports, NotHTTP, Raises, Prune, vars, command, world, Current
<1>2. QED
  BY <1>1 DEF IInv, Types, EachRunOnce, WaitingRunsAreNotReceived, AttemptsAreCounted,
              Requesting, ReportsAreTrue, DuplicatesAreLostAnswers

(* Every step keeps the invariant. *)
LEMMA NextIInv == IInv /\ [Next]_vars => IInv'
BY LoadKeeps, DeliverKeeps, FailuresKeep, SucceedsKeeps, RedirectedKeeps, OthersKeep
DEF Next, Request, Exited

(* Every reachable state satisfies the invariant. *)
THEOREM Invariance == Spec => []IInv
BY InitIInv, NextIInv, PTL DEF Spec

(* Reports are true (collector.py:10), up to redirects and lost answers,   *)
(* for every list of runs and every sequence of outcomes.                  *)
THEOREM ReportsStayTrue == Spec => []ReportsAreTrue
BY Invariance, PTL DEF IInv

(* A run is sent again only after a lost answer, and never more often than *)
(* _post attempts (collector.py:77).                                       *)
THEOREM DuplicatesNeedLostAnswers == Spec => []DuplicatesAreLostAnswers
BY Invariance, PTL DEF IInv
=============================================================================
