----------------------------- MODULE WatcherProofs -----------------------------
(***************************************************************************)
(* Proofs about Watcher for any files, documents and faults.  What the     *)
(* watcher remembers at the end of a scan it learned file by file, each    *)
(* from a signature taken before the content was read; the invariant       *)
(* follows a file from its signature to the memory.                        *)
(***************************************************************************)
EXTENDS Watcher, WellFoundedInduction, TLAPS

(* Times are those of writes; a document is in hand from the read on.      *)
Types ==
  /\ file \in [Files -> {None} \cup [content : Documents \cup {Invalid},
                                     signature : Nat, noticed : BOOLEAN]]
  /\ seen \in [Files -> Nat \cup {None}]
  /\ signatures \in [Files -> Nat \cup {None}]
  /\ recorded \in [Files -> Documents \cup {None}]
  /\ time \in Nat
  /\ candidates \in SUBSET Files
  /\ pc \in {"load", "ingest", "report"} => candidates # {}
  /\ pc \in {"ingest", "report"} => loaded \in Documents
  /\ pc \in {"sleep", "exited"} => candidates = {}

(* No signature is from the future: the next write gets a new one.         *)
SignaturesAreOld ==
  \A f \in Files : /\ file[f] # None => file[f].signature <= time
                   /\ seen[f] # None => seen[f] <= time
                   /\ signatures[f] # None => signatures[f] <= time

(* File f still is what it was when signature s was taken. *)
Unchanged(f, s) == file[f] # None /\ file[f].noticed /\ s = file[f].signature

(* A file not visited yet has no signature and no issue in this scan; the  *)
(* one being visited is not the one the last scan remembers.               *)
VisitedInOrder ==
  \A f \in candidates :
     /\ f \notin failed
     /\ IF pc \in {"load", "ingest", "report"} /\ f = Current
        THEN ~Unchanged(f, signatures[f])
        ELSE seen[f] = None

(* The document in hand is the content of the file, unless it was changed. *)
InHand ==
  pc \in {"ingest", "report"} /\ Unchanged(Current, seen[Current]) =>
     /\ loaded = file[Current].content
     /\ pc = "report" => recorded[Current] = loaded

(* What Finish is about to remember is so. *)
VisitedFilesAreRecorded ==
  \A f \in Files \ candidates :
     Unchanged(f, seen[f]) /\ f \notin failed => recorded[f] = file[f].content

VisitedIssuesAreReal ==
  \A f \in Files \ candidates :
     Unchanged(f, seen[f]) /\ f \in failed => file[f].content = Invalid

IInv ==
  /\ Types /\ SignaturesAreOld /\ VisitedInOrder /\ InHand
  /\ VisitedFilesAreRecorded /\ SkippedFilesAreRecorded
  /\ "unreadable" \notin Faults => VisitedIssuesAreReal /\ RepeatedIssuesAreReal

-----------------------------------------------------------------------------
(* A scan visits a file that is on its list. *)
LEMMA CurrentIsCandidate ==
  ASSUME candidates \subseteq Files, candidates # {}
  PROVE  Current \in candidates
<1>1. candidates \subseteq Nat
  BY WatcherAssumption
<1>2. IsWellFoundedOn({x \in Nat \X Nat : x[1] < x[2]}, Nat)
  BY NatLessThanWellFounded DEF OpToRel
<1>3. PICK f \in candidates :
        \A g \in candidates : ~(<<g, f>> \in {x \in Nat \X Nat : x[1] < x[2]})
  BY <1>1, <1>2, WFMin
<1>4. ASSUME NEW g \in candidates PROVE f <= g
  <2>1. ~(f > g)
    BY <1>1, <1>3
  <2>2. QED
    BY <1>1, <2>1
<1>5. QED
  BY <1>4 DEF Current

LEMMA SameCurrent == ASSUME candidates' = candidates PROVE Current' = Current
BY DEF Current

(* The empty watcher satisfies the invariant. *)
LEMMA InitIInv == Init => IInv
BY WatcherAssumption
DEF Init, IInv, Types, SignaturesAreOld, VisitedInOrder, InHand, VisitedFilesAreRecorded,
    SkippedFilesAreRecorded, VisitedIssuesAreReal, RepeatedIssuesAreReal, Remembered,
    Unchanged, Nothing

LEMMA ListKeeps == ASSUME IInv, List PROVE IInv'
BY WatcherAssumption
DEF List, memory, Nothing, IInv, Types, SignaturesAreOld, VisitedInOrder, InHand,
    VisitedFilesAreRecorded, SkippedFilesAreRecorded, VisitedIssuesAreReal,
    RepeatedIssuesAreReal, Remembered, Unchanged

USE WatcherAssumption
DEF IInv, Types, SignaturesAreOld, VisitedInOrder, InHand, VisitedFilesAreRecorded,
    SkippedFilesAreRecorded, VisitedIssuesAreReal, RepeatedIssuesAreReal, Remembered,
    Unchanged, memory, scanVars


LEMMA InspectKeeps == ASSUME IInv, Inspect PROVE IInv'
<1>1. Current \in candidates
  BY CurrentIsCandidate DEF Inspect
<1>2. CASE file[Current] = None
  <2>0. /\ candidates' = candidates \ {Current}
        /\ UNCHANGED <<file, time, stored, loaded, pc, seen, failed, signatures, issues, exit, recorded>>
        /\ pc = "inspect"
    BY <1>2 DEF Inspect
  <2>1. Types' /\ SignaturesAreOld' /\ InHand' /\ VisitedInOrder'
    BY <1>1, <1>2, <2>0
  <2>2. VisitedFilesAreRecorded' /\ SkippedFilesAreRecorded'
    BY <1>1, <1>2, <2>0
  <2>3. "unreadable" \notin Faults => VisitedIssuesAreReal'
    BY <1>1, <1>2, <2>0
  <2>4. "unreadable" \notin Faults => RepeatedIssuesAreReal'
    BY <2>0
  <2>5. QED
    BY <2>1, <2>2, <2>3, <2>4 DEF IInv
<1>3. CASE file[Current] # None /\ signatures[Current] = file[Current].signature
  <2>0. /\ seen' = [seen EXCEPT ![Current] = file[Current].signature]
        /\ candidates' = candidates \ {Current}
        /\ failed' = failed \cup ({Current} \cap issues)
        /\ UNCHANGED <<file, time, stored, loaded, pc, signatures, issues, exit, recorded>>
        /\ pc = "inspect"
    BY <1>3 DEF Inspect
  <2>1. Types' /\ SignaturesAreOld' /\ InHand'
    BY <1>1, <1>3, <2>0
  <2>2. VisitedInOrder'
    BY <1>1, <1>3, <2>0
  <2>3. VisitedFilesAreRecorded' /\ SkippedFilesAreRecorded'
    BY <1>1, <1>3, <2>0
  <2>4. ASSUME "unreadable" \notin Faults, NEW f \in (Files \ candidates)',
               Unchanged(f, seen[f])', f \in failed'
        PROVE  file'[f].content = Invalid
    <3>1. CASE f = Current
      BY <1>1, <1>3, <2>0, <2>4, <3>1
    <3>2. CASE f # Current
      BY <1>1, <1>3, <2>0, <2>4, <3>2
    <3>3. QED
      BY <3>1, <3>2
  <2>5. "unreadable" \notin Faults => RepeatedIssuesAreReal'
    BY <2>0
  <2>6. QED
    BY <2>1, <2>2, <2>3, <2>4, <2>5 DEF IInv
<1>4. CASE file[Current] # None /\ signatures[Current] # file[Current].signature
  <2>0. /\ seen' = [seen EXCEPT ![Current] = file[Current].signature]
        /\ pc' = "load" /\ Current' = Current
        /\ UNCHANGED <<file, time, stored, loaded, candidates, failed, signatures, issues, exit, recorded>>
        /\ pc = "inspect"
    BY <1>4, SameCurrent DEF Inspect
  <2>1. Types' /\ SignaturesAreOld' /\ InHand' /\ VisitedInOrder'
    BY <1>1, <1>4, <2>0
  <2>2. VisitedFilesAreRecorded' /\ SkippedFilesAreRecorded'
    BY <1>1, <1>4, <2>0
  <2>3. "unreadable" \notin Faults => VisitedIssuesAreReal'
    BY <1>1, <1>4, <2>0
  <2>4. "unreadable" \notin Faults => RepeatedIssuesAreReal'
    BY <2>0
  <2>5. QED
    BY <2>1, <2>2, <2>3, <2>4 DEF IInv
<1>5. QED
  BY <1>2, <1>3, <1>4

LEMMA LoadFailsKeeps == ASSUME IInv, LoadFails PROVE IInv'
BY CurrentIsCandidate DEF LoadFails

LEMMA LoadKeeps == ASSUME IInv, Load PROVE IInv'
BY CurrentIsCandidate, SameCurrent DEF Load

LEMMA IngestKeeps == ASSUME IInv, Ingest PROVE IInv'
<1>1. Current \in candidates /\ Current' = Current
  BY CurrentIsCandidate, SameCurrent DEF Ingest
<1>2. recorded' = [recorded EXCEPT ![Current] = loaded] /\ pc = "ingest" /\ pc' = "report"
      /\ UNCHANGED <<file, time, candidates, loaded, seen, failed, memory, exit>>
  BY DEF Ingest
<1>3. Types' /\ SignaturesAreOld' /\ InHand'
  BY <1>1, <1>2
<1>4. VisitedInOrder'
  BY <1>1, <1>2
<1>5. VisitedFilesAreRecorded' /\ SkippedFilesAreRecorded'
  BY <1>1, <1>2
<1>6. "unreadable" \notin Faults => VisitedIssuesAreReal' /\ RepeatedIssuesAreReal'
  BY <1>1, <1>2
<1>7. QED
  BY <1>3, <1>4, <1>5, <1>6 DEF IInv

LEMMA ReportKeeps == ASSUME IInv, Report PROVE IInv'
<1>1. Current \in candidates
  BY CurrentIsCandidate DEF Report
<1>2. Types' /\ SignaturesAreOld' /\ InHand' /\ VisitedInOrder'
  BY <1>1 DEF Report
<1>3. VisitedFilesAreRecorded' /\ SkippedFilesAreRecorded'
  BY <1>1 DEF Report
<1>4. "unreadable" \notin Faults => VisitedIssuesAreReal' /\ RepeatedIssuesAreReal'
  BY <1>1 DEF Report
<1>5. QED
  BY <1>2, <1>3, <1>4 DEF IInv

LEMMA FinishKeeps == ASSUME IInv, Finish PROVE IInv'
BY DEF Finish, Nothing

LEMMA EndsKeeps == ASSUME IInv, NEW why, Ends(why) PROVE IInv'
BY DEF Ends, Nothing

LEMMA RestartKeeps == ASSUME IInv, Restart PROVE IInv'
BY DEF Restart

LEMMA WriteKeeps ==
  ASSUME IInv, NEW f \in Files, NEW content \in Documents \cup {Invalid}, Write(f, content)
  PROVE  IInv'
<1>1. /\ file' = [file EXCEPT ![f] = [content |-> content, signature |-> time + 1,
                                     noticed |-> TRUE]]
      /\ time' = time + 1
      /\ UNCHANGED <<stored, scanVars, memory, recorded>>
  BY DEF Write
<1>2. Current' = Current
  BY <1>1, SameCurrent
<1>3. /\ seen'[f] = seen[f] /\ signatures'[f] = signatures[f]
      /\ file'[f].signature = time + 1
  BY <1>1
<1>8. seen[f] # time + 1 /\ signatures[f] # time + 1
  OBVIOUS
<1>9. ~Unchanged(f, seen[f])' /\ ~Unchanged(f, signatures[f])'
  BY <1>3, <1>8
<1>4. \A g \in Files : g # f => file'[g] = file[g]
  BY <1>1
<1>5. Types' /\ SignaturesAreOld'
  BY <1>1
<1>6. VisitedInOrder'
  BY <1>1, <1>2, <1>4, <1>9
<1>7. InHand'
  BY <1>1, <1>2, <1>4, <1>9, CurrentIsCandidate
<1>10. VisitedFilesAreRecorded' /\ SkippedFilesAreRecorded'
  BY <1>1, <1>4, <1>9
<1>11. "unreadable" \notin Faults => VisitedIssuesAreReal' /\ RepeatedIssuesAreReal'
  BY <1>1, <1>4, <1>9
<1>12. QED
  BY <1>5, <1>6, <1>7, <1>10, <1>11 DEF IInv

LEMMA RewriteKeeps ==
  ASSUME IInv, NEW f \in Files, NEW content \in Documents \cup {Invalid},
         RewriteUnnoticed(f, content)
  PROVE  IInv'
<1>1. /\ file' = [file EXCEPT ![f].content = content, ![f].noticed = FALSE]
      /\ file[f] # None
      /\ UNCHANGED <<time, stored, scanVars, memory, recorded>>
  BY DEF RewriteUnnoticed
<1>2. Current' = Current
  BY <1>1, SameCurrent
<1>0. file[f] \in [content : Documents \cup {Invalid}, signature : Nat, noticed : BOOLEAN]
  BY <1>1
<1>3. /\ file'[f] = [file[f] EXCEPT !.content = content, !.noticed = FALSE]
      /\ file'[f].noticed = FALSE /\ file'[f].signature = file[f].signature
  BY <1>0, <1>1
<1>4. \A g \in Files : g # f => file'[g] = file[g]
  BY <1>1
<1>5. Types' /\ SignaturesAreOld'
  BY <1>0, <1>1, <1>3, <1>4
<1>6. VisitedInOrder' /\ InHand'
  BY <1>1, <1>2, <1>3, <1>4, CurrentIsCandidate
<1>7. QED
  BY <1>1, <1>3, <1>4, <1>5, <1>6

LEMMA RemoveKeeps == ASSUME IInv, NEW f \in Files, Remove(f) PROVE IInv'
BY CurrentIsCandidate, SameCurrent DEF Remove

LEMMA QuietKeeps == ASSUME IInv, (\E r \in RunIds : Prune(r)) \/ UNCHANGED vars PROVE IInv'
<1>1. UNCHANGED <<file, time, pc, candidates, loaded, seen, failed, signatures, issues, recorded>>
  BY DEF Prune, vars
<1>2. QED
  BY <1>1, SameCurrent

-----------------------------------------------------------------------------
(* Every step keeps the invariant. *)
LEMMA NextIInv == IInv /\ [Next]_vars => IInv'
<1> SUFFICES ASSUME IInv, [Next]_vars PROVE IInv'
  OBVIOUS
<1>1. ASSUME ScanStep PROVE IInv'
  <2>1. ASSUME IngestFails \/ ReportFails PROVE \E why : Ends(why)
    BY <2>1 DEF IngestFails, ReportFails
  <2>2. QED
    BY <1>1, <2>1, ListKeeps, InspectKeeps, LoadFailsKeeps, LoadKeeps, IngestKeeps,
       ReportKeeps, FinishKeeps, EndsKeeps DEF ScanStep
<1>2. ASSUME Interrupt PROVE IInv'
  BY <1>2, EndsKeeps DEF Interrupt
<1>3. QED
  BY <1>1, <1>2, RestartKeeps, WriteKeeps, RewriteKeeps, RemoveKeeps, QuietKeeps DEF Next

(* Every reachable state satisfies the invariant. *)
THEOREM Invariance == Spec => []IInv
BY InitIInv, NextIInv, PTL DEF Spec

(* No skip hides a document (ingestion.py:119): whatever agents do to the  *)
(* files during scans, and however scans end, a file whose signature is    *)
(* remembered without an issue was ingested as it is.                      *)
THEOREM SkipsHideNothing == Spec => []SkippedFilesAreRecorded
BY Invariance, PTL DEF IInv

(* Unless reads of existing files fail, an issue that is repeated          *)
(* (ingestion.py:120) is about the content the file still has.             *)
THEOREM RepeatedIssuesStayReal ==
  ASSUME "unreadable" \notin Faults
  PROVE  Spec => []RepeatedIssuesAreReal
<1>1. IInv => RepeatedIssuesAreReal
  BY DEF IInv
<1>2. QED
  BY <1>1, Invariance, PTL
=============================================================================
