------------------------ MODULE BrowserActionsProofs ------------------------
(***************************************************************************)
(* What a call of the crawler tells about the page, and what its files     *)
(* show, for every page, action and number of calls.                       *)
(***************************************************************************)
EXTENDS BrowserActions, TLAPS

Reading == {"picture", "dump", "return"}
Busy == Reading \cup {"perform", "extract"}

\* What the clock, the count of attempts and that of captures have come to.
Paced ==
    /\ pc = "idle" => second <= 3 * calls
    /\ pc \in Busy => calls >= 1 /\ second <= 3 * calls - 2 + attempt
    /\ pc = "perform" => effects <= attempt /\ lates <= attempt
    /\ effects <= attempt + 1 /\ lates <= attempt + 1
    /\ \A n \in Slots : started[n] <= calls
    /\ pc \in {"perform", "extract"} => \A n \in Slots : started[n] <= calls - 1

Typed ==
    /\ page \in Pages /\ second \in Nat /\ calls \in 0..MaxCalls
    /\ caller \in {"none", "execute_action", "capture_page"} /\ action \in Actions
    /\ attempt \in 0..MaxRetries /\ effects \in Nat /\ lates \in Nat
    /\ outcome \in {"none", "success", "timeout", "failed"}
    /\ state \in Record /\ returned \subseteq Record
    /\ started \in [Slots -> Nat]
    /\ pictures \in [Slots -> Pages \cup {NoPage}]
    /\ sheets \in [Slots -> Pages \cup {NoPage, Torn}]
    /\ pc \in Busy \cup {"idle"}

Inv == Typed /\ Paced

\* A name that is formed while a call goes on is that of a slot.
LEMMA NowIsASecond ==
    ASSUME Inv, pc \in Busy
    PROVE  second \in Seconds
  <1>1. second <= 3 * MaxCalls
    BY BrowserAssumption DEF Inv, Typed, Paced, MaxRetries
  <1> QED  BY <1>1, BrowserAssumption DEF Inv, Typed, Seconds

LEMMA NoRecordIsARecord == NoRecord \in Record
  <1>1. \E u \in Urls : TRUE
    BY BrowserAssumption
  <1>2. 0 \in Seconds
    BY BrowserAssumption DEF Seconds
  <1> QED  BY <1>1, <1>2 DEF NoRecord, Record

\* An address and the second of a call make a slot.
LEMMA AddressIsAUrl ==
    ASSUME Inv
    PROVE  Address \in Urls
  BY BrowserAssumption DEF Inv, Typed, Address, Record

LEMMA InitInv == Init => Inv
  <1> SUFFICES ASSUME Init PROVE Inv
    OBVIOUS
  <1>1. page \in Pages /\ action \in Actions
    BY BrowserAssumption DEF Init
  <1> QED  BY <1>1, NoRecordIsARecord, BrowserAssumption
           DEF Init, Inv, Typed, Paced, Busy, Reading, MaxRetries

\* A call starts a new count, in the same second or the next.
LEMMA CallPaced ==
    ASSUME Inv, NEW f, Call(f), UNCHANGED files
    PROVE  /\ calls' \in 1..MaxCalls /\ second' \in Nat
           /\ attempt' = 0 /\ effects' = 0 /\ lates' = 0
           /\ second' <= 3 * calls' - 2
           /\ started' \in [Slots -> Nat]
           /\ \A n \in Slots : started'[n] <= calls' - 1
  <1>1. /\ pc = "idle" /\ calls < MaxCalls /\ calls' = calls + 1
        /\ second' \in {second, second + 1}
        /\ attempt' = 0 /\ effects' = 0 /\ lates' = 0 /\ started' = started
    BY DEF Call, files
  <1>2. /\ second \in Nat /\ calls \in 0..MaxCalls /\ second <= 3 * calls
        /\ started \in [Slots -> Nat] /\ \A n \in Slots : started[n] <= calls
    BY <1>1 DEF Inv, Typed, Paced
  <1>3. calls' - 1 = calls
    BY <1>1, <1>2
  <1> QED  BY <1>1, <1>2, <1>3, BrowserAssumption

LEMMA StepInv == Inv /\ [Next]_vars => Inv'
  <1> SUFFICES ASSUME Inv, [Next]_vars PROVE Inv'
    OBVIOUS
  <1> USE DEF Inv, Typed, Paced, Busy, Reading, MaxRetries
  <1>1. CASE ExecuteAction
    <2>1. Call("execute_action") /\ UNCHANGED files
      BY <1>1 DEF ExecuteAction
    <2> QED  BY <1>1, <2>1, CallPaced, NoRecordIsARecord DEF ExecuteAction, Call, files
  <1>2. CASE CapturePage
    <2>1. PICK u \in Urls : state' = [NoRecord EXCEPT !.url = u]
      BY <1>2 DEF CapturePage
    <2>2. state' \in Record
      BY <2>1, NoRecordIsARecord DEF Record
    <2>3. Call("capture_page") /\ UNCHANGED files
      BY <1>2 DEF CapturePage
    <2>4. /\ page' \in Pages /\ pc' \in {"extract", "idle"}
          /\ outcome' \in {"none", "failed"} /\ UNCHANGED <<action, returned>>
      BY <1>2 DEF CapturePage
    <2> QED  BY <2>2, <2>3, <2>4, CallPaced DEF Call, files
  <1>3. CASE Performed \/ Retry \/ GiveUp \/ Fail
    <2>1. PICK landed \in BOOLEAN : Perform(landed)
      BY <1>3 DEF Performed, Retry, GiveUp, Fail, TimedOut
    <2>2. page' \in Pages
      BY <2>1, BrowserAssumption DEF Perform, Landing
    <2>3. /\ effects' \in {effects, effects + 1}
          /\ UNCHANGED <<calls, caller, action, state, started, pictures, sheets, returned>>
      BY <2>1 DEF Perform, files
    <2>4. CASE Performed
      BY <2>2, <2>3, <2>4 DEF Performed, Perform
    <2>5. CASE Retry
      BY <2>2, <2>3, <2>5 DEF Retry, TimedOut, Perform
    <2>6. CASE GiveUp
      BY <2>2, <2>3, <2>6 DEF GiveUp, TimedOut, Perform
    <2>7. CASE Fail
      BY <2>2, <2>3, <2>7 DEF Fail, Perform
    <2> QED  BY <1>3, <2>4, <2>5, <2>6, <2>7
  <1>4. CASE ExtractRaises
    BY <1>4 DEF ExtractRaises, call, files
  <1>5. CASE ReadPage \/ ReadFails
    <2>1. PICK success \in BOOLEAN : Read(success)
      BY <1>5 DEF ReadPage, ReadFails
    <2>2. Address \in Urls /\ second \in Seconds
      BY <2>1, AddressIsAUrl, NowIsASecond DEF Read
    <2>3. state' \in Record
      BY <2>1, <2>2, NoRecordIsARecord DEF Read, Record
    <2>4. /\ started' \in [Slots -> Nat]
          /\ \A n \in Slots : started'[n] <= calls
      BY <2>1, <2>2 DEF Read, Slots
    <2> QED  BY <1>5, <2>1, <2>3, <2>4 DEF Read, ReadPage, ReadFails, call
  <1>6. CASE Drift
    BY <1>6 DEF Drift, Record, call, files
  <1>7. CASE TakePicture
    BY <1>7 DEF TakePicture, Record, call
  <1>8. CASE PictureFails
    BY <1>8 DEF PictureFails, Record, call, files
  <1>9. CASE Dump
    BY <1>9 DEF Dump, Record, call
  <1>10. CASE DumpFails
    <2>1. sheets' \in [Slots -> Pages \cup {NoPage, Torn}]
      BY <1>10 DEF DumpFails
    <2> QED  BY <1>10, <2>1 DEF DumpFails, Record, call
  <1>11. CASE ReturnState
    BY <1>11, NoRecordIsARecord DEF ReturnState, call, files
  <1>12. CASE ReturnCapture
    <2>1. PICK success \in {FALSE, state.success} :
            /\ outcome' = IF success THEN "success" ELSE "failed"
            /\ returned' = returned \cup {[state EXCEPT !.success = success]}
      BY <1>12 DEF ReturnCapture
    <2>2. [state EXCEPT !.success = success] \in Record
      BY DEF Record
    <2> QED  BY <1>12, <2>1, <2>2, NoRecordIsARecord DEF ReturnCapture, call, files
  <1>13. CASE UNCHANGED vars
    BY <1>13 DEF vars, call, files
  <1> QED
    BY <1>1, <1>2, <1>3, <1>4, <1>5, <1>6, <1>7, <1>8, <1>9, <1>10, <1>11, <1>12, <1>13
    DEF Next, Step, Extract, Stopped

LEMMA Invariant == Spec => []Inv
  <1> QED  BY InitInv, StepInv, PTL DEF Spec

\* Every variable has its type; three attempts and three seconds bound a call.
THEOREM TypeCorrect == Spec => []TypeOK
  <1>1. Inv => TypeOK
    <2> SUFFICES ASSUME Inv PROVE TypeOK
      OBVIOUS
    <2>1. second <= 3 * calls
      BY DEF Inv, Typed, Paced, Busy, Reading, MaxRetries
    <2>2. started \in [Slots -> 0..MaxCalls]
      BY BrowserAssumption DEF Inv, Typed, Paced
    <2> QED  BY <2>1, <2>2 DEF Inv, Typed, Paced, Busy, Reading, MaxRetries, TypeOK
  <1> QED  BY <1>1, Invariant, PTL

-----------------------------------------------------------------------------
(* What an answer tells.                                                   *)

\* OnceUnlessLate, and what it says of a call that goes on.
Tells ==
    caller = "execute_action" =>
      /\ pc = "perform" => effects = lates
      /\ pc \in Reading \cup {"extract"} => effects = lates + 1
      /\ pc = "idle" /\ outcome = "success" => effects = lates + 1
      /\ pc = "idle" /\ outcome = "timeout" => effects = lates
      /\ pc = "idle" /\ outcome = "failed" => effects \in {lates, lates + 1}

LEMMA StepTells == Inv /\ Tells /\ [Next]_vars => Tells'
  <1> SUFFICES ASSUME Inv, Tells, [Next]_vars PROVE Tells'
    OBVIOUS
  <1>0. effects \in Nat /\ lates \in Nat
    BY DEF Inv, Typed
  <1> USE <1>0 DEF Tells, Reading
  <1>1. CASE ExecuteAction
    BY <1>1 DEF ExecuteAction, Call
  <1>2. CASE CapturePage
    BY <1>2 DEF CapturePage, Call
  <1>3. CASE Performed
    BY <1>3 DEF Performed, Perform
  <1>4. CASE Retry
    BY <1>4 DEF Retry, TimedOut, Perform
  <1>5. CASE GiveUp
    BY <1>5 DEF GiveUp, TimedOut, Perform
  <1>6. CASE Fail
    BY <1>6 DEF Fail, Perform
  <1>7. CASE ExtractRaises \/ ReadPage \/ ReadFails \/ Drift
    BY <1>7 DEF ExtractRaises, ReadPage, ReadFails, Read, Drift, call
  <1>8. CASE TakePicture \/ PictureFails \/ Dump \/ DumpFails
    BY <1>8 DEF TakePicture, PictureFails, Dump, DumpFails, call
  <1>9. CASE ReturnState
    BY <1>9 DEF ReturnState, call
  <1>10. CASE ReturnCapture
    BY <1>10 DEF ReturnCapture, call
  <1>11. CASE UNCHANGED vars
    BY <1>11 DEF vars, call
  <1> QED
    BY <1>1, <1>2, <1>3, <1>4, <1>5, <1>6, <1>7, <1>8, <1>9, <1>10, <1>11
    DEF Next, Step, Extract, Stopped

\* Only a timeout that came after the action had landed repeats it.
THEOREM RepeatedOnlyWhenLate == Spec => []OnceUnlessLate
  <1>1. Init => Tells
    BY DEF Init, Tells
  <1>2. Tells => OnceUnlessLate
    BY DEF Tells, OnceUnlessLate
  <1> QED  BY <1>1, <1>2, StepTells, Invariant, PTL DEF Spec

-----------------------------------------------------------------------------
(* What the files show.                                                    *)

Slot(r) == <<r.url, r.second>>

\* EvidenceMatches of one record.
Shows(r) ==
    Alone(r) /\ ~r.drifted =>
      /\ r.shot => pictures[Slot(r)] = r.dom
      /\ r.success => sheets[Slot(r)] = r.dom

\* The record in hand and its files, between the stages.
InHand ==
    /\ pc \in Reading =>
         /\ started[Slot(state)] >= 1
         /\ \A r \in returned : Slot(r) = Slot(state) => started[Slot(state)] >= 2
    /\ pc = "picture" => ~state.shot /\ (~state.drifted => state.dom = page)
    /\ pc = "dump" => state.shot /\ pictures[Slot(state)] # NoPage
    /\ pc \in {"dump", "return"} /\ state.shot /\ ~state.drifted =>
         pictures[Slot(state)] = state.dom
    /\ pc = "return" /\ state.success => sheets[Slot(state)] = state.dom

Kept ==
    /\ \A r \in returned : started[Slot(r)] >= 1 /\ Shows(r)
    /\ \A n \in Slots : sheets[n] # NoPage => pictures[n] # NoPage
    /\ InHand

LEMMA SlotsOfRecords ==
    ASSUME Inv
    PROVE  Slot(state) \in Slots /\ \A r \in returned : Slot(r) \in Slots
  BY DEF Inv, Typed, Record, Slot, Slots

\* A step that leaves the files alone keeps what they show.
LEMMA UntouchedKept ==
    ASSUME Kept, UNCHANGED <<files, returned>>
    PROVE  /\ \A r \in returned' : started'[Slot(r)] >= 1 /\ Shows(r)'
           /\ \A n \in Slots : sheets'[n] # NoPage => pictures'[n] # NoPage
  BY DEF Kept, Shows, Alone, Slot, files

\* To write the files of the record in hand touches no other record's, unless
\* that one is of the same address and second.
LEMMA OthersKept ==
    ASSUME Inv, Kept, pc \in Reading, UNCHANGED <<started, returned>>,
           \A n \in Slots \ {Slot(state)} :
             pictures'[n] = pictures[n] /\ sheets'[n] = sheets[n]
    PROVE  \A r \in returned' : started'[Slot(r)] >= 1 /\ Shows(r)'
  <1> SUFFICES ASSUME NEW r \in returned
               PROVE  started[Slot(r)] >= 1 /\ Shows(r)'
    OBVIOUS
  <1>1. Slot(r) \in Slots /\ started[Slot(r)] >= 1 /\ Shows(r)
    BY SlotsOfRecords DEF Kept
  <1>2. CASE Slot(r) = Slot(state)
    <2>1. started[Slot(r)] >= 2
      BY <1>2 DEF Kept, InHand
    <2> QED  BY <1>1, <2>1 DEF Shows, Alone, Slot
  <1>3. CASE Slot(r) # Slot(state)
    BY <1>1, <1>3 DEF Shows, Alone, Slot
  <1> QED  BY <1>2, <1>3

\* A read starts a capture of its own slot.
LEMMA ReadKept ==
    ASSUME Inv, Kept, NEW success \in BOOLEAN, Read(success),
           pc' = IF success THEN "picture" ELSE "return"
    PROVE  Kept'
  <1> DEFINE slot == <<Address, second>>
  <1>1. slot \in Slots
    BY AddressIsAUrl, NowIsASecond DEF Read, Slots, Busy
  <1>2. /\ state' = [NoRecord EXCEPT !.url = Address, !.second = second,
                       !.dom = IF success THEN page ELSE NoPage, !.success = success]
        /\ started' = [started EXCEPT ![slot] = @ + 1]
        /\ UNCHANGED <<page, pictures, sheets, returned>>
    BY DEF Read
  <1>3. /\ Slot(state') = slot /\ ~state'.shot /\ ~state'.drifted /\ state'.success = success
        /\ state'.dom = IF success THEN page ELSE NoPage
    BY <1>2 DEF Slot, NoRecord
  <1>4. /\ started'[slot] >= 1
        /\ \A n \in Slots : started[n] \in Nat /\ (n # slot => started'[n] = started[n])
        /\ started'[slot] = started[slot] + 1
    BY <1>1, <1>2 DEF Inv, Typed
  <1> HIDE DEF slot
  <1>5. ASSUME NEW r \in returned
        PROVE  /\ started'[Slot(r)] >= 1 /\ Shows(r)'
               /\ Slot(r) = slot => started'[slot] >= 2
    <2>1. Slot(r) \in Slots /\ started[Slot(r)] >= 1 /\ Shows(r)
      BY SlotsOfRecords DEF Kept
    <2>2. CASE Slot(r) = slot
      <3>1. started'[Slot(r)] >= 2 /\ started'[Slot(r)] >= 1 /\ started'[Slot(r)] # 1
        BY <2>1, <2>2, <1>4
      <3> QED  BY <2>2, <3>1 DEF Shows, Alone, Slot
    <2>3. CASE Slot(r) # slot
      <3>1. started'[Slot(r)] = started[Slot(r)]
        BY <2>1, <2>3, <1>4
      <3> QED  BY <2>1, <2>3, <3>1, <1>2 DEF Shows, Alone, Slot
    <2> QED  BY <2>2, <2>3
  <1>6. InHand'
    <2>1. /\ pc' # "dump" /\ (pc' = "return" => ~success)
          /\ pc' = "picture" => success
      OBVIOUS
    <2> QED  BY <1>2, <1>3, <1>4, <1>5, <2>1 DEF InHand, Slot
  <1>7. \A n \in Slots : sheets'[n] # NoPage => pictures'[n] # NoPage
    BY <1>2 DEF Kept
  <1> QED  BY <1>2, <1>5, <1>6, <1>7 DEF Kept

LEMMA StepKept == Inv /\ Kept /\ [Next]_vars => Kept'
  <1> SUFFICES ASSUME Inv, Kept, [Next]_vars PROVE Kept'
    OBVIOUS
  <1>1. CASE UNCHANGED <<files, returned>> /\ pc' \notin Reading
    <2>1. InHand'
      BY <1>1 DEF InHand, Reading
    <2> QED  BY <1>1, <2>1, UntouchedKept DEF Kept
  <1>2. CASE ExecuteAction \/ CapturePage \/ Performed \/ Retry \/ GiveUp \/ Fail
               \/ ExtractRaises
    <2>1. UNCHANGED <<files, returned>> /\ pc' \notin Reading
      BY <1>2 DEF ExecuteAction, CapturePage, Performed, Retry, GiveUp, Fail, TimedOut,
                  Perform, ExtractRaises, Reading
    <2> QED  BY <1>1, <2>1
  <1>3. CASE ReadPage \/ ReadFails
    <2>1. CASE ReadPage
      BY <2>1, ReadKept DEF ReadPage
    <2>2. CASE ReadFails
      BY <2>2, ReadKept DEF ReadFails
    <2> QED  BY <1>3, <2>1, <2>2
  <1>4. CASE Drift
    <2>1. InHand'
      BY <1>4 DEF Drift, Kept, InHand, Slot, Reading, files, Inv, Typed, Record
    <2> QED  BY <1>4, <2>1, UntouchedKept DEF Drift, Kept
  <1>5. CASE TakePicture
    <2>1. /\ Slot(state) \in Slots /\ page \in Pages /\ Slot(state) = Name
      BY SlotsOfRecords DEF Inv, Typed, Name, FileName, Slot
    <2>2. /\ pictures' = [pictures EXCEPT ![Slot(state)] = page]
          /\ state' = [state EXCEPT !.shot = TRUE]
          /\ pc = "picture" /\ pc' = "dump" /\ UNCHANGED <<started, sheets, returned>>
      BY <1>5, <2>1 DEF TakePicture
    <2>3. /\ pictures'[Slot(state)] = page /\ page # NoPage
          /\ \A n \in Slots \ {Slot(state)} : pictures'[n] = pictures[n]
      BY <2>1, <2>2, BrowserAssumption DEF Inv, Typed
    <2>4. /\ Slot(state') = Slot(state) /\ state'.shot /\ state'.dom = state.dom
          /\ state'.drifted = state.drifted
      BY <2>2 DEF Slot, Inv, Typed, Record
    <2>5. InHand'
      BY <2>2, <2>3, <2>4 DEF Kept, InHand, Slot, Reading
    <2>6. \A n \in Slots : sheets'[n] # NoPage => pictures'[n] # NoPage
      BY <2>2, <2>3 DEF Kept
    <2>7. \A r \in returned' : started'[Slot(r)] >= 1 /\ Shows(r)'
      BY <2>2, <2>3, OthersKept DEF Reading
    <2> QED  BY <2>5, <2>6, <2>7 DEF Kept
  <1>6. CASE PictureFails
    <2>1. InHand'
      BY <1>6 DEF PictureFails, Kept, InHand, Slot, Reading, files, Inv, Typed, Record
    <2> QED  BY <1>6, <2>1, UntouchedKept DEF PictureFails, Kept
  <1>7. CASE Dump \/ DumpFails
    <2>1. /\ Slot(state) \in Slots /\ Slot(state) = Name
      BY SlotsOfRecords DEF Name, FileName, Slot
    <2>2. /\ sheets' = sheets \/ \E v : sheets' = [sheets EXCEPT ![Slot(state)] = v]
          /\ pc = "dump" /\ pc' = "return" /\ UNCHANGED <<started, pictures, returned>>
      BY <1>7, <2>1 DEF Dump, DumpFails
    <2>3. \A n \in Slots \ {Slot(state)} : sheets'[n] = sheets[n]
      BY <2>1, <2>2 DEF Inv, Typed
    <2>4. \A r \in returned' : started'[Slot(r)] >= 1 /\ Shows(r)'
      BY <2>2, <2>3, OthersKept DEF Reading
    <2>5. \A n \in Slots : sheets'[n] # NoPage => pictures'[n] # NoPage
      BY <2>2, <2>3 DEF Kept, InHand
    <2>6. /\ Slot(state') = Slot(state) /\ state'.dom = state.dom
          /\ state'.shot = state.shot /\ state'.drifted = state.drifted
          /\ state'.success => sheets'[Slot(state)] = state.dom
      <3>1. CASE Dump
        BY <3>1, <2>1 DEF Dump, Slot, Inv, Typed
      <3>2. CASE DumpFails
        BY <3>2 DEF DumpFails, Slot, Inv, Typed, Record
      <3> QED  BY <1>7, <3>1, <3>2
    <2>7. InHand'
      BY <2>2, <2>6 DEF Kept, InHand, Slot, Reading
    <2> QED  BY <2>4, <2>5, <2>7 DEF Kept
  <1>8. CASE ReturnState \/ ReturnCapture
    <2>1. PICK success \in {FALSE, state.success} :
            returned' = returned \cup {[state EXCEPT !.success = success]}
      <3>1. state = [state EXCEPT !.success = state.success]
        BY DEF Inv, Typed, Record
      <3> QED  BY <1>8, <3>1 DEF ReturnState, ReturnCapture
    <2>2. pc = "return" /\ pc' = "idle" /\ UNCHANGED <<started, pictures, sheets>>
      BY <1>8 DEF ReturnState, ReturnCapture, files
    <2> DEFINE new == [state EXCEPT !.success = success]
    <2>3. /\ Slot(new) = Slot(state) /\ new.dom = state.dom /\ new.shot = state.shot
          /\ new.drifted = state.drifted /\ (new.success => state.success)
      BY <2>1 DEF Slot, Inv, Typed, Record
    <2> HIDE DEF new
    <2>4. started[Slot(new)] >= 1 /\ Shows(new)
      BY <2>2, <2>3 DEF Kept, InHand, Shows, Slot, Reading, Inv, Typed, Record
    <2>5. \A r \in returned' : started[Slot(r)] >= 1 /\ Shows(r)
      BY <2>1, <2>4 DEF Kept, new
    <2>6. \A r \in returned' : started'[Slot(r)] >= 1 /\ Shows(r)'
      BY <2>2, <2>5 DEF Shows, Alone, Slot
    <2>7. InHand'
      BY <2>2 DEF InHand, Reading
    <2> QED  BY <2>2, <2>6, <2>7 DEF Kept
  <1>9. CASE UNCHANGED vars
    BY <1>9 DEF vars, files, Kept, InHand, Shows, Alone, Slot
  <1> QED
    BY <1>2, <1>3, <1>4, <1>5, <1>6, <1>7, <1>8, <1>9
    DEF Next, Step, Extract, Stopped

\* A record that was handed out and its files show one page, unless the page
\* moved in between or its address was captured twice within the second.
THEOREM FilesMatch == Spec => []EvidenceMatches
  <1>1. Init => Kept
    BY DEF Init, Kept, InHand, Reading
  <1>2. Kept => EvidenceMatches
    BY DEF Kept, Shows, Slot, EvidenceMatches, FileName
  <1> QED  BY <1>1, <1>2, StepKept, Invariant, PTL DEF Spec
=============================================================================
